--------------------------- MODULE EndpointProofs ---------------------------
(***************************************************************************)
(* What holds of the published endpoint for any number of nodes, pods and  *)
(* changes, and any address lists, ingresses and ports.                    *)
(*                                                                         *)
(* The argument has two halves.  What a reconcile chooses serves according *)
(* to the caches it read, in whatever order the slices list the pods.  And *)
(* a node update that enqueues nothing leaves the addresses of the node    *)
(* the same set, so the choice still serves.                               *)
(***************************************************************************)
EXTENDS Endpoint, FiniteSetTheorems, FunctionTheorems, WellFoundedInduction, TLAPS

\* A key that waits nowhere has been served: the Service is in the cache with the
\* type of the spec, and unless an update of the endpoint is still to be delivered
\* the endpoint serves according to the caches.
Settled ==
    (~queued /\ pc = "idle" /\ cInst.exists) =>
        /\ cSvc.exists
        /\ svc.exists => svc.type = cInst.spec.serviceType
        /\ endpoint = cInst.endpoint =>
              endpoint \in ReachableOf(cInst.spec.replicas, cSvc.type, cNode, cPods, cSvc)

\* A worker whose key has not been enqueued again holds what the informer knows.
Working ==
    (~queued /\ pc = "applied") =>
        /\ cInst.exists
        /\ w = [spec |-> cInst.spec, orig |-> cInst.endpoint]
        /\ svc.exists => svc.type = cInst.spec.serviceType

IInv == TypeOK /\ Settled /\ Working

-----------------------------------------------------------------------------
(* Sets of places. *)

\* A set of naturals has a smallest element, and Min is it.
LEMMA SmallestNat ==
  ASSUME NEW S \in SUBSET Nat, S # {}
  PROVE  Min(S) \in S
  <1> DEFINE R == OpToRel(<, Nat)
  <1>1. IsWellFoundedOn(R, Nat)
    BY NatLessThanWellFounded
  <1>2. \A x, y \in Nat : <<y, x>> \in R <=> y < x
    BY DEF OpToRel
  <1> HIDE DEF R
  <1>3. PICK x \in S : \A y \in S : ~(<<y, x>> \in R)
    BY <1>1, WFMin
  <1>4. ASSUME NEW y \in S PROVE x <= y
    <2>1. x \in Nat /\ y \in Nat
      OBVIOUS
    <2>2. ~(y < x)
      BY <1>2, <1>3, <2>1
    <2> QED BY <2>1, <2>2
  <1> QED BY <1>4 DEF Min

\* The places in S at which f holds v.
At(S, f, v) == {j \in S : f[j] = v}

\* No value of g occurs more often in T than in S.
NoMore(T, g, S, f) == \A i \in T : Cardinality(At(T, g, g[i])) <= Cardinality(At(S, f, g[i]))

\* Lists of one length of which no value occurs more often in the second than
\* in the first have the same values: the count that sameInternalIPs takes decides.
LEMMA SameValues ==
  ASSUME NEW A, NEW B, NEW f, NEW g, IsFiniteSet(A), IsFiniteSet(B),
         Cardinality(A) = Cardinality(B), NoMore(B, g, A, f)
  PROVE  /\ \A i \in A : \E j \in B : g[j] = f[i]
         /\ \A j \in B : \E i \in A : f[i] = g[j]
  <1> DEFINE InA(v) == At(A, f, v)
             InB(v) == At(B, g, v)
  <1>1. \A v : IsFiniteSet(InA(v)) /\ IsFiniteSet(InB(v))
    BY FS_Subset DEF At
  <1>2. ASSUME NEW i \in B PROVE Injection(InB(g[i]), InA(g[i])) # {}
    <2> DEFINE m == Cardinality(InB(g[i]))
               n == Cardinality(InA(g[i]))
    <2>1. m \in Nat /\ n \in Nat /\ m <= n
      BY <1>1, FS_CardinalityType DEF NoMore
    <2>2. PICK p : p \in Bijection(1..m, InB(g[i]))
      BY <1>1, FS_CardinalityType, Fun_ExistsBij
    <2>3. PICK q : q \in Bijection(1..n, InA(g[i]))
      BY <1>1, FS_CardinalityType, Fun_ExistsBij
    <2> HIDE DEF m, n, InA, InB
    <2> DEFINE r == Inverse(p, 1..m, InB(g[i]))
               h == [j \in InB(g[i]) |-> q[r[j]]]
    <2>4. r \in Injection(InB(g[i]), 1..m)
      BY <2>2, Fun_BijInverse, Fun_BijectionProperties
    <2> HIDE DEF r
    <2>5. r \in [InB(g[i]) -> 1..m] /\ \A a, b \in InB(g[i]) : r[a] = r[b] => a = b
      BY <2>4, Fun_InjectionProperties
    <2>6. q \in [1..n -> InA(g[i])] /\ \A a, b \in 1..n : q[a] = q[b] => a = b
      BY <2>3, Fun_BijectionProperties
    <2>7. 1..m \subseteq 1..n
      BY <2>1
    <2>8. h \in [InB(g[i]) -> InA(g[i])] /\ \A a, b \in InB(g[i]) : h[a] = h[b] => a = b
      BY <2>5, <2>6, <2>7
    <2> HIDE DEF h
    <2> QED BY <2>8, Fun_IsInj
  <1>3. ASSUME NEW i \in B PROVE \E j \in A : f[j] = g[i]
    <2>1. PICK h : h \in Injection(InB(g[i]), InA(g[i]))
      BY <1>2
    <2>2. h[i] \in InA(g[i])
      BY <2>1, Fun_InjectionProperties DEF At
    <2> QED BY <2>2 DEF At
  <1>4. ASSUME NEW k \in A, \A i \in B : g[i] # f[k] PROVE FALSE
    <2> DEFINE inj(i) == CHOOSE h : h \in Injection(InB(g[i]), InA(g[i]))
               H == [i \in B |-> inj(i)[i]]
    <2>1. \A i \in B : inj(i) \in Injection(InB(g[i]), InA(g[i]))
      BY <1>2
    <2> HIDE DEF inj
    <2>2. ASSUME NEW i \in B
          PROVE  /\ H[i] \in InA(g[i])
                 /\ \A a, b \in InB(g[i]) : inj(i)[a] = inj(i)[b] => a = b
      <3>1. i \in InB(g[i])
        BY DEF At
      <3> HIDE DEF InA, InB
      <3>2. /\ inj(i) \in [InB(g[i]) -> InA(g[i])]
            /\ \A a, b \in InB(g[i]) : inj(i)[a] = inj(i)[b] => a = b
        BY <2>1, Fun_InjectionProperties
      <3> QED BY <3>1, <3>2
    <2>3. H \in [B -> A \ {k}]
      BY <1>4, <2>2 DEF At
    <2>4. IsFiniteSet(A \ {k}) /\ Cardinality(A \ {k}) < Cardinality(B)
      <3>1. IsFiniteSet(A \ {k}) /\ Cardinality(A \ {k}) = Cardinality(A) - 1
        BY FS_RemoveElement
      <3>2. Cardinality(A) \in Nat
        BY FS_CardinalityType
      <3> QED BY <3>1, <3>2
    <2> HIDE DEF H
    <2>5. PICK x \in B, y \in B : x # y /\ H[x] = H[y]
      BY <2>3, <2>4, FS_PigeonHole
    <2>6. g[x] = g[y]
      BY <2>2, <2>5 DEF At
    <2>7. inj(x) = inj(y)
      BY <2>6 DEF inj
    <2>8. inj(x)[x] = inj(x)[y]
      BY <2>5, <2>7 DEF H
    <2> QED BY <2>2, <2>5, <2>6, <2>8 DEF At
  <1> QED BY <1>3, <1>4

-----------------------------------------------------------------------------
(* The choice of the endpoint. *)

\* The places of a node's InternalIPs, and what they hold.
LEMMA Places ==
  ASSUME NEW nd \in NodeType
  PROVE  /\ internalIPs(nd) \in SUBSET Nat
         /\ IsFiniteSet(internalIPs(nd))
         /\ AddressesOf(nd) \subseteq Hosts
         /\ "" \notin AddressesOf(nd)
         /\ internalIPs(nd) \subseteq DOMAIN nd.addresses
  <1>1. CASE nd = NoNode
    <2>1. internalIPs(nd) = {}
      BY <1>1 DEF internalIPs, NoNode
    <2> QED BY <2>1, FS_EmptySet DEF AddressesOf
  <1>2. CASE nd \in [exists : {TRUE}, addresses : AddressLists, ready : Conditions]
    <2>1. nd.addresses \in AddressLists
      BY <1>2
    <2>2. nd.addresses \in Seq(Address)
      BY <2>1, ListsAssumption
    <2>3. PICK n \in Nat : DOMAIN nd.addresses = 1..n
      BY <2>2
    <2>4. internalIPs(nd) \in SUBSET (1..n) /\ internalIPs(nd) \in SUBSET Nat
      BY <2>3 DEF internalIPs
    <2>5. IsFiniteSet(internalIPs(nd))
      <3>1. IsFiniteSet(1..n)
        BY FS_Interval
      <3> QED BY <2>4, <3>1, FS_Subset
    <2>6. \A i \in DOMAIN nd.addresses : nd.addresses[i] \in Address
      BY <2>2
    <2>7. "" \notin AddressesOf(nd)
      BY <2>6 DEF AddressesOf, internalIPs, Address
    <2>8. AddressesOf(nd) \subseteq Hosts
      <3> DEFINE addressesIn(l) == {l[i].address : i \in {j \in DOMAIN l : l[j].type = "InternalIP"}}
      <3>1. AddressesOf(nd) = addressesIn(nd.addresses)
        BY DEF AddressesOf, internalIPs
      <3>2. UNION {addressesIn(l) : l \in AddressLists} \subseteq Hosts
        BY DEF Hosts
      <3> HIDE DEF addressesIn
      <3> QED BY <2>1, <3>1, <3>2
    <2> QED BY <2>4, <2>5, <2>7, <2>8 DEF internalIPs
  <1> QED BY <1>1, <1>2 DEF NodeType

\* What the node lookup returns is an address of the node, and it returns one
\* whenever the node has one.
LEMMA LookUp ==
  ASSUME NEW nd \in NodeType
  PROVE  /\ nodeInternalIP(nd) # "" <=> nd.exists /\ internalIPs(nd) # {}
         /\ nodeInternalIP(nd) # "" => nodeInternalIP(nd) \in AddressesOf(nd)
  <1>1. CASE nd.exists /\ internalIPs(nd) # {}
    <2>1. Min(internalIPs(nd)) \in internalIPs(nd)
      BY <1>1, Places, SmallestNat
    <2>2. nodeInternalIP(nd) = nd.addresses[Min(internalIPs(nd))].address
      BY <1>1 DEF nodeInternalIP
    <2>3. nodeInternalIP(nd) \in AddressesOf(nd)
      BY <2>1, <2>2 DEF AddressesOf
    <2> QED BY <1>1, <2>3, Places
  <1>2. CASE ~(nd.exists /\ internalIPs(nd) # {})
    BY <1>2 DEF nodeInternalIP
  <1> QED BY <1>1, <1>2

\* A node update that the predicate drops leaves the same addresses.
LEMMA SameAddresses ==
  ASSUME NEW old \in NodeType, NEW new \in NodeType, sameInternalIPs(old, new)
  PROVE  AddressesOf(old) = AddressesOf(new)
  <1> DEFINE A == internalIPs(old)
             B == internalIPs(new)
             f == [i \in A |-> old.addresses[i].address]
             g == [i \in B |-> new.addresses[i].address]
  <1>1. IsFiniteSet(A) /\ IsFiniteSet(B)
    BY Places
  <1>2. Cardinality(A) = Cardinality(B)
    BY DEF sameInternalIPs
  <1>3. ASSUME NEW i \in B
        PROVE  Cardinality(At(B, g, g[i])) <= Cardinality(At(A, f, g[i]))
    <2>1. Cardinality({j \in B : new.addresses[j].address = new.addresses[i].address})
          <= Cardinality({j \in A : old.addresses[j].address = new.addresses[i].address})
      BY DEF sameInternalIPs
    <2>2. /\ At(B, g, g[i]) = {j \in B : new.addresses[j].address = new.addresses[i].address}
          /\ At(A, f, g[i]) = {j \in A : old.addresses[j].address = new.addresses[i].address}
      BY DEF At
    <2> QED BY <2>1, <2>2
  <1>4. AddressesOf(old) = {f[i] : i \in A} /\ AddressesOf(new) = {g[i] : i \in B}
    BY DEF AddressesOf
  <1> HIDE DEF A, B, f, g
  <1>5. NoMore(B, g, A, f)
    BY <1>3 DEF NoMore
  <1>6. /\ \A i \in A : \E j \in B : g[j] = f[i]
        /\ \A j \in B : \E i \in A : f[i] = g[j]
    BY <1>1, <1>2, <1>5, SameValues
  <1> QED BY <1>4, <1>6

\* However the slices list the pods, the candidates are the nodes of the Ready ones.
LEMMA Candidates ==
  ASSUME NEW eps \in [Pods -> PodType], NEW order \in Orders
  PROVE  readyNodeNames([i \in Pods |-> eps[order[i]]]) =
             {n \in Nodes : \E p \in Pods : eps[p].ready /\ eps[p].node = n}
  <1>1. order \in Injection(Pods, Pods) /\ order \in [Pods -> Pods]
    BY DEF Orders, Injection
  <1>2. IsFiniteSet(Pods)
    BY CountsAssumption, FS_Interval DEF Pods
  <1>3. order \in Surjection(Pods, Pods)
    BY <1>1, <1>2, FS_Injection
  <1>4. \A p \in Pods : \E i \in Pods : order[i] = p
    BY <1>3, Fun_SurjectionProperties
  <1>5. \A p \in Pods : eps[p].node \in Nodes \cup {0}
    BY DEF PodType
  <1>6. 0 \notin Nodes
    BY DEF Nodes
  <1> DEFINE listed == [i \in Pods |-> eps[order[i]]]
             up(p)  == eps[p].ready /\ eps[p].node # 0
  <1>7. readyNodeNames(listed) = {eps[order[i]].node : i \in {j \in Pods : up(order[j])}}
    BY <1>1 DEF readyNodeNames, Listed
  <1>8. {eps[order[i]].node : i \in {j \in Pods : up(order[j])}} = {eps[p].node : p \in {q \in Pods : up(q)}}
    BY <1>1, <1>4
  <1>9. {eps[p].node : p \in {q \in Pods : up(q)}} =
             {n \in Nodes : \E p \in Pods : eps[p].ready /\ eps[p].node = n}
    BY <1>5, <1>6
  <1> QED BY <1>7, <1>8, <1>9

\* "Ready endpoints are sorted by NodeName so multi-replica deployments produce a
\* stable URL across reconciles": the order in which the slices list the pods does
\* not show in the answer of resolveEndpoint.
THEOREM OrderIrrelevant ==
  ASSUME NEW eps \in [Pods -> PodType], NEW o \in Orders, NEW q \in Orders, NEW port
  PROVE  resolveEndpoint([i \in Pods |-> eps[o[i]]], port) = resolveEndpoint([i \in Pods |-> eps[q[i]]], port)
  <1>1. readyNodeNames([i \in Pods |-> eps[o[i]]]) = readyNodeNames([i \in Pods |-> eps[q[i]]])
    BY Candidates
  <1> QED BY <1>1 DEF resolveEndpoint, FirstNode

\* The load balancer's address is one of its ingresses, and the DNS name stands in
\* for it only when they give none.
LEMMA BalancerURL ==
  ASSUME NEW s \in SvcType
  PROVE  loadBalancerURL(s.ingress) \in
             IF Balancer(s) # {} THEN {endpointURL(h, HTTPPort) : h \in Balancer(s)} ELSE {clusterDNS}
  <1> DEFINE given == {i \in DOMAIN s.ingress : s.ingress[i].ip # "" \/ s.ingress[i].hostname # ""}
             first == s.ingress[Min(given)]
             host  == IF first.ip # "" THEN first.ip ELSE first.hostname
  <1>1. s.ingress \in Seq([ip : STRING, hostname : STRING])
    BY ListsAssumption DEF SvcType
  <1>2. given \in SUBSET Nat
    <2>1. PICK n \in Nat : DOMAIN s.ingress = 1..n
      BY <1>1
    <2>2. given \subseteq DOMAIN s.ingress
      OBVIOUS
    <2> HIDE DEF given
    <2> QED BY <2>1, <2>2
  <1>3. CASE given = {}
    <2>1. Balancer(s) = {}
      BY <1>3 DEF Balancer
    <2> QED BY <1>3, <2>1 DEF loadBalancerURL
  <1>4. CASE given # {}
    <2>1. Min(given) \in given
      BY <1>2, <1>4, SmallestNat
    <2>2. host \in Balancer(s)
      <3>1. host # "" /\ host \in {first.ip, first.hostname}
        BY <2>1
      <3>2. Min(given) \in DOMAIN s.ingress
        BY <2>1
      <3> HIDE DEF given
      <3> QED BY <3>1, <3>2 DEF Balancer
    <2>3. loadBalancerURL(s.ingress) = endpointURL(host, HTTPPort)
      BY <1>4 DEF loadBalancerURL
    <2> HIDE DEF host
    <2> QED BY <2>2, <2>3
  <1> QED BY <1>3, <1>4

\* What a reconcile chooses serves, by the caches it read.
LEMMA ChoiceServes ==
  ASSUME TypeOK, NEW order \in Orders, NEW replicas, replicas # 0
  PROVE  resolveServiceEndpoint(cSvc, resolveEndpoint([i \in Pods |-> cPods[order[i]]], cSvc.port))
             \in ReachableOf(replicas, cSvc.type, cNode, cPods, cSvc)
  <1> DEFINE eps   == [i \in Pods |-> cPods[order[i]]]
             names == {n \in readyNodeNames(eps) : nodeInternalIP(cNode[n]) # ""}
  <1>1. cSvc \in SvcType /\ cSvc.type \in ServiceTypes
    BY DEF TypeOK, SvcType
  <1>2. CASE cSvc.type = "LoadBalancer"
    <2>1. resolveServiceEndpoint(cSvc, resolveEndpoint(eps, cSvc.port)) = loadBalancerURL(cSvc.ingress)
      BY <1>2 DEF resolveServiceEndpoint
    <2>2. ReachableOf(replicas, cSvc.type, cNode, cPods, cSvc) =
            IF Balancer(cSvc) # {} THEN {endpointURL(h, HTTPPort) : h \in Balancer(cSvc)} ELSE {clusterDNS}
      BY <1>2 DEF ReachableOf
    <2> QED BY <1>1, <2>1, <2>2, BalancerURL
  <1>3. CASE cSvc.type = "ClusterIP"
    BY <1>3 DEF resolveServiceEndpoint, ReachableOf
  <1>4. CASE cSvc.type = "NodePort"
    <2>1. resolveServiceEndpoint(cSvc, resolveEndpoint(eps, cSvc.port)) = resolveEndpoint(eps, cSvc.port)
      BY <1>4 DEF resolveServiceEndpoint
    <2>2. \A n \in Nodes : cNode[n] \in NodeType
      BY DEF TypeOK
    <2>3. names = Serving(cNode, cPods)
      <3>1. readyNodeNames(eps) = {n \in Nodes : \E p \in Pods : cPods[p].ready /\ cPods[p].node = n}
        BY Candidates DEF TypeOK
      <3>2. \A n \in Nodes : nodeInternalIP(cNode[n]) # "" <=> cNode[n].exists /\ internalIPs(cNode[n]) # {}
        BY <2>2, LookUp
      <3> HIDE DEF eps
      <3> QED BY <3>1, <3>2 DEF Serving
    <2>4. CASE names = {}
      BY <1>4, <2>1, <2>3, <2>4 DEF resolveEndpoint, ReachableOf
    <2>5. CASE names # {}
      <3>1. Min(names) \in names /\ Min(names) \in Nodes
        <4>1. names \in SUBSET Nat /\ names \subseteq Nodes
          <5> HIDE DEF names
          <5>1. names \subseteq Nodes
            BY <2>3 DEF Serving
          <5>2. Nodes \subseteq Nat
            BY DEF Nodes
          <5> QED BY <5>1, <5>2
        <4> HIDE DEF names
        <4> QED BY <2>5, <4>1, SmallestNat
      <3>2. nodeInternalIP(cNode[Min(names)]) \in AddressesOf(cNode[Min(names)])
        BY <2>2, <3>1, LookUp
      <3>3. resolveEndpoint(eps, cSvc.port) = endpointURL(nodeInternalIP(cNode[Min(names)]), cSvc.port)
        BY <2>5 DEF resolveEndpoint, FirstNode
      <3>4. ReachableOf(replicas, cSvc.type, cNode, cPods, cSvc) =
              {endpointURL(ip, cSvc.port) : ip \in UNION {AddressesOf(cNode[n]) : n \in names}}
        BY <1>4, <2>3, <2>5 DEF ReachableOf
      <3>5. \A n \in names : AddressesOf(cNode[n]) \subseteq UNION {AddressesOf(cNode[m]) : m \in names}
        OBVIOUS
      <3> DEFINE ip == nodeInternalIP(cNode[Min(names)])
      <3>6. ip \in UNION {AddressesOf(cNode[m]) : m \in names}
        BY <3>1, <3>2, <3>5
      <3> HIDE DEF ip, names
      <3>7. endpointURL(ip, cSvc.port) \in ReachableOf(replicas, cSvc.type, cNode, cPods, cSvc)
        BY <3>4, <3>6
      <3> QED BY <2>1, <3>3, <3>7 DEF ip
    <2> QED BY <2>4, <2>5
  <1> QED BY <1>1, <1>2, <1>3, <1>4 DEF ServiceTypes

\* A URL that serves is one the cluster can give.
LEMMA ReachableType ==
  ASSUME NEW nds \in [Nodes -> NodeType], NEW eps, NEW s \in SvcType, NEW replicas, NEW type
  PROVE  ReachableOf(replicas, type, nds, eps, s) \subseteq URLs \cup {NoURL}
  <1>1. s.port \in Ports \cup {0} /\ s.ingress \in Ingresses
    BY DEF SvcType
  <1>2. \A h \in Hosts, p \in Ports \cup {0, HTTPPort} : endpointURL(h, p) \in URLs
    BY DEF URLs, endpointURL
  <1>3. "dns" \in Hosts
    BY DEF Hosts
  <1>4. Balancer(s) \subseteq Hosts
    <2> DEFINE hostsIn(l) == {l[i].ip : i \in DOMAIN l} \cup {l[i].hostname : i \in DOMAIN l}
    <2>1. Balancer(s) \subseteq hostsIn(s.ingress)
      BY DEF Balancer
    <2>2. UNION {hostsIn(l) : l \in Ingresses} \subseteq Hosts
      BY DEF Hosts
    <2> HIDE DEF hostsIn
    <2> QED BY <1>1, <2>1, <2>2
  <1>5. UNION {AddressesOf(nds[n]) : n \in Serving(nds, eps)} \subseteq Hosts
    BY Places DEF Serving
  <1> QED BY <1>1, <1>2, <1>3, <1>4, <1>5 DEF ReachableOf, clusterDNS

-----------------------------------------------------------------------------
(* Types. *)

LEMMA InitType == Init => TypeOK
  <1> SUFFICES ASSUME Init PROVE TypeOK
    OBVIOUS
  <1>1. spec \in SpecType /\ endpoint \in URLs \cup {NoURL} /\ changes \in 0..MaxChanges
    BY SpecsAssumption, CountsAssumption DEF Init
  <1>2. node \in [Nodes -> NodeType] /\ cNode \in [Nodes -> NodeType]
    <2>1. [exists : {TRUE}, addresses : {InitialList}, ready : {"True"}] \subseteq NodeType
      BY ListsAssumption, ConditionsAssumption DEF NodeType
    <2> QED BY <2>1 DEF Init
  <1>3. pods \in [Pods -> PodType] /\ cPods \in [Pods -> PodType]
    BY PlacementsAssumption DEF Init
  <1>4. svc \in SvcType /\ cSvc \in SvcType
    BY ListsAssumption DEF Init, SvcType, NoSvc, ServiceTypes
  <1>5. cInst \in InstType
    BY <1>1 DEF Init, Instance, InstType
  <1>6. w \in [spec : SpecType, orig : URLs \cup {NoURL}]
    BY DEF Init, NoWork, SpecType, ServiceTypes
  <1> QED BY <1>1, <1>2, <1>3, <1>4, <1>5, <1>6 DEF Init, TypeOK

LEMMA StepType == TypeOK /\ [Next]_vars => TypeOK'
  <1> SUFFICES ASSUME TypeOK, [Next]_vars PROVE TypeOK'
    OBVIOUS
  <1> USE DEF TypeOK
  <1>1. ASSUME Change PROVE changes' \in 0..MaxChanges
    BY <1>1, CountsAssumption DEF Change
  <1>2. CASE EditSpec
    BY <1>1, <1>2, SpecsAssumption DEF EditSpec, cacheVars
  <1>3. CASE ChangeNode
    BY <1>1, <1>3 DEF ChangeNode, cacheVars
  <1>4. CASE ChangePod
    BY <1>1, <1>4 DEF ChangePod, cacheVars
  <1>5. CASE ChangeService
    <2>1. svc' \in SvcType
      <3>1. NoSvc \in SvcType
        BY ListsAssumption DEF SvcType, NoSvc, ServiceTypes
      <3>2. \A l \in Ingresses : [svc EXCEPT !.ingress = l] \in SvcType
        BY DEF SvcType
      <3> QED BY <1>5, <3>1, <3>2 DEF ChangeService
    <2> QED BY <1>1, <1>5, <2>1 DEF ChangeService, cacheVars
  <1>6. ASSUME NEW n \in Nodes, SyncNode(n) PROVE TypeOK'
    <2>1. queued' \in BOOLEAN
      BY <1>6 DEF SyncNode
    <2> QED BY <1>6, <2>1 DEF SyncNode, serverVars
  <1>7. CASE SyncInstance
    <2>1. cInst' \in InstType
      BY <1>7 DEF SyncInstance, Instance, InstType
    <2> QED BY <1>7, <2>1 DEF SyncInstance, serverVars
  <1>8. CASE SyncService
    BY <1>8 DEF SyncService, serverVars
  <1>9. CASE SyncSlices
    BY <1>9 DEF SyncSlices, serverVars
  <1>10. CASE Apply
    <2>1. cInst.spec \in SpecType /\ cInst.endpoint \in URLs \cup {NoURL}
      BY DEF InstType
    <2>2. svc' \in SvcType
      <3>1. cInst.spec.serviceType \in ServiceTypes
        BY <2>1 DEF SpecType
      <3>2. svc.port \in Ports \cup {0} /\ svc.ingress \in Ingresses /\ <<>> \in Ingresses
        BY ListsAssumption DEF SvcType
      <3> QED BY <1>10, <3>1, <3>2 DEF Apply, SvcType
    <2> QED BY <1>10, <2>1, <2>2 DEF Apply, cacheVars
  <1>11. ASSUME NEW staged \in URLs \cup {NoURL}, NEW r \in BOOLEAN, patchStatus(staged, r) PROVE TypeOK'
    <2>1. NoWork \in [spec : SpecType, orig : URLs \cup {NoURL}]
      BY DEF NoWork, SpecType, ServiceTypes
    <2>2. queued' \in BOOLEAN
      BY <1>11 DEF patchStatus
    <2> QED BY <1>11, <2>1, <2>2 DEF patchStatus, cacheVars
  <1>12. CASE ObserveNothing
    BY <1>11, <1>12 DEF ObserveNothing
  <1>13. CASE Observe
    <2>1. CASE w.spec.replicas = 0
      BY <1>11, <1>13, <2>1 DEF Observe
    <2>2. CASE w.spec.replicas # 0
      <3>1. PICK order \in Orders, ready \in BOOLEAN :
              patchStatus(resolveServiceEndpoint(cSvc, resolveEndpoint([i \in Pods |-> cPods[order[i]]], cSvc.port)),
                          ~ready)
        BY <1>13, <2>2 DEF Observe
      <3> DEFINE url == resolveServiceEndpoint(cSvc, resolveEndpoint([i \in Pods |-> cPods[order[i]]], cSvc.port))
      <3>2. url \in ReachableOf(w.spec.replicas, cSvc.type, cNode, cPods, cSvc)
        BY <2>2, ChoiceServes
      <3> HIDE DEF url
      <3>3. url \in URLs \cup {NoURL}
        BY <3>2, ReachableType
      <3>4. patchStatus(url, ~ready)
        BY <3>1 DEF url
      <3> QED BY <1>11, <3>3, <3>4
    <2> QED BY <2>1, <2>2
  <1>14. CASE UNCHANGED vars
    BY <1>14 DEF vars, serverVars, cacheVars
  <1> QED BY <1>2, <1>3, <1>4, <1>5, <1>6, <1>7, <1>8, <1>9, <1>10, <1>12, <1>13, <1>14
          DEF Next, Environment, Informers, Reconcile

-----------------------------------------------------------------------------
(* The invariant. *)

\* Nodes that differ only in updates the watch drops reach the same URLs.
LEMMA DroppedUpdate ==
  ASSUME NEW nds \in [Nodes -> NodeType], NEW new \in [Nodes -> NodeType],
         NEW replicas, NEW type, NEW eps, NEW s,
         \A m \in Nodes : new[m] = nds[m] \/ ~nodeWatchPredicate(nds[m], new[m])
  PROVE  ReachableOf(replicas, type, new, eps, s) = ReachableOf(replicas, type, nds, eps, s)
  <1>1. \A m \in Nodes : new[m] = nds[m] \/ (nds[m].exists /\ new[m].exists /\ sameInternalIPs(nds[m], new[m]))
    BY DEF nodeWatchPredicate, nodeRelevantUpdate
  <1>2. \A m \in Nodes : (new[m].exists <=> nds[m].exists) /\ AddressesOf(new[m]) = AddressesOf(nds[m])
    BY <1>1, SameAddresses
  <1>3. \A m \in Nodes : internalIPs(new[m]) # {} <=> internalIPs(nds[m]) # {}
    <2>1. \A d : AddressesOf(d) = {} <=> internalIPs(d) = {}
      BY DEF AddressesOf
    <2> QED BY <1>2, <2>1
  <1>4. Serving(new, eps) = Serving(nds, eps)
    BY <1>2, <1>3 DEF Serving
  <1>5. {AddressesOf(new[m]) : m \in Serving(new, eps)} = {AddressesOf(nds[m]) : m \in Serving(nds, eps)}
    BY <1>2, <1>4 DEF Serving
  <1> QED BY <1>4, <1>5 DEF ReachableOf

LEMMA StepServed == IInv /\ [Next]_vars => Settled' /\ Working'
  <1> SUFFICES ASSUME TypeOK, Settled, Working, [Next]_vars PROVE Settled' /\ Working'
    BY DEF IInv
  <1>1. ASSUME queued' = TRUE PROVE Settled' /\ Working'
    BY <1>1 DEF Settled, Working
  <1>2. CASE EditSpec \/ ChangeNode \/ ChangePod
    BY <1>2 DEF EditSpec, ChangeNode, ChangePod, cacheVars, Settled, Working
  <1>3. CASE ChangeService
    <2>1. svc.exists /\ (svc'.exists => svc'.type = svc.type)
      BY <1>3 DEF ChangeService, NoSvc, TypeOK, SvcType
    <2>2. UNCHANGED <<endpoint, cInst, cNode, cPods, cSvc, queued, pc, w>>
      BY <1>3 DEF ChangeService, cacheVars
    <2> QED BY <2>1, <2>2 DEF Settled, Working
  <1>4. ASSUME NEW n \in Nodes, SyncNode(n) PROVE Settled' /\ Working'
    <2>1. UNCHANGED <<endpoint, svc, cInst, cPods, cSvc, pc, w>> /\ cNode' = [cNode EXCEPT ![n] = node[n]]
      BY <1>4 DEF SyncNode, serverVars
    <2>2. CASE ~queued' /\ cInst.exists
      <3>1. ~queued /\ ~nodeWatchPredicate(cNode[n], node[n])
        BY <1>4, <2>2 DEF SyncNode, mapNodeToInstances
      <3>2. ReachableOf(cInst.spec.replicas, cSvc.type, cNode', cPods, cSvc)
              = ReachableOf(cInst.spec.replicas, cSvc.type, cNode, cPods, cSvc)
        <4>1. cNode \in [Nodes -> NodeType] /\ cNode' \in [Nodes -> NodeType]
          BY <2>1 DEF TypeOK
        <4>2. \A m \in Nodes : cNode'[m] = cNode[m] \/ ~nodeWatchPredicate(cNode[m], cNode'[m])
          BY <2>1, <3>1, <4>1
        <4> QED BY <4>1, <4>2, DroppedUpdate
      <3> QED BY <2>1, <3>1, <3>2 DEF Settled, Working
    <2>3. CASE ~cInst.exists
      <3>1. Settled'
        BY <2>1, <2>3 DEF Settled
      <3>2. Working'
        BY <1>4, <2>1, <2>3 DEF Working, SyncNode
      <3> QED BY <3>1, <3>2
    <2>4. CASE queued'
      BY <2>4 DEF Settled, Working
    <2> QED BY <2>2, <2>3, <2>4
  <1>5. CASE SyncInstance \/ SyncService \/ SyncSlices
    BY <1>1, <1>5 DEF SyncInstance, SyncService, SyncSlices
  <1>6. CASE Apply
    <2>1. pc' = "applied" /\ cInst'.exists /\ w' = [spec |-> cInst'.spec, orig |-> cInst'.endpoint]
      BY <1>6 DEF Apply, cacheVars
    <2>2. svc'.type = cInst'.spec.serviceType
      BY <1>6 DEF Apply, cacheVars
    <2> QED BY <2>1, <2>2 DEF Settled, Working
  <1>7. CASE ObserveNothing
    BY <1>1, <1>7 DEF ObserveNothing, patchStatus
  <1>8. CASE Observe
    <2>1. CASE w.spec.replicas = 0
      BY <1>1, <1>8, <2>1 DEF Observe, patchStatus
    <2>2. CASE w.spec.replicas # 0
      <3>1. PICK order \in Orders, ready \in BOOLEAN :
              patchStatus(resolveServiceEndpoint(cSvc, resolveEndpoint([i \in Pods |-> cPods[order[i]]], cSvc.port)),
                          ~ready)
        BY <1>8, <2>2 DEF Observe
      <3> DEFINE url == resolveServiceEndpoint(cSvc, resolveEndpoint([i \in Pods |-> cPods[order[i]]], cSvc.port))
      <3>2. url \in ReachableOf(w.spec.replicas, cSvc.type, cNode, cPods, cSvc)
        BY <2>2, ChoiceServes
      <3>3. patchStatus(url, ~ready)
        BY <3>1
      <3> HIDE DEF url
      <3>4. /\ endpoint' = IF url # w.orig THEN url ELSE endpoint
            /\ pc' = "idle"
            /\ UNCHANGED <<svc, cInst, cNode, cPods, cSvc>>
        BY <3>3 DEF patchStatus, cacheVars
      <3>5. ~queued' => ~queued
        BY <3>3 DEF patchStatus
      <3>6. Working'
        BY <3>4 DEF Working
      <3>7. Settled'
        <4> SUFFICES ASSUME ~queued
                     PROVE  /\ cSvc.exists
                            /\ svc.exists => svc.type = cInst.spec.serviceType
                            /\ endpoint' = cInst.endpoint =>
                                 endpoint' \in ReachableOf(cInst.spec.replicas, cSvc.type, cNode, cPods, cSvc)
          BY <3>4, <3>5 DEF Settled
        <4>1. /\ w.spec = cInst.spec /\ w.orig = cInst.endpoint
              /\ svc.exists => svc.type = cInst.spec.serviceType
          BY <1>8 DEF Working, Observe
        <4>2. cSvc.exists
          BY <1>8 DEF Observe
        <4>3. ASSUME endpoint' = cInst.endpoint PROVE endpoint' = url
          BY <3>4, <4>1, <4>3
        <4> QED BY <3>2, <4>1, <4>2, <4>3
      <3> QED BY <3>6, <3>7
    <2> QED BY <2>1, <2>2
  <1>9. CASE UNCHANGED vars
    BY <1>9 DEF vars, serverVars, cacheVars, Settled, Working
  <1> QED BY <1>2, <1>3, <1>4, <1>5, <1>6, <1>7, <1>8, <1>9
          DEF Next, Environment, Informers, Reconcile

\* The invariant that the two theorems below rest on.
THEOREM Invariance == Spec => []IInv
  <1>1. Init => IInv
    <2>1. Init => Settled /\ Working
      BY DEF Init, Instance, Settled, Working
    <2> QED BY <2>1, InitType DEF IInv
  <1>2. IInv /\ [Next]_vars => IInv'
    BY StepType, StepServed DEF IInv
  <1> QED BY <1>1, <1>2, PTL DEF Spec

\* Whatever the nodes, the slices and the load balancer report, the URL that
\* is published, cached or staged is built from an InternalIP that some node may
\* have, an ingress or the DNS name, and a port of the Service; or it is empty.
THEOREM TypeCorrect == Spec => []TypeOK
  <1>1. IInv => TypeOK
    BY DEF IInv
  <1> QED BY <1>1, Invariance, PTL

\* When the operator has nothing left to do, the published endpoint is one that
\* serves, however nodes, pods, the Service and the spec changed, in whatever order
\* the informers delivered it, and although the node watch drops most updates.
THEOREM RestReachable == Spec => []RestIsReachable
  <1>1. IInv => RestIsReachable
    <2> SUFFICES ASSUME IInv, AtRest PROVE endpoint \in Reachable
      BY DEF RestIsReachable
    <2>1. cInst.exists /\ cInst.spec = spec /\ cInst.endpoint = endpoint
      BY DEF AtRest, Instance
    <2>2. svc.type = spec.serviceType /\ endpoint \in ReachableOf(spec.replicas, svc.type, node, pods, svc)
      BY <2>1 DEF IInv, Settled, AtRest
    <2> QED BY <2>2 DEF Reachable
  <1> QED BY <1>1, Invariance, PTL
=============================================================================
