------------------------------ MODULE Endpoint ------------------------------
(***************************************************************************)
(* status.endpoint: which address the two reconcilers publish, and which   *)
(* changes of nodes, EndpointSlices and the Service make them look again.  *)
(*                                                                         *)
(* A reconcile that ends Ready asks for no requeue, so every change of the *)
(* answer has to be an event.  The module keeps of Reconcile the Service   *)
(* apply, the cached reads after it and the status patch; whether the      *)
(* Deployment is Ready, and so whether the result asks to come back, is    *)
(* left open.  Both reconcilers have the same code.                        *)
(*                                                                         *)
(* Reads of the cache succeed here: the errors of List and Get that        *)
(* resolveEndpoint and nodeInternalIP answer with no address, and the      *)
(* node event that mapNodeToInstances drops when its List fails, are left  *)
(* out.  InstanceReconciler has them for the one address it knows          *)
(* (EndpointReadFails) and for presets (PresetEventLost).                  *)
(*                                                                         *)
(* A definition named Mut... is a faulty variant of the one that follows   *)
(* it; nothing uses it.                                                    *)
(***************************************************************************)
EXTENDS Naturals, Sequences, FiniteSets, FiniteSetsExt, Functions

CONSTANTS
    NodeCount,      \* nodes 1..NodeCount; the numbers stand for names in their order
    AddressLists,   \* what status.addresses of a node may be
    InitialList,    \* ... and is when the nodes have just registered
    Conditions,     \* what the Ready condition of a node may be
    PodCount,       \* endpoints listed by the slices of the Service
    Placements,     \* where the pods may be when the instance is created
    Ingresses,      \* what status.loadBalancer.ingress may be
    Ports,          \* node ports the API server may allocate
    Specs,          \* the specs users submit
    MaxChanges      \* how many changes the environment makes

Nodes        == 1..NodeCount
Pods         == 1..PodCount
AddressTypes == {"InternalIP", "Hostname"}
ServiceTypes == {"NodePort", "ClusterIP", "LoadBalancer"}
HTTPPort     == 8000

Address   == [type : AddressTypes, address : STRING \ {""}]
SpecType  == [replicas : Nat, serviceType : ServiceTypes]
NoNode    == [exists |-> FALSE, addresses |-> <<>>, ready |-> "Unknown"]
NodeType  == {NoNode} \cup [exists : {TRUE}, addresses : AddressLists, ready : Conditions]
PodType   == [node : Nodes \cup {0}, ready : BOOLEAN]       \* 0: nodeName is nil
SvcType   == [exists : BOOLEAN, type : ServiceTypes, port : Ports \cup {0}, ingress : Ingresses]

ASSUME CountsAssumption  == NodeCount \in Nat /\ PodCount \in Nat /\ MaxChanges \in Nat
ASSUME PlacementsAssumption == Placements \subseteq [Pods -> PodType]
ASSUME PortsAssumption   == Ports \subseteq Nat \ {0} /\ Ports # {}
ASSUME ListsAssumption   == /\ \A l \in AddressLists : l \in Seq(Address)
                            /\ \A l \in Ingresses : l \in Seq([ip : STRING, hostname : STRING])
                            /\ InitialList \in AddressLists /\ <<>> \in Ingresses
ASSUME ConditionsAssumption == "True" \in Conditions
ASSUME SpecsAssumption   == Specs \subseteq SpecType

\* Everything a published URL may name; NoURL is the empty string.
Hosts == (UNION {{l[i].address : i \in {j \in DOMAIN l : l[j].type = "InternalIP"}} : l \in AddressLists})
         \cup (UNION {{l[i].ip : i \in DOMAIN l} \cup {l[i].hostname : i \in DOMAIN l} : l \in Ingresses})
         \cup {"dns"}
URLs  == [host : Hosts, port : Ports \cup {0, HTTPPort}]
NoURL == [host |-> "", port |-> 0]

VARIABLES
    spec, endpoint,                  \* the CR: its spec, and status.endpoint
    node, pods, svc,                 \* nodes, the endpoints of the slices, the Service
    cInst, cNode, cPods, cSvc,       \* the informer caches
    queued,                          \* the key waits in the workqueue, or for its delayed add
    pc, w,                           \* the reconcile under way
    changes                          \* changes of the environment left

serverVars == <<spec, endpoint, node, pods, svc>>
cacheVars  == <<cInst, cNode, cPods, cSvc>>
vars       == <<serverVars, cacheVars, queued, pc, w, changes>>

Instance == [exists |-> TRUE, spec |-> spec, endpoint |-> endpoint]
InstType == [exists : BOOLEAN, spec : SpecType, endpoint : URLs \cup {NoURL}]

NoSvc  == [exists |-> FALSE, type |-> "ClusterIP", port |-> 0, ingress |-> <<>>]
NoWork == [spec |-> [replicas |-> 0, serviceType |-> "ClusterIP"], orig |-> NoURL]

\* What is published, cached or staged is a URL that the cluster can give.
TypeOK ==
    /\ spec \in SpecType
    /\ endpoint \in URLs \cup {NoURL}
    /\ node \in [Nodes -> NodeType] /\ cNode \in [Nodes -> NodeType]
    /\ pods \in [Pods -> PodType] /\ cPods \in [Pods -> PodType]
    /\ svc \in SvcType /\ cSvc \in SvcType
    /\ cInst \in InstType
    /\ queued \in BOOLEAN
    /\ pc \in {"idle", "applied"}
    /\ w \in [spec : SpecType, orig : URLs \cup {NoURL}]
    /\ changes \in 0..MaxChanges

Init ==
    /\ spec \in Specs
    /\ endpoint = NoURL
    /\ node \in [Nodes -> [exists : {TRUE}, addresses : {InitialList}, ready : {"True"}]]
    /\ pods \in Placements
    /\ svc = NoSvc
    /\ cInst = [Instance EXCEPT !.exists = FALSE]
    /\ cNode = node
    /\ cPods = pods
    /\ cSvc = svc
    /\ queued = FALSE
    /\ pc = "idle"
    /\ w = NoWork
    /\ changes = MaxChanges

-----------------------------------------------------------------------------
(* The environment. *)

Change == changes > 0 /\ changes' = changes - 1

EditSpec ==
    /\ Change
    /\ spec' \in Specs \ {spec}
    /\ UNCHANGED <<endpoint, node, pods, svc, cacheVars, queued, pc, w>>

\* A node joins, leaves, changes its addresses or its readiness.
ChangeNode ==
    /\ Change
    /\ \E n \in Nodes, nd \in NodeType : nd # node[n] /\ node' = [node EXCEPT ![n] = nd]
    /\ UNCHANGED <<spec, endpoint, pods, svc, cacheVars, queued, pc, w>>

\* A pod moves, or changes its readiness.
ChangePod ==
    /\ Change
    /\ \E p \in Pods, ep \in PodType : ep # pods[p] /\ pods' = [pods EXCEPT ![p] = ep]
    /\ UNCHANGED <<spec, endpoint, node, svc, cacheVars, queued, pc, w>>

\* The load balancer gets, changes or loses its address; kubectl delete service.
ChangeService ==
    /\ Change
    /\ svc.exists
    /\ \/ svc.type = "LoadBalancer" /\ \E l \in Ingresses \ {svc.ingress} : svc' = [svc EXCEPT !.ingress = l]
       \/ svc' = NoSvc
    /\ UNCHANGED <<spec, endpoint, node, pods, cacheVars, queued, pc, w>>

Environment == EditSpec \/ ChangeNode \/ ChangePod \/ ChangeService

-----------------------------------------------------------------------------
(* The node watch. *)

\* The places of the addresses of type InternalIP.
internalIPs(nd) == {i \in DOMAIN nd.addresses : nd.addresses[i].type = "InternalIP"}

\* Equal as multisets.
MutSameLength(old, new) == Cardinality(internalIPs(old)) = Cardinality(internalIPs(new))
sameInternalIPs(old, new) ==
    LET seen(nd, ip) == Cardinality({i \in internalIPs(nd) : nd.addresses[i].address = ip})
    IN /\ Cardinality(internalIPs(old)) = Cardinality(internalIPs(new))
       /\ \A i \in internalIPs(new) :
             seen(new, new.addresses[i].address) <= seen(old, new.addresses[i].address)

nodeReadyStatus(nd) == nd.ready

nodeRelevantUpdate(old, new) ==
    ~sameInternalIPs(old, new) \/ nodeReadyStatus(old) # nodeReadyStatus(new)

\* Creations and deletions pass, updates if they are relevant.
nodeWatchPredicate(old, new) == (old.exists /\ new.exists) => nodeRelevantUpdate(old, new)

\* Every cached instance.
mapNodeToInstances == cInst.exists      \* the List succeeds

SyncNode(n) ==
    /\ cNode[n] # node[n]
    /\ cNode' = [cNode EXCEPT ![n] = node[n]]
    /\ queued' = (queued \/ (nodeWatchPredicate(cNode[n], node[n]) /\ mapNodeToInstances))
    /\ UNCHANGED <<serverVars, cInst, cPods, cSvc, pc, w, changes>>

-----------------------------------------------------------------------------
(* The other watches. *)

SyncInstance ==
    /\ cInst # Instance
    /\ cInst' = Instance
    /\ queued' = TRUE
    /\ UNCHANGED <<serverVars, cNode, cPods, cSvc, pc, w, changes>>

SyncService ==
    /\ cSvc # svc
    /\ cSvc' = svc
    /\ queued' = TRUE
    /\ UNCHANGED <<serverVars, cInst, cNode, cPods, pc, w, changes>>

\* mapEndpointSliceToInstance: svc-<instance> names the instance.
SyncSlices ==
    /\ cPods # pods
    /\ cPods' = pods
    /\ queued' = TRUE
    /\ UNCHANGED <<serverVars, cInst, cNode, cSvc, pc, w, changes>>

-----------------------------------------------------------------------------
(* The choice of the endpoint. *)

endpointURL(host, port) == [host |-> host, port |-> port]

\* The nodes of the Ready endpoints; eps is in no particular order.
Listed(eps) == {i \in DOMAIN eps : eps[i].node # 0 /\ eps[i].ready}
readyNodeNames(eps) == {eps[i].node : i \in Listed(eps)}

\* The one that is tried first: they are sorted.
MutUnsorted(eps, names) == eps[Min({i \in Listed(eps) : eps[i].node \in names})].node
FirstNode(eps, names) == Min(names)

\* The first InternalIP of a node that the cache knows.
MutFirstAddress(nd) == IF nd.exists /\ nd.addresses # <<>> THEN nd.addresses[1].address ELSE ""
nodeInternalIP(nd) ==
    IF nd.exists /\ internalIPs(nd) # {} THEN nd.addresses[Min(internalIPs(nd))].address ELSE ""

\* The first ready node with an address, by name; both reads succeed.
resolveEndpoint(eps, port) ==
    LET names == {n \in readyNodeNames(eps) : nodeInternalIP(cNode[n]) # ""}
    IN IF names = {} THEN NoURL ELSE endpointURL(nodeInternalIP(cNode[FirstNode(eps, names)]), port)

clusterDNS == endpointURL("dns", HTTPPort)

\* The first ingress entry with an IP or a hostname; the DNS name until there is one.
loadBalancerURL(ingress) ==
    LET given == {i \in DOMAIN ingress : ingress[i].ip # "" \/ ingress[i].hostname # ""}
        first == ingress[Min(given)]
    IN IF given = {} THEN clusterDNS
       ELSE endpointURL(IF first.ip # "" THEN first.ip ELSE first.hostname, HTTPPort)

resolveServiceEndpoint(s, nodePortFallback) ==
    CASE s.type = "LoadBalancer" -> loadBalancerURL(s.ingress)
      [] s.type = "NodePort"     -> nodePortFallback
      [] OTHER                   -> clusterDNS

-----------------------------------------------------------------------------
(* Reconcile: up to the Service apply, and from the reads after it to the   *)
(* status patch.  Between the calls that each step joins only the worker    *)
(* touches what they read and write, so nothing is lost by joining them.    *)

\* A Service that becomes a NodePort gets a port; other types carry none.
Apply ==
    /\ pc = "idle"
    /\ queued
    /\ cInst.exists
    /\ queued' = FALSE
    /\ pc' = "applied"
    /\ w' = [spec |-> cInst.spec, orig |-> cInst.endpoint]
    /\ LET type == cInst.spec.serviceType
       IN \E port \in Ports :
             svc' = [exists  |-> TRUE,
                     type    |-> type,
                     port    |-> IF type # "NodePort" THEN 0
                                 ELSE IF svc.type = "NodePort" THEN svc.port ELSE port,
                     ingress |-> IF type = "LoadBalancer" THEN svc.ingress ELSE <<>>]
    /\ UNCHANGED <<spec, endpoint, node, pods, cacheVars, changes>>

\* The patch carries the endpoint only if it differs from the cached one.
patchStatus(staged, requeue) ==
    /\ endpoint' = IF staged # w.orig THEN staged ELSE endpoint
    /\ queued' = (queued \/ requeue)
    /\ pc' = "idle"
    /\ w' = NoWork
    /\ UNCHANGED <<spec, node, pods, svc, cacheVars, changes>>

\* The Service or the Deployment just applied is not in the cache yet.
ObserveNothing ==
    /\ pc = "applied"
    /\ patchStatus(w.orig, TRUE)

\* The list of endpoints comes in any order, and the Deployment is Ready or not.
Orders == {f \in [Pods -> Pods] : IsInjective(f)}

Observe ==
    /\ pc = "applied"
    /\ cSvc.exists
    /\ IF w.spec.replicas = 0
       THEN patchStatus(NoURL, TRUE)
       ELSE \E order \in Orders, ready \in BOOLEAN :
               patchStatus(resolveServiceEndpoint(cSvc, resolveEndpoint([i \in Pods |-> cPods[order[i]]], cSvc.port)),
                           ~ready)

Reconcile == Apply \/ ObserveNothing \/ Observe

Informers == (\E n \in Nodes : SyncNode(n)) \/ SyncInstance \/ SyncService \/ SyncSlices

Next == Environment \/ Informers \/ Reconcile

\* Informers deliver, and workers take keys and go on.  A Service that was applied
\* reaches the cache, so ObserveNothing is not what a reconcile sees for ever.
Fairness ==
    /\ \A n \in Nodes : WF_vars(SyncNode(n))
    /\ WF_vars(SyncInstance) /\ WF_vars(SyncService) /\ WF_vars(SyncSlices)
    /\ WF_vars(Reconcile)
    /\ SF_vars(Observe)

Spec == Init /\ [][Next]_vars /\ Fairness

-----------------------------------------------------------------------------
(* Properties. *)

\* What clients can reach: an InternalIP of a node that hosts a Ready pod, with
\* the node port; the load balancer's address; the DNS name.  Stated over the
\* server's objects, without the code's way to choose.
AddressesOf(nd) == {nd.addresses[i].address : i \in internalIPs(nd)}
Serving(nds, eps) == {n \in Nodes : /\ nds[n].exists /\ internalIPs(nds[n]) # {}
                                    /\ \E p \in Pods : eps[p].ready /\ eps[p].node = n}
Balancer(s) == (UNION {{s.ingress[i].ip, s.ingress[i].hostname} : i \in DOMAIN s.ingress}) \ {""}

ReachableOf(replicas, type, nds, eps, s) ==
    IF replicas = 0 THEN {NoURL}
    ELSE IF type = "NodePort" THEN
             IF Serving(nds, eps) = {} THEN {NoURL}
             ELSE {endpointURL(ip, s.port) : ip \in UNION {AddressesOf(nds[n]) : n \in Serving(nds, eps)}}
    ELSE IF type = "LoadBalancer" /\ Balancer(s) # {} THEN {endpointURL(h, HTTPPort) : h \in Balancer(s)}
    ELSE {clusterDNS}

Reachable == ReachableOf(spec.replicas, spec.serviceType, node, pods, svc)

\* Nothing is left to do: the informers have delivered, no key waits, no worker runs.
AtRest ==
    /\ cInst = Instance /\ cNode = node /\ cPods = pods /\ cSvc = svc
    /\ ~queued /\ pc = "idle"

\* When the operator has nothing left to do, the published endpoint is one that
\* serves: no event that takes it away is filtered out by the node predicate, and
\* no stale cache or unsent diff keeps an old one.
RestIsReachable == AtRest => endpoint \in Reachable

\* The published endpoint ends up as one that serves, whatever order nodes,
\* slices, the Service and the spec changed in and the caches learned of it:
\* the node predicate drops no change that takes the published address away.
EventuallyReachable == <>[](endpoint \in Reachable)

\* "Ready endpoints are sorted by NodeName so multi-replica deployments produce
\* a stable URL across reconciles": once nothing changes, neither does it.
EndpointSettles == <>[][endpoint' = endpoint]_vars
=============================================================================
