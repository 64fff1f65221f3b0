----------------------------- MODULE MCEndpoint -----------------------------
(* Two nodes and two pods: a node with two InternalIPs in either order, with *)
(* another pair.                                                             *)
EXTENDS Endpoint

IP(a)    == [type |-> "InternalIP", address |-> a]
Hostname == [type |-> "Hostname", address |-> "name"]

Registered == <<Hostname, IP("a"), IP("b")>>
Lists      == {Registered, <<IP("b"), IP("a")>>, <<IP("c"), Hostname, IP("b")>>}

\* Both pods serve, one on each node.
Spread == {[p \in Pods |-> [node |-> p, ready |-> TRUE]]}

Balancers == {<<>>, <<[ip |-> "", hostname |-> ""], [ip |-> "", hostname |-> "lb"]>>}

ServiceSwitch == {[replicas |-> 2, serviceType |-> "NodePort"],
                  [replicas |-> 2, serviceType |-> "LoadBalancer"]}
=============================================================================
