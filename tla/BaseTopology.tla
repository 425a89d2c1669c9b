---------------------------- MODULE BaseTopology ----------------------------
(***************************************************************************)
(* NewClusterTopologyFromResources: the base topology is accumulated       *)
(* namespace by namespace, in the arbitrary order of the listing, from the *)
(* Services users have installed, the dependencies annotated on them and   *)
(* the Ingresses, Gateways and HTTPRoutes annotated for Kardinal.  Then    *)
(* GetResources sorts what it renders by the namespaces of the services.   *)
(***************************************************************************)
EXTENDS Naturals, FiniteSets

CONSTANTS
  Namespaces, \* the namespaces that were listed
  Names,      \* names of Services
  Ports,      \* names of their ports
  Entries,    \* names of Ingresses, Gateways and HTTPRoutes
  Clusters,   \* what a listing may hold
  None        \* a nil pointer

(* One "service:port" of the annotation kardinal.dev.service/dependencies; *)
(* "whole" is false when it has no colon.                                  *)
Need    == [name : Names, port : Ports, whole : BOOLEAN]
Service == [name : Names, managed : BOOLEAN, ports : SUBSET Ports, needs : SUBSET Need]
Entry   == [name : Entries, marked : BOOLEAN]
Listing == [services : SUBSET Service, ingresses : SUBSET Entry,
            gateways : SUBSET Entry, routes : SUBSET Entry]

ASSUME ClustersAssumption == Clusters \subseteq [Namespaces -> Listing]
ASSUME NoneAssumption     == None \notin Namespaces

VARIABLES
  cluster,      \* input: what was listed of each namespace
  todo,         \* namespaces the loop has not come to
  services,     \* clusterTopologyServices, as <<namespace, name>>
  dependencies, \* clusterTopologyServiceDependencies
  ingressOf,    \* the namespace clusterTopologyIngress was made from
  gatewaysOf,   \* the namespace clusterTopologyGatewayAndRoutes was made from
  outcome

vars == <<cluster, todo, services, dependencies, ingressOf, gatewaysOf, outcome>>

Init ==
  /\ cluster \in Clusters
  /\ todo = Namespaces
  /\ services = {} /\ dependencies = {}
  /\ ingressOf = None /\ gatewaysOf = None
  /\ outcome = "building"

-----------------------------------------------------------------------------
(* processServices leaves out what the operator manages.                   *)
Users(n) == {s \in cluster[n].services : ~s.managed}

(* getServiceAndPortFromClusterTopologyServices: among the same namespace's*)
(* services, wherever they are in the list.                                *)
Provides(n, need) == \E d \in Users(n) : d.name = need.name /\ need.port \in d.ports

(* Parts[1] of an entry without a colon is out of range.                   *)
Malformed(n)  == \E s \in Users(n) : \E need \in s.needs : ~need.whole
Unresolved(n) == \E s \in Users(n) : \E need \in s.needs : need.whole /\ ~Provides(n, need)

(* Mutation: the namespace is forgotten. *)
ServicesUnqualified(n) == {s.name : s \in Users(n)}
ServicesOf(n) == {<<n, s.name>> : s \in Users(n)}
DependenciesOf(n) ==
  UNION {{<<<<n, s.name>>, <<n, need.name>>, need.port>> : need \in s.needs} : s \in Users(n)}

(* processIngresses and processGatewayAndRouteConfigs keep the annotated.  *)
HasIngress(n) == \E i \in cluster[n].ingresses : i.marked
HasRoutes(n)  == \E g \in cluster[n].gateways \cup cluster[n].routes : g.marked

Fails(result) ==
  /\ outcome' = result
  /\ UNCHANGED <<cluster, todo, services, dependencies, ingressOf, gatewaysOf>>

(* Which of several bad entries comes first depends on the order of the    *)
(* listing.  Mutation: the error is not looked at, a nil service is used. *)
RejectServicesUnchecked(n) ==
  /\ outcome = "building" /\ n \in todo
  /\ Malformed(n) \/ Unresolved(n)
  /\ Fails("panic")
RejectServices(n) ==
  /\ outcome = "building" /\ n \in todo
  /\ \/ Malformed(n) /\ Fails("panic")
     \/ Unresolved(n) /\ Fails("error")

RejectSecondIngress(n) ==
  /\ outcome = "building" /\ n \in todo
  /\ ~Malformed(n) /\ ~Unresolved(n)
  /\ HasIngress(n) /\ ingressOf # None
  /\ Fails("error")

(* The services are appended; gateways and routes are assigned, so that    *)
(* those of the namespace before are dropped.                              *)
(* Mutation: the services are assigned, too. *)
AddNamespaceAlone(n) ==
  /\ outcome = "building" /\ n \in todo
  /\ ~Malformed(n) /\ ~Unresolved(n)
  /\ HasIngress(n) => ingressOf = None
  /\ todo' = todo \ {n}
  /\ services' = ServicesOf(n)
  /\ dependencies' = dependencies \cup DependenciesOf(n)
  /\ ingressOf' = IF HasIngress(n) THEN n ELSE ingressOf
  /\ gatewaysOf' = n
  /\ UNCHANGED <<cluster, outcome>>
AddNamespace(n) ==
  /\ outcome = "building" /\ n \in todo
  /\ ~Malformed(n) /\ ~Unresolved(n)
  /\ HasIngress(n) => ingressOf = None
  /\ todo' = todo \ {n}
  /\ services' = services \cup ServicesOf(n)
  /\ dependencies' = dependencies \cup DependenciesOf(n)
  /\ ingressOf' = IF HasIngress(n) THEN n ELSE ingressOf
  /\ gatewaysOf' = n
  /\ UNCHANGED <<cluster, outcome>>

(* The validations after the loop.  A nil clusterTopologyIngress is        *)
(* dereferenced; one that is not nil has Ingresses, so the error "At least *)
(* one ingress or gateway is required" cannot be reached.                  *)
(* Mutation: the services are not looked at. *)
VerdictOnIngress == IF ingressOf = None THEN "panic" ELSE "built"
Verdict ==
  CASE ingressOf = None -> "panic"
    [] ingressOf # None /\ services = {} -> "error"
    [] OTHER -> "built"
Validate ==
  /\ outcome = "building" /\ todo = {}
  /\ outcome' = Verdict
  /\ UNCHANGED <<cluster, todo, services, dependencies, ingressOf, gatewaysOf>>

(* GetResources makes an entry for each namespace that has a service and   *)
(* appends to the entry of each route's, ingress' and gateway's: there is  *)
(* none, a nil pointer, where no service is.                               *)
(* Mutation: the entry is asked for whether there are routes or not. *)
SettledNamespaces == {s[1] : s \in services}
StrandedLast == {ingressOf, gatewaysOf} \ SettledNamespaces
Stranded ==
  ({ingressOf} \cup {n \in {gatewaysOf} : HasRoutes(n)}) \ SettledNamespaces
Place ==
  /\ outcome = "built"
  /\ outcome' = IF Stranded = {} THEN "placed" ELSE "stranded"
  /\ UNCHANGED <<cluster, todo, services, dependencies, ingressOf, gatewaysOf>>

Next ==
  \/ \E n \in Namespaces : AddNamespace(n) \/ RejectServices(n) \/ RejectSecondIngress(n)
  \/ Validate
  \/ Place
Spec == Init /\ [][Next]_vars

-----------------------------------------------------------------------------
TypeOK ==
  /\ cluster \in Clusters
  /\ todo \subseteq Namespaces
  /\ services \subseteq Namespaces \X Names
  /\ dependencies \subseteq (Namespaces \X Names) \X (Namespaces \X Names) \X Ports
  /\ ingressOf \in Namespaces \cup {None}
  /\ gatewaysOf \in Namespaces \cup {None}
  /\ outcome \in {"building", "built", "error", "panic", "placed", "stranded"}
Built == outcome \in {"built", "placed", "stranded"}

(* What a base topology needs: dependencies that resolve inside their own  *)
(* namespace, a Kardinal ingress in exactly one, and a service.            *)
Sound ==
  /\ \A n \in Namespaces : ~Malformed(n) /\ ~Unresolved(n)
  /\ \E n \in Namespaces : HasIngress(n)
  /\ \A n, m \in Namespaces : HasIngress(n) /\ HasIngress(m) => n = m
  /\ \E n \in Namespaces : Users(n) # {}

(* Whether a topology is built is decided by the cluster and not by the    *)
(* order in which its namespaces happen to be listed: an order in which a  *)
(* bad namespace slips through would let one pass in two tear down what    *)
(* the other set up (topology.go 652-675).                                 *)
AcceptedIffSound ==
  outcome # "building" => (Built <=> Sound)

(* The topology that is built holds the users' services of every namespace *)
(* and all their dependencies, none of them dangling, none to an object of *)
(* the operator, and none across namespaces (topology.go 652-660).         *)
BuiltCompletely ==
  Built =>
    /\ services = UNION {ServicesOf(n) : n \in Namespaces}
    /\ dependencies = UNION {DependenciesOf(n) : n \in Namespaces}
    /\ \A d \in dependencies : d[1] \in services /\ d[2] \in services /\ d[1][1] = d[2][1]
    /\ HasIngress(ingressOf)

(* A panic puts the key back and is met again for ever, so the causes of   *)
(* one while the topology is built are the users' business: a dependency   *)
(* entry without a port, or no Kardinal ingress at all, gateways or not    *)
(* (topology.go 670, 724).                                                 *)
PanicCauses ==
  outcome = "panic" =>
    \/ \E n \in Namespaces : Malformed(n)
    \/ \A n \in Namespaces : ~HasIngress(n)

(* The rendering does not panic when every namespace with anything that is *)
(* annotated has a service, and always does when the one with the ingress  *)
(* has none.  In between, with only gateways or routes in a namespace      *)
(* without services, the order decides (topology.go 216-247, 657).         *)
Annotated(n) == HasIngress(n) \/ HasRoutes(n)
StrandedCauses ==
  /\ outcome = "stranded" => \E n \in Namespaces : Annotated(n) /\ Users(n) = {}
  /\ outcome = "placed"   => \A n \in Namespaces : HasIngress(n) => Users(n) # {}

(* README 13 says the base topology is generated from the gateways, too:   *)
(* those of every namespace.  Line 657 keeps the last namespace's only.    *)
GatewaysKept ==
  Built =>
    \A n \in Namespaces :
      (\E g \in cluster[n].gateways : g.marked) => gatewaysOf = n

-----------------------------------------------------------------------------
(* The inductive invariant: what the loop has made of the namespaces it    *)
(* has come to, and why it stopped.                                        *)
Handled == Namespaces \ todo
LoopInvariant ==
  /\ services = UNION {ServicesOf(n) : n \in Handled}
  /\ dependencies = UNION {DependenciesOf(n) : n \in Handled}
  /\ \A n \in Handled : ~Malformed(n) /\ ~Unresolved(n)
  /\ ingressOf # None => ingressOf \in Handled /\ HasIngress(ingressOf)
  /\ \A n \in Handled : HasIngress(n) => n = ingressOf
  /\ gatewaysOf # None => gatewaysOf \in Handled
  /\ Handled # {} => gatewaysOf # None
Stopped ==
  /\ Built => todo = {} /\ ingressOf # None /\ services # {}
  /\ outcome \in {"error", "panic"} => ~Sound
IInv == TypeOK /\ LoopInvariant /\ Stopped /\ PanicCauses /\ StrandedCauses
=============================================================================
