------------------------------ MODULE Rendering ------------------------------
(***************************************************************************)
(* The pure end of a pass: the flow topologies of all Flows, Merge, and    *)
(* what GetResources renders of the merged topology, as functions of the   *)
(* listing L of one namespace.  A listing has an order, which informers    *)
(* leave open, and so has all that is made of it:                          *)
(*   services, flows, routes - the lists, as sequences;                    *)
(*   source - the image of the Deployment GetDeploymentFromName finds for  *)
(*     each service, or None.                                              *)
(***************************************************************************)
EXTENDS Isolation, SequencesExt

CONSTANTS
  Services,     \* names of the users' Services
  Edges,        \* <<service, service it depends on>>
  Stateful,     \* services annotated as stateful
  HTTP,         \* services whose first port is HTTP
  Portless,     \* services without a port
  Label,        \* the version label of a service
  Flows,        \* names of Flows; an image is named after its Flow
  Target,       \* the service a Flow names
  Routes,       \* HTTPRoutes annotated for Kardinal
  Host,         \* the host name of a route, label by label
  Backends,     \* the backends a route refers to, rule by rule
  Paths,        \* the backends of the Kardinal ingress' rule, path by path
  Baseline,     \* the flow ID of the users' own traffic
  Own,          \* the image of the users' own Deployments
  None,         \* no Deployment
  Joined(_, _)  \* "service-version", which may name two pairs

Hosts == UNION {ToSet(Host[r]) : r \in Routes}

ASSUME GraphAssumption == IsFiniteSet(Services) /\ Edges \subseteq Services \X Services
ASSUME FlowAssumption ==
  /\ IsFiniteSet(Flows) /\ Target \in [Flows -> Services]
  /\ Own \notin Flows /\ None \notin Flows \cup {Own}
ASSUME RouteAssumption ==
  /\ IsFiniteSet(Routes) /\ Host \in [Routes -> Seq(Hosts)]
  /\ Backends \in [Routes -> Seq(Services)] /\ Paths \in Seq(Services)
(* A version of a service has a longer name than the service, and the      *)
(* names of one service tell its versions apart.                           *)
ASSUME NameAssumption ==
  \A i \in Services :
    \A v, w \in Flows \cup {Baseline, Label[i]} :
      Joined(i, v) # i /\ (Joined(i, v) = Joined(i, w) => v = w)

-----------------------------------------------------------------------------
Present(L) == ToSet(L.services)

IsolatedOf ==
  [f \in Flows |->
     [order \in {s \in SetToAllKPermutations(Services) : Target[f] \in ToSet(s)} |->
        Isolated(order, Edges, Stateful, HTTP, [i \in Services |-> i], Target[f])]]

(* The flow topologies: which services each Flow isolates.  Inside one     *)
(* namespace the name tells every two services' hashes apart.              *)
Derived(listing) ==
  [services |-> listing.services, flows |-> listing.flows, routes |-> listing.routes,
   source |-> listing.source,
   isolated |-> [f \in {g \in ToSet(listing.flows) : Target[g] \in ToSet(listing.services)} |->
                   IsolatedOf[f][listing.services]]]

(* Merge appends the services of each flow topology to the base ones and   *)
(* keeps the first of each (id, namespace, version): a Flow named like the *)
(* label of a service has no version of it.                                *)
(* Mutation: it keeps the first of each (id, namespace). *)
VersionsById(L, i) == {Label[i]}
Versions(L, i) == {Label[i]} \cup {f \in ToSet(L.flows) : i \in L.isolated[f]}

(* The baseline's turn comes first.                                        *)
ActiveFlowIDs(L) == {Baseline} \cup ToSet(L.flows)
Turn(L, f) == IF f = Baseline THEN 0 ELSE CHOOSE a \in DOMAIN L.flows : L.flows[a] = f

(* GetServiceByVersion, and GetBaselineFlowService when it finds none.     *)
(* Mutation: the first flow's version will do. *)
AnyVersion(L, i, f) == CHOOSE v \in Versions(L, i) : TRUE
VersionFor(L, i, f) == IF f \in Versions(L, i) THEN f ELSE Label[i]

-----------------------------------------------------------------------------
(* The Deployments of the managed services of the merged topology; at is   *)
(* their place in the plan, flow by flow.  The target's gets the image of  *)
(* the Flow, the others that of the Deployment found for the service.      *)
(* Mutation: the image is set on the Deployment that was copied. *)
ImageOfSource(L, i, f) == L.source[i]
Image(L, i, f) == IF i = Target[f] THEN f ELSE L.source[i]

Deployment(L, a, p) ==
  LET i == L.services[p]  f == L.flows[a] IN
  [at |-> <<a, p>>, name |-> Joined(i, f), app |-> i, version |-> f, image |-> Image(L, i, f)]
Deployments(L) ==
  UNION {{Deployment(L, a, p) :
            p \in {q \in DOMAIN L.services : /\ L.services[q] \in L.isolated[L.flows[a]]
                                            /\ L.flows[a] # Label[L.services[q]]}} :
           a \in DOMAIN L.flows}

(* A route per version leads to the subset of that name: in HTTP for what  *)
(* carries the header x-kardinal-destination of that service and version,  *)
(* in TCP for what comes from a pod of that version.                       *)
Route(i, v) == [match |-> IF i \in HTTP THEN Joined(i, v) ELSE v, subset |-> v]
VirtualServices(L)  == [i \in Present(L) |-> {Route(i, v) : v \in Versions(L, i)}]
DestinationRules(L) == [i \in Present(L) |-> Versions(L, i)]

-----------------------------------------------------------------------------
(* The backends that getHttpRoutes and GetNetIngresses find, in lists of   *)
(* names, for each active flow: at is the turn of the flow, the list and   *)
(* the place in it, name that of the front Service.                        *)
Lexical(p, q) ==
  \E n \in DOMAIN p : p[n] < q[n] /\ \A m \in 1 .. n - 1 : p[m] = q[m]
(* Mutation: the name has the version that is found, not the flow. *)
ReferencesByVersion(L, lists) ==
  UNION {{[at |-> <<Turn(L, f), k, j>>, app |-> lists[k][j], flow |-> f,
           name |-> Joined(lists[k][j], VersionFor(L, lists[k][j], f))] :
            j \in {m \in DOMAIN lists[k] : lists[k][m] \in Present(L)}} :
           f \in ActiveFlowIDs(L), k \in DOMAIN lists}
References(L, lists) ==
  UNION {{[at |-> <<Turn(L, f), k, j>>, app |-> lists[k][j], flow |-> f,
           name |-> Joined(lists[k][j], f)] :
            j \in {m \in DOMAIN lists[k] : lists[k][m] \in Present(L)}} :
           f \in ActiveFlowIDs(L), k \in DOMAIN lists}

(* A front Service is added at the first reference that gives it its name. *)
(* Mutation: once for all flows. *)
AddedOnce(references) ==
  {p \in references : \A q \in references : q.app = p.app => ~Lexical(q.at, p.at)}
Added(references) ==
  {p \in references : \A q \in references : q.name = p.name => ~Lexical(q.at, p.at)}

Fronts(L, added) ==
  [n \in {p.name : p \in added} |->
     LET p == CHOOSE q \in added : q.name = n
     IN  [app |-> p.app, version |-> VersionFor(L, p.app, p.flow)]]

(* The first Service of a name is kept.                                    *)
Over(f, g) == [n \in DOMAIN f \cup DOMAIN g |-> IF n \in DOMAIN f THEN f[n] ELSE g[n]]

RouteLists(L) == [k \in DOMAIN L.routes |-> Backends[L.routes[k]]]
FrontServices(L) ==
  Over(Fronts(L, Added(References(L, RouteLists(L)))),
       Fronts(L, Added(References(L, <<Paths>>))))

(* replaceOrAddSubdomain: a name of two labels gets one more, of a longer  *)
(* one the first is replaced, and a single label is left as it is.         *)
(* Mutation: what is kept are the last two. *)
HostnameOfLastTwo(h, f) ==
  IF Len(h) < 2 THEN h ELSE <<f>> \o SubSeq(h, Len(h) - 1, Len(h))
Hostname(h, f) ==
  IF Len(h) < 2 THEN h ELSE <<f>> \o (IF Len(h) = 2 THEN h ELSE Tail(h))

(* "http-route-%d-%s" of the index and the flow.  A reference is rewritten *)
(* where its front Service is added.                                       *)
(* Mutation: the index of the first is one. *)
HTTPRoute(L, added, k, f) ==
  LET backends == Backends[L.routes[k]] IN
  [host     |-> Hostname(Host[L.routes[k]], f),
   backends |-> [j \in DOMAIN backends |->
                   LET here == {p.name : p \in {q \in added : q.flow = f /\ Tail(q.at) = <<k, j>>}}
                   IN  IF here = {} THEN backends[j] ELSE CHOOSE n \in here : TRUE]]
HTTPRoutesFromOne(L) ==
  LET added == Added(References(L, RouteLists(L))) IN
  [x \in (1 .. Len(L.routes)) \X ActiveFlowIDs(L) |-> HTTPRoute(L, added, x[1], x[2])]
HTTPRoutes(L) ==
  LET added == Added(References(L, RouteLists(L))) IN
  [x \in (0 .. Len(L.routes) - 1) \X ActiveFlowIDs(L) |->
     HTTPRoute(L, added, x[1] + 1, x[2])]

-----------------------------------------------------------------------------
(* How planning ends.  An error: a dependency that is not there, no        *)
(* service at all, or a Flow that names none.  A panic: a Flow whose       *)
(* service has no Deployment; of what is rendered, a managed service       *)
(* without a DeploymentSpec or a service without a port.                   *)
Unresolved(L) == \E e \in Edges : e[1] \in Present(L) /\ e[2] \notin Present(L)
Unknown(L)    == {a \in DOMAIN L.flows : Target[L.flows[a]] \notin Present(L)}
Undeployed(L) == {a \in DOMAIN L.flows \ Unknown(L) : L.source[Target[L.flows[a]]] = None}
Unrenderable(L) ==
  \/ \E d \in Deployments(L) : d.image = None
  \/ Present(L) \cap Portless # {}

(* Mutation: a Deployment is asked of every service. *)
VerdictOnAll(L) ==
  CASE Unresolved(L) \/ L.services = <<>> -> "error"
    [] \E a \in Unknown(L) : \A b \in Undeployed(L) : a < b -> "error"
    [] Undeployed(L) # {} \/ \E i \in Present(L) : L.source[i] = None -> "panic"
    [] OTHER -> IF Unrenderable(L) THEN "panic" ELSE "ok"
Verdict(L) ==
  CASE Unresolved(L) \/ L.services = <<>> -> "error"
    [] \E a \in Unknown(L) : \A b \in Undeployed(L) : a < b -> "error"
    [] Undeployed(L) # {} -> "panic"
    [] OTHER -> IF Unrenderable(L) THEN "panic" ELSE "ok"
=============================================================================
