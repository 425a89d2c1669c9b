------------------------------- MODULE Passes -------------------------------
(***************************************************************************)
(* Whole passes over one namespace, one after the other, with the plan     *)
(* they really make.  A pass lists what the users and earlier passes left, *)
(* in any order; Operator shows that an undisturbed pass then replaces     *)
(* what the operator manages by its plan, so that is one step here.        *)
(***************************************************************************)
EXTENDS Rendering

CONSTANTS
  Installed,  \* Services that are there at first
  Volatile,   \* Services users may add and remove
  Withdrawn,  \* Services whose Deployment they may remove
  MaxChanges  \* bound: how often they do

ASSUME UsersAssumption ==
  /\ Installed \cup Volatile \cup Withdrawn \subseteq Services
  /\ MaxChanges \in Nat

VARIABLES
  flows,       \* the Flows that exist
  services,    \* the users' Services
  own,         \* those that have the users' Deployment
  deployments, \* managed Deployments, name |-> app, version and image
  fronts,      \* front Services, name |-> app and version they select
  routes,      \* rendered HTTPRoutes, <<index, flow>> |-> host, backends
  virtual,     \* VirtualServices, service |-> routes
  rules,       \* DestinationRules, service |-> subsets
  outcome,     \* of the last pass, "changed" once users have acted since
  due,         \* a key is in the queue
  listed,      \* history: in what order the pass last applied listed routes
  changes      \* bounded count

input   == <<flows, services, own>>
managed == <<deployments, fronts, routes, virtual, rules>>
vars    == <<input, managed, outcome, due, listed, changes>>

Init ==
  /\ flows \in SUBSET Flows \ {{}}
  /\ services = Installed /\ own = Installed
  /\ deployments = <<>> /\ fronts = <<>> /\ routes = <<>> /\ virtual = <<>> /\ rules = <<>>
  /\ outcome = "changed" /\ due = TRUE /\ listed = <<>> /\ changes = 0

-----------------------------------------------------------------------------
(* The images of the Deployments that carry the app label of i: the users' *)
(* own and those of earlier passes.  GetDeploymentFromName returns the     *)
(* first in the list.                                                      *)
Images(i) ==
  LET found == {Own : j \in own \cap {i}} \cup
               {deployments[n].image : n \in {m \in DOMAIN deployments : deployments[m].app = i}}
  IN  IF found = {} THEN {None} ELSE found

Listings ==
  {[services |-> s, flows |-> fl, routes |-> r, source |-> src] :
     s \in SetToSeqs(services), fl \in SetToSeqs(flows), r \in SetToSeqs(Routes),
     src \in {g \in [services -> {Own, None} \cup Flows] : \A i \in services : g[i] \in Images(i)}}

(* What a pass may write to of a kind: an object of the users' under a     *)
(* name it wants is left alone.                                            *)
Unless(taken, plan) == [n \in DOMAIN plan \ taken |-> plan[n]]

(* A Deployment cannot be created under a name the plan has used, nor can  *)
(* the selector of one that exists be changed: the call is refused.        *)
Written(L) == {d \in Deployments(L) : d.name \notin own}
Refused(written) ==
  {d \in written :
     \/ \E e \in written : e.name = d.name /\ Lexical(e.at, d.at)
     \/ /\ d.name \in DOMAIN deployments
        /\ deployments[d.name].app # d.app \/ deployments[d.name].version # d.version}
ByName(written) ==
  [n \in {d.name : d \in written} |->
     LET d == CHOOSE e \in written : e.name = n
     IN  [app |-> d.app, version |-> d.version, image |-> d.image]]

Ends(result) ==
  /\ outcome' = result /\ due' = (result = "panic")
  /\ UNCHANGED <<input, changes>>

(* Every pass ends in one of these: nothing planned, refused at the first  *)
(* Deployment it may not write, with the Services of the plan written and  *)
(* nothing of the kinds after it, or applied.                              *)
StopPlanning(L) ==
  /\ Verdict(L) # "ok"
  /\ Ends(Verdict(L))
  /\ UNCHANGED <<managed, listed>>

StopApplying(L) ==
  /\ Verdict(L) = "ok"
  /\ LET written == Written(L)  refused == Refused(written) IN
       /\ refused # {}
       /\ deployments' =
            Over(ByName({d \in written : \A e \in refused : Lexical(d.at, e.at)}), deployments)
  /\ fronts' = Unless(services, FrontServices(L))
  /\ Ends("refused")
  /\ UNCHANGED <<routes, virtual, rules, listed>>

Apply(L) ==
  /\ Verdict(L) = "ok"
  /\ LET written == Written(L) IN Refused(written) = {} /\ deployments' = ByName(written)
  /\ fronts' = Unless(services, FrontServices(L))
  /\ virtual' = VirtualServices(L)
  /\ rules' = DestinationRules(L)
  /\ routes' = HTTPRoutes(L)
  /\ listed' = L.routes
  /\ Ends("applied")

Pass ==
  /\ due \/ flows # {}
  /\ \E listing \in Listings :
       LET L == Derived(listing) IN StopPlanning(L) \/ StopApplying(L) \/ Apply(L)

-----------------------------------------------------------------------------
FlowEvent(f) ==
  /\ flows' = IF f \in flows THEN flows \ {f} ELSE flows \cup {f}
  /\ outcome' = "changed" /\ due' = TRUE
  /\ UNCHANGED <<services, own, managed, listed, changes>>

UserChange ==
  /\ changes < MaxChanges /\ changes' = changes + 1
  /\ outcome' = "changed"
  /\ UNCHANGED <<flows, managed, due, listed>>
AddService(i) ==
  /\ i \notin services \cup DOMAIN fronts
  /\ UserChange /\ services' = services \cup {i} /\ UNCHANGED own
RemoveService(i) ==
  /\ i \in services
  /\ UserChange /\ services' = services \ {i} /\ UNCHANGED own
AddDeployment(i) ==
  /\ i \notin own \cup DOMAIN deployments
  /\ UserChange /\ own' = own \cup {i} /\ UNCHANGED services
RemoveDeployment(i) ==
  /\ i \in own
  /\ UserChange /\ own' = own \ {i} /\ UNCHANGED services

Next ==
  \/ Pass
  \/ \E f \in Flows : FlowEvent(f)
  \/ \E i \in Volatile : AddService(i) \/ RemoveService(i)
  \/ \E i \in Withdrawn : AddDeployment(i) \/ RemoveDeployment(i)
Spec == Init /\ [][Next]_vars

-----------------------------------------------------------------------------
Settled == outcome = "applied"

TypeOK ==
  /\ flows \subseteq Flows
  /\ services \subseteq Services /\ own \subseteq Services
  /\ \A n \in DOMAIN deployments :
       deployments[n] \in [app : Services, version : Flows, image : Flows \cup {Own}]
  /\ \A n \in DOMAIN fronts : fronts[n].app \in Services
  /\ DOMAIN routes \subseteq (0 .. Cardinality(Routes) - 1) \X (Flows \cup {Baseline})
  /\ DOMAIN virtual \subseteq Services /\ DOMAIN rules = DOMAIN virtual
  /\ outcome \in {"changed", "error", "panic", "refused", "applied"}
  /\ due \in BOOLEAN /\ changes \in 0 .. MaxChanges

(* The versions of i that are deployed as its flows'.                      *)
Rendered(i) ==
  {deployments[n].version : n \in {m \in DOMAIN deployments : deployments[m].app = i}}

(* After a pass each Flow has its target deployed with the image it asks   *)
(* for, whichever Deployment was copied, unless it is named like the label *)
(* of its service or a Deployment of the users' has the name; and nothing  *)
(* is left that belongs to a Flow that is gone (reconciler.go 49-52,       *)
(* topology.go 184-246, 473).                                              *)
FlowsServed ==
  Settled =>
    /\ \A f \in flows :
         LET i == Target[f] IN
         f # Label[i] /\ Joined(i, f) \notin own =>
           /\ Joined(i, f) \in DOMAIN deployments
           /\ deployments[Joined(i, f)] = [app |-> i, version |-> f, image |-> f]
    /\ \A n \in DOMAIN deployments :
         deployments[n].version \in flows /\ deployments[n].app \in services
    /\ \A x \in DOMAIN routes : x[2] \in flows \cup {Baseline}

(* A pass is applied whenever the cluster is in order, whatever the order  *)
(* of its lists and whatever the users' changes did to earlier passes; all *)
(* that stops it, for every Flow at once, is a dependency or a Flow that   *)
(* names no service, a service without a port, a target or a stateful      *)
(* service without a Deployment, or one name for two Deployments, one of   *)
(* them perhaps of a Flow that is gone (topology.go 188, 724,              *)
(* reconciler.go 46-51, service.go 63, 78, 199).                           *)
Sound ==
  /\ services # {} /\ services \cap Portless = {}
  /\ \A e \in Edges : e[1] \in services => e[2] \in services
  /\ \A f \in flows : Target[f] \in services
  /\ \A i \in services : i \in Stateful \cup {Target[f] : f \in flows} => Images(i) # {None}
Unambiguous ==
  \A x \in services \X flows :
    \A y \in (services \X flows) \cup
             {<<deployments[n].app, deployments[n].version>> : n \in DOMAIN deployments} :
      Joined(x[1], x[2]) = Joined(y[1], y[2]) => x = y
AppliedWhenSound ==
  outcome # "changed" /\ Sound /\ Unambiguous => Settled

(* What the j-th reference of a rendered route was before it was rendered. *)
Original(x, j) == Backends[listed[x[1] + 1]][j]

(* The way from an entry point of a flow: a reference that was rewritten   *)
(* leads to a front Service that selects a version of the very backend it  *)
(* replaces, the flow's own if the flow has one and else the users', and   *)
(* never another flow's, however the names run together; only where a      *)
(* Service or a Deployment of the users' has the name it may lead there    *)
(* (topology.go 515-527, 581-593, service.go 340-363).                     *)
RoutesReachVersions ==
  Settled =>
    \A x \in DOMAIN routes : \A j \in DOMAIN routes[x].backends :
      LET i == Original(x, j)  n == routes[x].backends[j] IN
      n # i /\ n \notin services =>
        /\ n \in DOMAIN fronts /\ fronts[n].app = i
        /\ fronts[n].version \in {x[2], Label[i]}
        /\ n \notin own => (fronts[n].version = x[2] <=> x[2] \in Rendered(i) \cup {Label[i]})

(* Inside the mesh: every service of the users', and no other, has a       *)
(* subset for each version that is deployed and no further one, one route  *)
(* to each, and no two routes that match the same calls (topology.go       *)
(* 191-207, service.go 192-338).                                           *)
SubsetsAreDeployed ==
  Settled =>
    /\ DOMAIN virtual = services
    /\ \A i \in services :
         /\ Rendered(i) \cup {Label[i]} \subseteq rules[i]
         /\ \A v \in rules[i] \ (Rendered(i) \cup {Label[i]}) : Joined(i, v) \in own
         /\ {r.subset : r \in virtual[i]} = rules[i]
         /\ \A r, s \in virtual[i] : r.match = s.match => r = s

(* Of all the references to a backend at most one per flow is rewritten to *)
(* the flow's front Service, wherever routes and rules repeat it, and one  *)
(* is unless another backend and flow have the same name between them; the *)
(* others keep leading to the Service of all versions (topology.go         *)
(* 588-594).                                                               *)
Mentions(i, f) ==
  UNION {{<<x, j>> : j \in {m \in DOMAIN routes[x].backends :
                              Original(x, m) = i /\ routes[x].backends[m] = Joined(i, f)}} :
           x \in {y \in DOMAIN routes : y[2] = f}}
OneReferenceEach ==
  Settled =>
    \A f \in flows \cup {Baseline} :
      \A i \in services \cap UNION {ToSet(Backends[r]) : r \in Routes} :
        /\ Cardinality(Mentions(i, f)) <= 1
        /\ Mentions(i, f) = {} =>
             \E j \in services : \E g \in flows \cup {Baseline} :
               <<j, g>> # <<i, f>> /\ Joined(j, g) = Joined(i, f)

(* Entry points are told apart by host: two rendered routes have one host  *)
(* only if they are of one flow and the users' hosts differ in no more     *)
(* than their first label, or if the host is a single label, which has no  *)
(* room for a flow (topology/utils.go 13, topology.go 574).                *)
Parent(h) == IF Len(h) > 2 THEN Tail(h) ELSE h
HostsApart ==
  Settled =>
    \A x, y \in DOMAIN routes :
      routes[x].host = routes[y].host =>
        LET h == Host[listed[x[1] + 1]]  g == Host[listed[y[1] + 1]] IN
        \/ Len(h) < 2 /\ h = g
        \/ x[2] = y[2] /\ Parent(h) = Parent(g)

(* A pass that follows another with nothing in between renders the same    *)
(* routes as long as the list of routes has the same order, though in      *)
(* another order of services it may isolate others: no other order shows,  *)
(* but where two backends and flows share a name (topology.go 567-569,     *)
(* 587-593, 627).                                                          *)
Alone(i, f) ==
  \A j \in services, g \in flows \cup {Baseline} :
    Joined(j, g) = Joined(i, f) => <<j, g>> = <<i, f>>
RoutesFollowTheirList ==
  [][Settled /\ outcome' = "applied" /\ listed' = listed =>
       /\ DOMAIN routes' = DOMAIN routes
       /\ \A x \in DOMAIN routes :
            /\ routes'[x].host = routes[x].host
            /\ \A j \in DOMAIN routes[x].backends :
                 Alone(Original(x, j), x[2]) => routes'[x].backends[j] = routes[x].backends[j]]_vars

(* README 14 says every operation of the operator is idempotent.  A pass   *)
(* that follows another with nothing in between should leave the images    *)
(* of the Deployments alone; reconciler.go 49 and topology.go 706 may copy *)
(* another flow's Deployment instead of the users'.                        *)
ImagesIdempotent ==
  [][Settled /\ outcome' = "applied" =>
       \A n \in DOMAIN deployments \cap DOMAIN deployments' :
         deployments'[n].image = deployments[n].image]_vars
=============================================================================
