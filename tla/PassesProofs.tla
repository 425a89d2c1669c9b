---------------------------- MODULE PassesProofs ----------------------------
(* Proofs about whole passes, for any services, graph, Flows, hosts, routes *)
(* and names, and any listing.  Of a pass that was applied everything a     *)
(* property says follows from what is rendered of its listing, so that the  *)
(* inductive invariant is only the types and the names of Deployments.      *)
EXTENDS Passes, RenderingProofs, SequenceTheorems

(* A managed Deployment has the name of its service and version.           *)
NamesKept ==
  \A n \in DOMAIN deployments : n = Joined(deployments[n].app, deployments[n].version)
IInv == TypeOK /\ NamesKept

-----------------------------------------------------------------------------
(* What a pass plans with.                                                  *)
Plans(L) ==
  /\ Planned(L, services, flows)
  /\ \A i \in services : L.source[i] \in Images(i)

LEMMA ListingPlans ==
  ASSUME TypeOK, NEW listing \in Listings
  PROVE  Plans(Derived(listing))
<1>1. PICK s \in SetToSeqs(services), fl \in SetToSeqs(flows), r \in SetToSeqs(Routes),
           src \in {g \in [services -> {Own, None} \cup Flows] :
                      \A i \in services : g[i] \in Images(i)} :
        listing = [services |-> s, flows |-> fl, routes |-> r, source |-> src]
  BY DEF Listings
<1>2. /\ listing.services \in SetToSeqs(services) /\ listing.flows \in SetToSeqs(flows)
      /\ listing.routes \in SetToSeqs(Routes)
      /\ \A i \in services : listing.source[i] \in Images(i)
  BY <1>1
<1>3. services \in SUBSET Services /\ flows \in SUBSET Flows
  BY DEF TypeOK
<1>4. Planned(Derived(listing), services, flows) /\ Derived(listing).source = listing.source
  BY <1>2, <1>3, DerivedPlan
<1> QED BY <1>2, <1>4 DEF Plans

LEMMA SomeImage ==
  ASSUME TypeOK, NEW i, Images(i) # {None}
  PROVE  None \notin Images(i)
<1>1. \A n \in DOMAIN deployments : deployments[n].image \in Flows \cup {Own}
  BY DEF TypeOK
<1> QED BY <1>1, FlowAssumption DEF Images

LEMMA PlanIsSound ==
  ASSUME NEW S, NEW F, NEW L, Planned(L, S, F), Verdict(L) = "ok"
  PROVE  /\ \A f \in F : Target[f] \in S
         /\ \A d \in Deployments(L) : d.image # None
<1>1. ~Unrenderable(L)
  BY DEF Verdict
<1>2. Undeployed(L) = {} /\ Unknown(L) = {}
  BY DEF Verdict
<1>3. ToSet(L.flows) = F
  BY SubsetsFinite, ListOfSet DEF Planned
<1>4. \A f \in F : Target[f] \in S
  BY <1>2, <1>3, ListsAre DEF Unknown, ToSet
<1> QED BY <1>1, <1>4 DEF Unrenderable

(* Deployments that are written are told apart by their names.              *)
Unclashing(W) == \A d, e \in W : d.name = e.name => d = e

LEMMA ByNameIs ==
  ASSUME NEW W, Unclashing(W)
  PROVE  /\ DOMAIN ByName(W) = {d.name : d \in W}
         /\ \A d \in W :
              ByName(W)[d.name] = [app |-> d.app, version |-> d.version, image |-> d.image]
<1> DEFINE C(n) == CHOOSE e \in W : e.name = n
<1>1. /\ DOMAIN ByName(W) = {d.name : d \in W}
      /\ \A n \in {d.name : d \in W} :
           ByName(W)[n] = [app |-> C(n).app, version |-> C(n).version, image |-> C(n).image]
  BY DEF ByName
<1>2. ASSUME NEW d \in W PROVE C(d.name) = d
  <2>1. C(d.name) \in W /\ C(d.name).name = d.name
    OBVIOUS
  <2> HIDE DEF C
  <2> QED BY <2>1 DEF Unclashing
<1> HIDE DEF C
<1> QED BY <1>1, <1>2

(* Before the first Deployment that is refused names do not clash.          *)
Unrefused(W) == {d \in W : \A e \in Refused(W) : Lexical(d.at, e.at)}

LEMMA LexicalIrreflexive ==
  ASSUME NEW p \in Nat \X Nat
  PROVE  ~Lexical(p, p)
<1>1. DOMAIN p = {1, 2} /\ p[1] \in Nat /\ p[2] \in Nat
  OBVIOUS
<1> QED BY <1>1 DEF Lexical

LEMMA UnrefusedUnclashing ==
  ASSUME NEW S, NEW F, NEW L, Planned(L, S, F), \A f \in F : Target[f] \in S
  PROVE  /\ Unclashing(Unrefused(Written(L)))
         /\ \A d \in Unrefused(Written(L)) : d \notin Refused(Written(L))
<1> DEFINE W == Written(L)
<1>1. \A d \in W : d \in Deployments(L)
  BY DEF Written
<1>2. \A d \in W : d.at \in Nat \X Nat
  BY <1>1, DeploymentsAre
<1>3. \A d \in Unrefused(W) : d \in W /\ d \notin Refused(W)
  BY <1>2, LexicalIrreflexive DEF Unrefused
<1>4. ASSUME NEW d \in Unrefused(W), NEW e \in Unrefused(W), d.name = e.name
      PROVE  d = e
  <2>1. ~Lexical(d.at, e.at) /\ ~Lexical(e.at, d.at)
    BY <1>3, <1>4 DEF Refused
  <2>2. d.at = e.at
    BY <1>2, <1>3, <2>1, LexicalTotal2
  <2> QED BY <1>1, <1>3, <2>2, DeploymentsAre
<1> QED BY <1>3, <1>4 DEF Unclashing

-----------------------------------------------------------------------------
(* The Deployments after a pass was applied.                                *)
LEMMA AppliedDeployments ==
  ASSUME NEW L, Plans(L), Apply(L)
  PROVE  /\ \A f \in flows : Target[f] \in services
         /\ \A d \in Deployments(L) : d.name \notin own =>
              /\ d.name \in DOMAIN deployments'
              /\ deployments'[d.name]
                   = [app |-> d.app, version |-> d.version, image |-> d.image]
         /\ \A n \in DOMAIN deployments' : n \notin own /\
              \E d \in Deployments(L) :
                /\ n = d.name
                /\ deployments'[n] = [app |-> d.app, version |-> d.version, image |-> d.image]
<1>1. Planned(L, services, flows) /\ Verdict(L) = "ok"
  BY DEF Plans, Apply
<1>2. \A f \in flows : Target[f] \in services
  BY <1>1, PlanIsSound
<1> DEFINE W == Written(L)
<1>3. Refused(W) = {} /\ deployments' = ByName(W)
  BY DEF Apply
<1>4. Unclashing(W)
  <2>1. Unrefused(W) = W
    BY <1>3 DEF Unrefused
  <2> QED BY <1>1, <1>2, <2>1, UnrefusedUnclashing
<1>5. /\ DOMAIN deployments' = {d.name : d \in W}
      /\ \A d \in W :
           deployments'[d.name] = [app |-> d.app, version |-> d.version, image |-> d.image]
  BY <1>3, <1>4, ByNameIs
<1>6. \A d : d \in W <=> d \in Deployments(L) /\ d.name \notin own
  BY DEF Written
<1> HIDE DEF W
<1>7. ASSUME NEW d \in Deployments(L), d.name \notin own
      PROVE  /\ d.name \in DOMAIN deployments'
             /\ deployments'[d.name]
                  = [app |-> d.app, version |-> d.version, image |-> d.image]
  BY <1>5, <1>6, <1>7
<1>8. ASSUME NEW n \in DOMAIN deployments'
      PROVE  n \notin own /\
              \E d \in Deployments(L) :
                /\ n = d.name
                /\ deployments'[n] = [app |-> d.app, version |-> d.version, image |-> d.image]
  BY <1>5, <1>6
<1> QED BY <1>2, <1>7, <1>8

(* The front Services of a plan.                                            *)
LEMMA FrontServicesAre ==
  ASSUME NEW S, NEW F, NEW L, Planned(L, S, F)
  PROVE  /\ \A n \in DOMAIN FrontServices(L) : FrontServices(L)[n].app \in S
         /\ \A p \in AddedOf(L, RouteLists(L)) :
              /\ p.name \in DOMAIN FrontServices(L)
              /\ FrontServices(L)[p.name]
                   = [app |-> p.app, version |-> VersionFor(L, p.app, p.flow)]
<1>0. Placed(RouteLists(L)) /\ Placed(<<Paths>>)
  BY ListsAre
<1>1. /\ Selecting(L, AddedOf(L, RouteLists(L)), Fronts(L, AddedOf(L, RouteLists(L))))
      /\ Selecting(L, AddedOf(L, <<Paths>>), Fronts(L, AddedOf(L, <<Paths>>)))
  BY <1>0, FrontsAre
<1> DEFINE A == AddedOf(L, RouteLists(L))
           B == AddedOf(L, <<Paths>>)
           fA == Fronts(L, A)
           fB == Fronts(L, B)
<1>2. Selecting(L, A, fA) /\ Selecting(L, B, fB)
  BY <1>1
<1>3. \A p \in A : p.app \in S
  <2>1. \A p \in A : p \in References(L, RouteLists(L))
    BY DEF AddedOf, Added
  <2> HIDE DEF A
  <2> QED BY <2>1, ReferencesAre, ListsAre
<1>4. \A p \in B : p.app \in S
  <2>1. \A p \in B : p \in References(L, <<Paths>>)
    BY DEF AddedOf, Added
  <2> HIDE DEF B
  <2> QED BY <2>1, ReferencesAre, ListsAre
<1>5. FrontServices(L) = Over(fA, fB)
  BY DEF FrontServices, AddedOf
<1> HIDE DEF A, B, fA, fB
<1>6. /\ DOMAIN FrontServices(L) = DOMAIN fA \cup DOMAIN fB
      /\ \A n \in DOMAIN FrontServices(L) :
           FrontServices(L)[n] = IF n \in DOMAIN fA THEN fA[n] ELSE fB[n]
  BY <1>5 DEF Over
<1>7. ASSUME NEW n \in DOMAIN FrontServices(L)
      PROVE  FrontServices(L)[n].app \in S
  <2>1. CASE n \in DOMAIN fA
    <3>1. PICK p \in A : n = p.name
      BY <1>2, <2>1 DEF Selecting
    <3>2. FrontServices(L)[n] = [app |-> p.app, version |-> VersionFor(L, p.app, p.flow)]
      BY <1>2, <1>6, <2>1, <3>1 DEF Selecting
    <3>3. p.app \in S
      BY <1>3
    <3> QED BY <3>2, <3>3
  <2>2. CASE n \notin DOMAIN fA
    <3>1. PICK p \in B : n = p.name
      BY <1>2, <1>6, <2>2 DEF Selecting
    <3>2. FrontServices(L)[n] = [app |-> p.app, version |-> VersionFor(L, p.app, p.flow)]
      BY <1>2, <1>6, <2>2, <3>1 DEF Selecting
    <3>3. p.app \in S
      BY <1>4
    <3> QED BY <3>2, <3>3
  <2> QED BY <2>1, <2>2
<1>8. ASSUME NEW p \in A
      PROVE  /\ p.name \in DOMAIN FrontServices(L)
             /\ FrontServices(L)[p.name]
                  = [app |-> p.app, version |-> VersionFor(L, p.app, p.flow)]
  BY <1>2, <1>6 DEF Selecting
<1> QED BY <1>7, <1>8 DEF A

-----------------------------------------------------------------------------
LEMMA InitIInv == Init => IInv
<1> SUFFICES ASSUME Init PROVE IInv
  OBVIOUS
<1>1. DOMAIN deployments = {} /\ DOMAIN fronts = {} /\ DOMAIN routes = {}
      /\ DOMAIN virtual = {} /\ DOMAIN rules = {}
  BY DEF Init
<1>2. TypeOK
  BY <1>1, UsersAssumption DEF Init, TypeOK
<1> QED BY <1>1, <1>2 DEF IInv, NamesKept

(* What a pass writes has the types and the names of its plan.              *)
DeploymentsKept(deps) ==
  \A n \in DOMAIN deps :
    /\ deps[n] \in [app : Services, version : Flows, image : Flows \cup {Own}]
    /\ n = Joined(deps[n].app, deps[n].version)

LEMMA ByNameKept ==
  ASSUME TypeOK, NEW L, Plans(L), Verdict(L) = "ok",
         NEW W \in SUBSET Deployments(L), Unclashing(W)
  PROVE  DeploymentsKept(ByName(W))
<1>1. Planned(L, services, flows)
  BY DEF Plans
<1>2. /\ \A f \in flows : Target[f] \in services
      /\ \A d \in Deployments(L) : d.image # None
  BY <1>1, PlanIsSound
<1>3. ASSUME NEW d \in W
      PROVE  /\ [app |-> d.app, version |-> d.version, image |-> d.image]
                  \in [app : Services, version : Flows, image : Flows \cup {Own}]
             /\ d.name = Joined(d.app, d.version)
  <2>1. /\ d.app \in services /\ d.version \in flows /\ d.name = Joined(d.app, d.version)
        /\ d.image = Image(L, d.app, d.version)
    BY <1>1, <1>2, DeploymentsAre
  <2>2. services \subseteq Services /\ flows \subseteq Flows
    BY DEF TypeOK
  <2>3. d.image \in Flows \cup {Own}
    <3>1. L.source[d.app] \in Flows \cup {Own, None}
      <4>1. \A n \in DOMAIN deployments : deployments[n].image \in Flows \cup {Own}
        BY DEF TypeOK
      <4> QED BY <2>1, <4>1 DEF Plans, Images
    <3>2. d.image # None
      BY <1>2
    <3> QED BY <2>1, <2>2, <3>1, <3>2 DEF Image
  <2> QED BY <2>1, <2>2, <2>3
<1>4. /\ DOMAIN ByName(W) = {d.name : d \in W}
      /\ \A d \in W :
           ByName(W)[d.name] = [app |-> d.app, version |-> d.version, image |-> d.image]
  BY ByNameIs
<1>5. ASSUME NEW n \in DOMAIN ByName(W)
      PROVE  /\ ByName(W)[n] \in [app : Services, version : Flows, image : Flows \cup {Own}]
             /\ n = Joined(ByName(W)[n].app, ByName(W)[n].version)
  <2>1. PICK d \in W : n = d.name
    BY <1>4
  <2>2. ByName(W)[n] = [app |-> d.app, version |-> d.version, image |-> d.image]
    BY <1>4, <2>1
  <2> HIDE DEF ByName
  <2> QED BY <1>3, <2>1, <2>2
<1> QED BY <1>5 DEF DeploymentsKept

LEMMA StopApplyingKeeps ==
  ASSUME IInv, NEW L, Plans(L), StopApplying(L)
  PROVE  IInv'
<1> USE DEF IInv
<1>1. Planned(L, services, flows) /\ Verdict(L) = "ok"
  BY DEF Plans, StopApplying
<1>2. \A f \in flows : Target[f] \in services
  BY <1>1, PlanIsSound
<1> DEFINE W == Unrefused(Written(L))
<1>3. deployments' = Over(ByName(W), deployments)
  BY DEF StopApplying, Unrefused
<1>4. DeploymentsKept(ByName(W))
  <2>1. Unclashing(W) /\ W \in SUBSET Deployments(L)
    BY <1>1, <1>2, UnrefusedUnclashing DEF Unrefused, Written
  <2> HIDE DEF W
  <2> QED BY <1>1, <2>1, ByNameKept
<1>5. DeploymentsKept(deployments)
  BY DEF TypeOK, NamesKept, DeploymentsKept
<1>6. DeploymentsKept(deployments')
  <2> DEFINE b == ByName(W)
  <2>1. deployments' = [n \in DOMAIN b \cup DOMAIN deployments |->
                          IF n \in DOMAIN b THEN b[n] ELSE deployments[n]]
    BY <1>3 DEF Over
  <2>2. DeploymentsKept(b)
    BY <1>4
  <2> HIDE DEF b
  <2>3. ASSUME NEW n \in DOMAIN deployments'
        PROVE  /\ deployments'[n] \in [app : Services, version : Flows, image : Flows \cup {Own}]
               /\ n = Joined(deployments'[n].app, deployments'[n].version)
    <3>1. CASE n \in DOMAIN b
      BY <2>1, <2>2, <3>1 DEF DeploymentsKept
    <3>2. CASE n \notin DOMAIN b
      BY <1>5, <2>1, <3>2 DEF DeploymentsKept
    <3> QED BY <3>1, <3>2
  <2> QED BY <2>3 DEF DeploymentsKept
<1>7. \A n \in DOMAIN fronts' : fronts'[n].app \in Services
  <2>1. fronts' = [n \in DOMAIN FrontServices(L) \ services |-> FrontServices(L)[n]]
    BY DEF StopApplying, Unless
  <2>2. \A n \in DOMAIN FrontServices(L) : FrontServices(L)[n].app \in services
    BY <1>1, FrontServicesAre
  <2> QED BY <2>1, <2>2 DEF TypeOK
<1>8. /\ UNCHANGED <<flows, services, own, changes, routes, virtual, rules, listed>>
      /\ outcome' = "refused" /\ due' \in BOOLEAN
  BY DEF StopApplying, Ends, input
<1>9. TypeOK'
  BY <1>6, <1>7, <1>8 DEF TypeOK, DeploymentsKept
<1>10. NamesKept'
  BY <1>6 DEF NamesKept, DeploymentsKept
<1> QED BY <1>9, <1>10

LEMMA ApplyKeeps ==
  ASSUME IInv, NEW L, Plans(L), Apply(L)
  PROVE  IInv'
<1> USE DEF IInv
<1>1. Planned(L, services, flows) /\ Verdict(L) = "ok"
  BY DEF Plans, Apply
<1>2. \A f \in flows : Target[f] \in services
  BY <1>1, PlanIsSound
<1> DEFINE W == Written(L)
<1>3. Refused(W) = {} /\ deployments' = ByName(W)
  BY DEF Apply
<1>4. DeploymentsKept(deployments')
  <2>1. Unrefused(W) = W
    BY <1>3 DEF Unrefused
  <2>10. Unclashing(Unrefused(W))
    BY <1>1, <1>2, UnrefusedUnclashing
  <2>2. Unclashing(W) /\ W \in SUBSET Deployments(L)
    BY <2>1, <2>10 DEF Written
  <2> HIDE DEF W
  <2> QED BY <1>1, <1>3, <2>2, ByNameKept
<1>5. \A n \in DOMAIN fronts' : fronts'[n].app \in Services
  <2>1. fronts' = [n \in DOMAIN FrontServices(L) \ services |-> FrontServices(L)[n]]
    BY DEF Apply, Unless
  <2>2. \A n \in DOMAIN FrontServices(L) : FrontServices(L)[n].app \in services
    BY <1>1, FrontServicesAre
  <2> QED BY <2>1, <2>2 DEF TypeOK
<1>6. DOMAIN routes' \subseteq (0 .. Cardinality(Routes) - 1) \X (Flows \cup {Baseline})
  <2>1. routes' = HTTPRoutes(L)
    BY DEF Apply
  <2>2. DOMAIN HTTPRoutes(L) = (0 .. Len(L.routes) - 1) \X (flows \cup {Baseline})
    BY <1>1, RoutesAre
  <2>3. Len(L.routes) = Cardinality(Routes)
    BY <1>1, ListsAre
  <2> QED BY <2>1, <2>2, <2>3 DEF TypeOK
<1>7. DOMAIN virtual' \subseteq Services /\ DOMAIN rules' = DOMAIN virtual'
  <2>1. Present(L) = services
    BY <1>1, ListsAre
  <2> QED BY <2>1 DEF Apply, VirtualServices, DestinationRules, TypeOK
<1>8. /\ UNCHANGED <<flows, services, own, changes>>
      /\ outcome' = "applied" /\ due' \in BOOLEAN
  BY DEF Apply, Ends, input
<1>9. TypeOK'
  BY <1>4, <1>5, <1>6, <1>7, <1>8 DEF TypeOK, DeploymentsKept
<1>10. NamesKept'
  BY <1>4 DEF NamesKept, DeploymentsKept
<1> QED BY <1>9, <1>10

(* Every other step leaves what is managed alone.                           *)
Others ==
  \/ \E L : Plans(L) /\ StopPlanning(L)
  \/ \E f \in Flows : FlowEvent(f)
  \/ \E i \in Volatile : AddService(i) \/ RemoveService(i)
  \/ \E i \in Withdrawn : AddDeployment(i) \/ RemoveDeployment(i)

LEMMA OthersKeep ==
  ASSUME IInv, Others
  PROVE  IInv' /\ UNCHANGED <<managed, listed>> /\ outcome' # "applied"
<1> USE DEF IInv
<1> USE DEF managed, input
<1>1. ASSUME NEW L, StopPlanning(L) PROVE IInv' /\ UNCHANGED <<managed, listed>> /\ outcome' # "applied"
  <2>1. Verdict(L) \in {"error", "panic"}
    BY <1>1 DEF StopPlanning, Verdict
  <2>2. /\ UNCHANGED <<flows, services, own, changes, managed, listed>>
        /\ outcome' = Verdict(L) /\ due' \in BOOLEAN
    BY <1>1 DEF StopPlanning, Ends
  <2> QED BY <2>1, <2>2 DEF TypeOK, NamesKept
<1>2. ASSUME NEW f \in Flows, FlowEvent(f) PROVE IInv' /\ UNCHANGED <<managed, listed>> /\ outcome' # "applied"
  BY <1>2 DEF FlowEvent, TypeOK, NamesKept
<1>3. ASSUME UserChange, UNCHANGED <<listed>>, services' \subseteq Services, own' \subseteq Services
      PROVE  IInv' /\ UNCHANGED <<managed, listed>> /\ outcome' # "applied"
  <2>1. changes' \in 0 .. MaxChanges
    BY <1>3, UsersAssumption DEF UserChange, TypeOK
  <2>2. UNCHANGED <<flows, managed, due, listed>> /\ outcome' = "changed"
    BY <1>3 DEF UserChange
  <2> QED BY <1>3, <2>1, <2>2 DEF TypeOK, NamesKept
<1>4. ASSUME NEW i \in Volatile, AddService(i) \/ RemoveService(i)
      PROVE  UserChange /\ UNCHANGED listed /\ services' \subseteq Services /\ own' \subseteq Services
  BY <1>4, UsersAssumption DEF AddService, RemoveService, UserChange, TypeOK
<1>5. ASSUME NEW i \in Withdrawn, AddDeployment(i) \/ RemoveDeployment(i)
      PROVE  UserChange /\ UNCHANGED listed /\ services' \subseteq Services /\ own' \subseteq Services
  BY <1>5, UsersAssumption DEF AddDeployment, RemoveDeployment, UserChange, TypeOK
<1> QED BY <1>1, <1>2, <1>3, <1>4, <1>5 DEF Others

LEMMA PassIsOne ==
  ASSUME TypeOK, Next
  PROVE  \/ Others
         \/ \E L : Plans(L) /\ (StopApplying(L) \/ Apply(L))
<1>1. ASSUME Pass PROVE Others \/ \E L : Plans(L) /\ (StopApplying(L) \/ Apply(L))
  <2>1. PICK listing \in Listings :
          \/ StopPlanning(Derived(listing)) \/ StopApplying(Derived(listing))
          \/ Apply(Derived(listing))
    BY <1>1 DEF Pass
  <2>2. Plans(Derived(listing))
    BY ListingPlans
  <2> QED BY <2>1, <2>2 DEF Others
<1> QED BY <1>1 DEF Next, Others

LEMMA NextIInv == IInv /\ [Next]_vars => IInv'
<1> SUFFICES ASSUME IInv, [Next]_vars PROVE IInv'
  OBVIOUS
<1>1. CASE UNCHANGED vars
  BY <1>1 DEF vars, input, managed, IInv, TypeOK, NamesKept
<1>2. CASE Next
  <2>1. Others \/ \E L : Plans(L) /\ (StopApplying(L) \/ Apply(L))
    BY <1>2, PassIsOne DEF IInv
  <2> QED BY <2>1, OthersKeep, StopApplyingKeeps, ApplyKeeps
<1> QED BY <1>1, <1>2

LEMMA IInvInductive == Spec => []IInv
<1> QED BY InitIInv, NextIInv, PTL DEF Spec

(* Every state has its type, and every managed Deployment the name of the   *)
(* service and version it was made for (service.go 63).                     *)
THEOREM TypesAndNames == Spec => [](TypeOK /\ NamesKept)
<1>1. IInv => TypeOK /\ NamesKept
  BY DEF IInv
<1> QED BY <1>1, IInvInductive, PTL

-----------------------------------------------------------------------------
LEMMA OnlyApply ==
  ASSUME IInv, [Next]_vars, Settled'
  PROVE  UNCHANGED vars \/ \E L : Plans(L) /\ Apply(L)
<1>1. CASE Next
  <2>1. Others \/ \E L : Plans(L) /\ (StopApplying(L) \/ Apply(L))
    BY <1>1, PassIsOne DEF IInv
  <2>2. ~Others
    BY OthersKeep DEF Settled
  <2>3. \A L : ~StopApplying(L)
    BY DEF StopApplying, Ends, Settled
  <2> QED BY <2>1, <2>2, <2>3
<1> QED BY <1>1

(* The versions that are deployed after a pass.                             *)
LEMMA RenderedIs ==
  ASSUME NEW L, Plans(L), Apply(L), NEW i \in services, NEW f
  PROVE  /\ f \in Rendered(i)' <=>
              f \in Versions(L, i) /\ f # Label[i] /\ Joined(i, f) \notin own
         /\ f \in Versions(L, i) /\ f # Label[i] => f \in flows
<1>1. Planned(L, services, flows)
  BY DEF Plans
<1>2. ToSet(L.flows) = flows
  BY <1>1, SubsetsFinite, ListOfSet DEF Planned
<1>3. \A g \in flows : Target[g] \in services
  BY AppliedDeployments
<1>4. ASSUME f \in Rendered(i)'
      PROVE  f \in Versions(L, i) /\ f # Label[i] /\ Joined(i, f) \notin own
  <2>1. PICK n \in DOMAIN deployments' : deployments'[n].app = i /\ deployments'[n].version = f
    BY <1>4 DEF Rendered
  <2>2. n \notin own
    BY AppliedDeployments
  <2>3. PICK d \in Deployments(L) :
          /\ n = d.name
          /\ deployments'[n] = [app |-> d.app, version |-> d.version, image |-> d.image]
    BY AppliedDeployments
  <2>4. d.app = i /\ d.version = f
    BY <2>1, <2>3
  <2>5. /\ d.version \in flows /\ d.name = Joined(d.app, d.version)
        /\ d.app \in L.isolated[d.version] /\ d.version # Label[d.app]
    BY <1>1, <1>3, DeploymentsAre
  <2> QED BY <1>2, <2>2, <2>3, <2>4, <2>5 DEF Versions
<1>5. ASSUME f \in Versions(L, i), f # Label[i]
      PROVE  f \in flows /\ i \in L.isolated[f]
  BY <1>2, <1>5 DEF Versions
<1>6. ASSUME f \in Versions(L, i), f # Label[i], Joined(i, f) \notin own
      PROVE  f \in Rendered(i)'
  <2>1. PICK d \in Deployments(L) : d.app = i /\ d.version = f
    BY <1>1, <1>3, <1>5, <1>6, DeploymentsAre
  <2>2. d.name = Joined(i, f)
    BY <1>1, <1>3, <2>1, DeploymentsAre
  <2>3. /\ d.name \in DOMAIN deployments'
        /\ deployments'[d.name] = [app |-> d.app, version |-> d.version, image |-> d.image]
    BY <1>6, <2>2, AppliedDeployments
  <2> QED BY <2>1, <2>3 DEF Rendered
<1> QED BY <1>4, <1>5, <1>6

LEMMA FlowsServedByApply ==
  ASSUME IInv, NEW L, Plans(L), Apply(L)
  PROVE  FlowsServed'
<1>1. Planned(L, services, flows) /\ UNCHANGED <<flows, services, own>>
  BY DEF Plans, Apply, Ends, input
<1>2. \A g \in flows : Target[g] \in services
  BY AppliedDeployments
<1>3. ASSUME NEW f \in flows, f # Label[Target[f]], Joined(Target[f], f) \notin own
      PROVE  /\ Joined(Target[f], f) \in DOMAIN deployments'
             /\ deployments'[Joined(Target[f], f)]
                  = [app |-> Target[f], version |-> f, image |-> f]
  <2>1. Target[f] \in L.isolated[f]
    BY <1>1, <1>2 DEF Planned
  <2>2. PICK d \in Deployments(L) : d.app = Target[f] /\ d.version = f
    BY <1>1, <1>2, <1>3, <2>1, DeploymentsAre
  <2>3. d.name = Joined(Target[f], f) /\ d.image = f
    BY <1>1, <1>2, <2>2, DeploymentsAre DEF Image
  <2> QED BY <1>3, <2>2, <2>3, AppliedDeployments
<1>4. ASSUME NEW n \in DOMAIN deployments'
      PROVE  deployments'[n].version \in flows /\ deployments'[n].app \in services
  <2>1. PICK d \in Deployments(L) :
          deployments'[n] = [app |-> d.app, version |-> d.version, image |-> d.image]
    BY AppliedDeployments
  <2>2. d.version \in flows /\ d.app \in services
    BY <1>1, <1>2, DeploymentsAre
  <2> QED BY <2>1, <2>2
<1>5. ASSUME NEW x \in DOMAIN routes' PROVE x[2] \in flows \cup {Baseline}
  <2>1. DOMAIN routes' = (0 .. Len(L.routes) - 1) \X (flows \cup {Baseline})
    BY <1>1, RoutesAre DEF Apply
  <2> QED BY <2>1
<1> QED BY <1>1, <1>3, <1>4, <1>5 DEF FlowsServed

(* Whatever Deployments its copies were made of, and whoever changed what   *)
(* in between, a pass that is applied serves every Flow, and nobody else    *)
(* (reconciler.go 49-52, topology.go 184-246, 473).                         *)
THEOREM FlowsServedCorrect == Spec => []FlowsServed
<1>1. Init => FlowsServed
  BY DEF Init, FlowsServed, Settled
<1>2. IInv /\ FlowsServed /\ [Next]_vars => FlowsServed'
  <2> SUFFICES ASSUME IInv, FlowsServed, [Next]_vars, Settled' PROVE FlowsServed'
    BY DEF FlowsServed
  <2>1. CASE UNCHANGED vars
    BY <2>1 DEF vars, input, managed, FlowsServed, Settled
  <2> QED BY <2>1, OnlyApply, FlowsServedByApply
<1> QED BY <1>1, <1>2, IInvInductive, PTL DEF Spec

LEMMA SubsetsByApply ==
  ASSUME IInv, NEW L, Plans(L), Apply(L)
  PROVE  SubsetsAreDeployed'
<1>1. Planned(L, services, flows) /\ UNCHANGED <<flows, services, own>>
  BY DEF Plans, Apply, Ends, input
<1>2. Present(L) = services
  BY <1>1, ListsAre
<1>3. /\ virtual' = [i \in services |-> {Route(i, v) : v \in Versions(L, i)}]
      /\ rules' = [i \in services |-> Versions(L, i)]
  BY <1>2 DEF Apply, VirtualServices, DestinationRules
<1>4. ASSUME NEW i \in services
      PROVE  /\ Rendered(i)' \cup {Label[i]} \subseteq Versions(L, i)
             /\ \A v \in Versions(L, i) \ (Rendered(i)' \cup {Label[i]}) : Joined(i, v) \in own
  BY RenderedIs DEF Versions
<1>5. ASSUME NEW i \in services
      PROVE  {r.subset : r \in virtual'[i]} = Versions(L, i)
  <2>1. virtual'[i] = {Route(i, v) : v \in Versions(L, i)}
    BY <1>3
  <2>2. \A v : Route(i, v).subset = v
    BY DEF Route
  <2> QED BY <2>1, <2>2
<1>6. ASSUME NEW i \in services, NEW r \in virtual'[i], NEW s \in virtual'[i], r.match = s.match
      PROVE  r = s
  <2>1. PICK v \in Versions(L, i) : r = Route(i, v)
    BY <1>3
  <2>2. PICK w \in Versions(L, i) : s = Route(i, w)
    BY <1>3
  <2>3. v \in Flows \cup {Label[i]} /\ w \in Flows \cup {Label[i]} /\ i \in Services
    BY RenderedIs DEF IInv, TypeOK
  <2>4. CASE i \in HTTP
    BY <1>6, <2>1, <2>2, <2>3, <2>4, NameAssumption DEF Route
  <2>5. CASE i \notin HTTP
    BY <1>6, <2>1, <2>2, <2>5 DEF Route
  <2> QED BY <2>4, <2>5
<1>7. DOMAIN virtual' = services /\ \A i \in services : rules'[i] = Versions(L, i)
  BY <1>3
<1> QED BY <1>1, <1>4, <1>5, <1>6, <1>7 DEF SubsetsAreDeployed

(* Inside the mesh each version that is deployed can be reached, by one     *)
(* route, and no route leads to what is not (service.go 192-338).           *)
THEOREM SubsetsCorrect == Spec => []SubsetsAreDeployed
<1>1. Init => SubsetsAreDeployed
  BY DEF Init, SubsetsAreDeployed, Settled
<1>2. IInv /\ SubsetsAreDeployed /\ [Next]_vars => SubsetsAreDeployed'
  <2> SUFFICES ASSUME IInv, SubsetsAreDeployed, [Next]_vars, Settled' PROVE SubsetsAreDeployed'
    BY DEF SubsetsAreDeployed
  <2>1. CASE UNCHANGED vars
    BY <2>1 DEF vars, input, managed, SubsetsAreDeployed, Settled, Rendered
  <2> QED BY <2>1, OnlyApply, SubsetsByApply
<1> QED BY <1>1, <1>2, IInvInductive, PTL DEF Spec

-----------------------------------------------------------------------------
LEMMA RoutesByApply ==
  ASSUME IInv, NEW L, Plans(L), Apply(L), NEW x \in DOMAIN routes'
  PROVE  /\ listed' = L.routes
         /\ x[1] + 1 \in DOMAIN L.routes /\ x[2] \in flows \cup {Baseline}
         /\ RouteIs(L, x, routes'[x])
<1>1. Planned(L, services, flows)
  BY DEF Plans
<1>2. routes' = HTTPRoutes(L) /\ listed' = L.routes
  BY DEF Apply
<1>3. DOMAIN routes' = (0 .. Len(L.routes) - 1) \X (flows \cup {Baseline})
  BY <1>1, <1>2, RoutesAre
<1>4. RouteIs(L, x, routes'[x])
  BY <1>1, <1>2, RoutesAre
<1> QED BY <1>2, <1>3, <1>4 DEF RouteIs

(* What a reference was rewritten to.                                       *)
LEMMA RewrittenIs ==
  ASSUME NEW S, NEW F, NEW L, Planned(L, S, F), NEW k \in DOMAIN L.routes, NEW f, NEW j,
         NEW p, Rewritten(L, k, f, j, p)
  PROVE  /\ j \in DOMAIN Backends[L.routes[k]]
         /\ p.app = Backends[L.routes[k]][j] /\ p.app \in S
         /\ p.flow = f /\ f \in F \cup {Baseline}
         /\ p.name = Joined(p.app, f)
<1>1. p \in References(L, RouteLists(L)) /\ p.flow = f /\ p.at = <<Turn(L, f), k, j>>
  BY DEF Rewritten, AddedOf, Added
<1>2. Placed(RouteLists(L)) /\ Present(L) = S
  BY ListsAre
<1>3. PICK kk \in DOMAIN RouteLists(L) : \E jj \in DOMAIN RouteLists(L)[kk] :
           /\ p.flow \in ActiveFlowIDs(L) /\ p.at = <<Turn(L, p.flow), kk, jj>>
           /\ p.app = RouteLists(L)[kk][jj] /\ p.app \in Present(L)
           /\ p.name = Joined(p.app, p.flow)
  BY <1>1, <1>2, ReferencesAre
<1>4. PICK jj \in DOMAIN RouteLists(L)[kk] :
           /\ p.flow \in ActiveFlowIDs(L) /\ p.at = <<Turn(L, p.flow), kk, jj>>
           /\ p.app = RouteLists(L)[kk][jj] /\ p.app \in Present(L)
           /\ p.name = Joined(p.app, p.flow)
  BY <1>3
<1>5. kk = k /\ jj = j
  BY <1>1, <1>4
<1>6. RouteLists(L)[k] = Backends[L.routes[k]]
  BY ListsAre
<1> QED BY <1>1, <1>2, <1>4, <1>5, <1>6, TurnIsPlace

LEMMA RoutesReachByApply ==
  ASSUME IInv, NEW L, Plans(L), Apply(L)
  PROVE  RoutesReachVersions'
<1>1. Planned(L, services, flows) /\ UNCHANGED <<flows, services, own>>
  BY DEF Plans, Apply, Ends, input
<1>2. fronts' = [n \in DOMAIN FrontServices(L) \ services |-> FrontServices(L)[n]]
  BY DEF Apply, Unless
<1>3. ASSUME NEW x \in DOMAIN routes', NEW j \in DOMAIN routes'[x].backends,
             NEW i, i = Original(x, j)', NEW n, n = routes'[x].backends[j],
             n # i, n \notin services
      PROVE  /\ n \in DOMAIN fronts' /\ fronts'[n].app = i
             /\ fronts'[n].version \in {x[2], Label[i]}
             /\ n \notin own =>
                  (fronts'[n].version = x[2] <=> x[2] \in Rendered(i)' \cup {Label[i]})
  <2>1. /\ RouteIs(L, x, routes'[x]) /\ x[1] + 1 \in DOMAIN L.routes
        /\ listed' = L.routes
    BY RoutesByApply
  <2>11. i = Backends[L.routes[x[1] + 1]][j]
    BY <1>3, <2>1 DEF Original
  <2>2. PICK p : Rewritten(L, x[1] + 1, x[2], j, p) /\ n = p.name
    BY <1>3, <2>1, <2>11 DEF RouteIs
  <2>3. /\ p.app = i /\ i \in services /\ p.flow = x[2]
        /\ n = Joined(i, x[2])
    BY <1>1, <2>1, <2>2, <2>11, RewrittenIs
  <2>4. p \in AddedOf(L, RouteLists(L))
    BY <2>2 DEF Rewritten
  <2>10. /\ p.name \in DOMAIN FrontServices(L)
        /\ FrontServices(L)[p.name] = [app |-> p.app, version |-> VersionFor(L, p.app, p.flow)]
    BY <1>1, <2>4, FrontServicesAre
  <2>5. /\ n \in DOMAIN FrontServices(L)
        /\ FrontServices(L)[n] = [app |-> i, version |-> VersionFor(L, i, x[2])]
    BY <2>2, <2>3, <2>10
  <2>6. n \in DOMAIN fronts' /\ fronts'[n] = [app |-> i, version |-> VersionFor(L, i, x[2])]
    BY <1>2, <1>3, <2>5
  <2>7. /\ fronts'[n].app = i /\ fronts'[n].version = VersionFor(L, i, x[2])
    BY <2>6
  <2>8. n \notin own =>
          (x[2] \in Versions(L, i) <=> x[2] \in Rendered(i)' \cup {Label[i]})
    <3>1. Label[i] \in Versions(L, i)
      BY DEF Versions
    <3>2. x[2] \in Rendered(i)' <=>
            x[2] \in Versions(L, i) /\ x[2] # Label[i] /\ Joined(i, x[2]) \notin own
      BY <2>3, RenderedIs
    <3> QED BY <2>3, <3>1, <3>2
  <2>9. /\ VersionFor(L, i, x[2]) \in {x[2], Label[i]}
        /\ VersionFor(L, i, x[2]) = x[2] <=> x[2] \in Versions(L, i)
    BY VersionIs
  <2> QED BY <2>6, <2>7, <2>8, <2>9
<1> QED BY <1>1, <1>3 DEF RoutesReachVersions

(* Nobody who comes in at an entry point of a flow is led to another flow's *)
(* version, or past the flow's own (topology.go 515-527, 581-593).          *)
THEOREM RoutesReachCorrect == Spec => []RoutesReachVersions
<1>1. Init => RoutesReachVersions
  BY DEF Init, RoutesReachVersions, Settled
<1>2. IInv /\ RoutesReachVersions /\ [Next]_vars => RoutesReachVersions'
  <2> SUFFICES ASSUME IInv, RoutesReachVersions, [Next]_vars, Settled'
               PROVE  RoutesReachVersions'
    BY DEF RoutesReachVersions
  <2>1. CASE UNCHANGED vars
    BY <2>1 DEF vars, input, managed, RoutesReachVersions, Settled, Rendered, Original
  <2> QED BY <2>1, OnlyApply, RoutesReachByApply
<1> QED BY <1>1, <1>2, IInvInductive, PTL DEF Spec

-----------------------------------------------------------------------------
(* What a host becomes.                                                     *)
LEMMA LongHost ==
  ASSUME NEW T, NEW h \in Seq(T), NEW f, Len(h) >= 2
  PROVE  Parent(h) \in Seq(T) /\ Len(Parent(h)) >= 2 /\ Hostname(h, f) = <<f>> \o Parent(h)
<1> DEFINE l == Len(h)
<1>1. l \in Nat /\ h # <<>> /\ l >= 2
  OBVIOUS
<1>2. Tail(h) \in Seq(T) /\ Len(Tail(h)) = l - 1
  BY <1>1, HeadTailProperties
<1>3. /\ Parent(h) = IF l > 2 THEN Tail(h) ELSE h
      /\ Hostname(h, f) = IF l < 2 THEN h ELSE <<f>> \o (IF l = 2 THEN h ELSE Tail(h))
  BY DEF Hostname, Parent
<1>4. Len(h) = l
  OBVIOUS
<1> HIDE DEF l
<1>5. (l > 2 \/ l = 2) /\ ~(l < 2) /\ (l > 2 => l # 2 /\ l - 1 >= 2) /\ (l = 2 => ~(l > 2))
  BY <1>1
<1>6. CASE l = 2
  <2>1. Parent(h) = h /\ Hostname(h, f) = <<f>> \o h
    BY <1>3, <1>5, <1>6
  <2> QED BY <1>1, <1>4, <2>1
<1>7. CASE l > 2
  <2>1. Parent(h) = Tail(h) /\ Hostname(h, f) = <<f>> \o Tail(h)
    BY <1>3, <1>5, <1>7
  <2> QED BY <1>2, <1>5, <1>7, <2>1
<1> QED BY <1>5, <1>6, <1>7

LEMMA SamePrefix ==
  ASSUME NEW T, NEW s \in Seq(T), NEW t \in Seq(T), NEW f, NEW e,
         <<f>> \o s = <<e>> \o t
  PROVE  f = e /\ s = t
<1> DEFINE X == T \cup {f, e}
<1>1. s \in Seq(X) /\ t \in Seq(X) /\ <<f>> \in Seq(X) /\ <<e>> \in Seq(X)
  BY SeqMonotonic
<1> HIDE DEF X
<1>2. (<<f>> \o s)[1] = f /\ (<<e>> \o t)[1] = e
  BY <1>1, ConcatProperties
<1>3. f = e
  BY <1>2
<1>4. s = t
  BY <1>1, <1>3, ConcatSimplifications
<1> QED BY <1>3, <1>4

LEMMA SameHost ==
  ASSUME NEW T, NEW h \in Seq(T), NEW g \in Seq(T), NEW f, NEW e,
         Hostname(h, f) = Hostname(g, e)
  PROVE  (Len(h) < 2 /\ h = g) \/ (f = e /\ Parent(h) = Parent(g))
<1>1. Len(h) \in Nat /\ Len(g) \in Nat
  OBVIOUS
<1>2. Len(h) < 2 => Hostname(h, f) = h
  BY <1>1 DEF Hostname
<1>3. Len(g) < 2 => Hostname(g, e) = g
  BY <1>1 DEF Hostname
<1>4. ASSUME NEW u \in Seq(T), NEW d, Len(u) >= 2
      PROVE  Len(Hostname(u, d)) >= 2
  <2>1. Parent(u) \in Seq(T) /\ Hostname(u, d) = <<d>> \o Parent(u) /\ Len(Parent(u)) >= 2
    BY <1>4, LongHost
  <2>2. Parent(u) \in Seq(T \cup {d}) /\ <<d>> \in Seq(T \cup {d})
    BY <2>1, SeqMonotonic
  <2>3. Len(<<d>> \o Parent(u)) = Len(<<d>>) + Len(Parent(u))
    BY <2>2, ConcatProperties
  <2>4. Len(<<d>>) = 1 /\ Len(Parent(u)) \in Nat
    BY <2>1
  <2> QED BY <2>1, <2>3, <2>4
<1>5. CASE Len(h) < 2 /\ Len(g) < 2
  BY <1>2, <1>3, <1>5
<1>6. CASE Len(h) < 2 /\ Len(g) >= 2
  <2>1. Len(Hostname(g, e)) >= 2
    BY <1>4, <1>6
  <2> QED BY <1>1, <1>2, <1>6, <2>1
<1>7. CASE Len(h) >= 2 /\ Len(g) < 2
  <2>1. Len(Hostname(h, f)) >= 2
    BY <1>4, <1>7
  <2> QED BY <1>1, <1>3, <1>7, <2>1
<1>8. CASE Len(h) >= 2 /\ Len(g) >= 2
  <2>1. /\ Parent(h) \in Seq(T) /\ Hostname(h, f) = <<f>> \o Parent(h)
        /\ Parent(g) \in Seq(T) /\ Hostname(g, e) = <<e>> \o Parent(g)
    BY <1>8, LongHost
  <2>2. <<f>> \o Parent(h) = <<e>> \o Parent(g)
    BY <2>1
  <2>3. f = e /\ Parent(h) = Parent(g)
    BY <2>1, <2>2, SamePrefix, Zenon
  <2> QED BY <2>3
<1> QED BY <1>1, <1>5, <1>6, <1>7, <1>8

LEMMA HostsByApply ==
  ASSUME IInv, NEW L, Plans(L), Apply(L)
  PROVE  HostsApart'
<1>1. Planned(L, services, flows)
  BY DEF Plans
<1>2. ASSUME NEW x \in DOMAIN routes'
      PROVE  /\ Host[listed'[x[1] + 1]] \in Seq(Hosts)
             /\ routes'[x].host = Hostname(Host[listed'[x[1] + 1]], x[2])
  <2>1. RouteIs(L, x, routes'[x]) /\ listed' = L.routes /\ x[1] + 1 \in DOMAIN L.routes
    BY RoutesByApply
  <2>2. L.routes[x[1] + 1] \in Routes
    BY <1>1, <2>1, ListsAre
  <2> QED BY <2>1, <2>2, RouteAssumption DEF RouteIs
<1>3. ASSUME NEW x \in DOMAIN routes', NEW y \in DOMAIN routes',
             routes'[x].host = routes'[y].host
      PROVE  LET h == Host[listed'[x[1] + 1]]  g == Host[listed'[y[1] + 1]] IN
             (Len(h) < 2 /\ h = g) \/ (x[2] = y[2] /\ Parent(h) = Parent(g))
  BY <1>2, <1>3, SameHost
<1> QED BY <1>3 DEF HostsApart

(* No entry point of a flow is another's, for hosts of any length           *)
(* (topology/utils.go 13, topology.go 574).                                 *)
THEOREM HostsCorrect == Spec => []HostsApart
<1>1. Init => HostsApart
  BY DEF Init, HostsApart, Settled
<1>2. IInv /\ HostsApart /\ [Next]_vars => HostsApart'
  <2> SUFFICES ASSUME IInv, HostsApart, [Next]_vars, Settled' PROVE HostsApart'
    BY DEF HostsApart
  <2>1. CASE UNCHANGED vars
    BY <2>1 DEF vars, input, managed, HostsApart, Settled
  <2> QED BY <2>1, OnlyApply, HostsByApply
<1> QED BY <1>1, <1>2, IInvInductive, PTL DEF Spec

-----------------------------------------------------------------------------
LEMMA SoundPlans ==
  ASSUME TypeOK, Sound, NEW L, Plans(L)
  PROVE  Verdict(L) = "ok"
<1>1. /\ Planned(L, services, flows)
      /\ \A i \in services : L.source[i] \in Images(i)
  BY DEF Plans
<1>2. /\ services # {} /\ services \cap Portless = {}
      /\ \A e \in Edges : e[1] \in services => e[2] \in services
      /\ \A f \in flows : Target[f] \in services
      /\ \A i \in services : i \in Stateful \cup {Target[f] : f \in flows} => Images(i) # {None}
  BY DEF Sound
<1>3. /\ Present(L) = services
      /\ ToSet(L.services) = services /\ ToSet(L.flows) = flows
  BY <1>1, SubsetsFinite, ListOfSet, ListsAre DEF Planned
<1>4. \A i \in services : i \in Stateful \cup {Target[f] : f \in flows} => L.source[i] # None
  BY <1>1, <1>2, SomeImage
<1>5. ~Unresolved(L)
  BY <1>2, <1>3 DEF Unresolved
<1>6. L.services # <<>>
  BY <1>2, <1>3 DEF ToSet
<1>7. \A a \in DOMAIN L.flows : L.flows[a] \in flows
  BY <1>3 DEF ToSet
<1>8. Unknown(L) = {}
  BY <1>2, <1>3, <1>7 DEF Unknown
<1>9. Undeployed(L) = {}
  BY <1>2, <1>4, <1>7 DEF Undeployed
<1>10. ~Unrenderable(L)
  <2>1. ASSUME NEW d \in Deployments(L), d.image = None PROVE FALSE
    <3>1. /\ d.app \in services /\ d.version \in flows
          /\ d.app \in L.isolated[d.version] /\ d.image = Image(L, d.app, d.version)
      BY <1>1, <1>2, DeploymentsAre
    <3>2. d.version # None
      BY <3>1, FlowAssumption DEF TypeOK
    <3>3. d.app # Target[d.version] /\ L.source[d.app] = None
      BY <2>1, <3>1, <3>2 DEF Image
    <3>4. d.app \in Stateful
      BY <1>1, <1>2, <3>1, <3>3 DEF Planned
    <3> QED BY <1>4, <3>1, <3>3, <3>4
  <2>2. Present(L) \cap Portless = {}
    BY <1>2, <1>3
  <2> QED BY <2>1, <2>2 DEF Unrenderable
<1> QED BY <1>5, <1>6, <1>8, <1>9, <1>10 DEF Verdict

(* What refuses a Deployment is still there afterwards.                     *)
LEMMA RefusedIsAmbiguous ==
  ASSUME IInv, NEW L, Plans(L), StopApplying(L)
  PROVE  ~Unambiguous'
<1>1. /\ Planned(L, services, flows) /\ Verdict(L) = "ok"
      /\ UNCHANGED <<services, flows>>
  BY DEF Plans, StopApplying, Ends, input
<1>2. \A f \in flows : Target[f] \in services
  BY <1>1, PlanIsSound
<1> DEFINE W == Written(L)
           U == Unrefused(W)
           b == ByName(U)
<1>3. \A d \in W : d \in Deployments(L)
  BY DEF Written
<1>4. \A d \in W : /\ d.app \in services /\ d.version \in flows
                   /\ d.name = Joined(d.app, d.version) /\ d.at \in Nat \X Nat
  BY <1>1, <1>2, <1>3, DeploymentsAre
<1>5. /\ Unclashing(U) /\ \A d \in U : d \in W /\ d \notin Refused(W)
  BY <1>1, <1>2, UnrefusedUnclashing DEF Unrefused
<1>6. /\ DOMAIN b = {d.name : d \in U}
      /\ \A d \in U : b[d.name] = [app |-> d.app, version |-> d.version, image |-> d.image]
  BY <1>5, ByNameIs
<1>7. Refused(W) # {} /\ deployments' = Over(b, deployments)
  BY DEF StopApplying, Unrefused
<1>8. PICK d \in Refused(W) : TRUE
  BY <1>7
<1>9. /\ d \in W
      /\ \/ \E e \in W : e.name = d.name /\ Lexical(e.at, d.at)
         \/ /\ d.name \in DOMAIN deployments
            /\ deployments[d.name].app # d.app \/ deployments[d.name].version # d.version
  BY <1>8 DEF Refused
<1> HIDE DEF W, U, b
<1>10. ASSUME Unambiguous' PROVE FALSE
  <2>1. \A p \in services : \A v \in flows :
          /\ \A q \in services : \A w \in flows :
               Joined(p, v) = Joined(q, w) => p = q /\ v = w
          /\ \A n \in DOMAIN deployments' :
               Joined(p, v) = Joined(deployments'[n].app, deployments'[n].version) =>
                 p = deployments'[n].app /\ v = deployments'[n].version
    <3> SUFFICES ASSUME NEW p \in services, NEW v \in flows
                 PROVE  /\ \A q \in services : \A w \in flows :
                             Joined(p, v) = Joined(q, w) => p = q /\ v = w
                        /\ \A n \in DOMAIN deployments' :
                             Joined(p, v) = Joined(deployments'[n].app, deployments'[n].version) =>
                               p = deployments'[n].app /\ v = deployments'[n].version
      OBVIOUS
    <3> DEFINE x == <<p, v>>
               Y == (services \X flows) \cup
                    {<<deployments'[n].app, deployments'[n].version>> : n \in DOMAIN deployments'}
    <3>1. x \in services \X flows /\ x[1] = p /\ x[2] = v
      OBVIOUS
    <3>2. \A y \in Y : Joined(x[1], x[2]) = Joined(y[1], y[2]) => x = y
      BY <1>1, <1>10, <3>1 DEF Unambiguous
    <3>3. ASSUME NEW q, NEW w, <<q, w>> \in Y, Joined(p, v) = Joined(q, w)
          PROVE  p = q /\ v = w
      BY <3>1, <3>2, <3>3
    <3>4. /\ \A q \in services : \A w \in flows : <<q, w>> \in Y
          /\ \A n \in DOMAIN deployments' : <<deployments'[n].app, deployments'[n].version>> \in Y
      OBVIOUS
    <3> HIDE DEF Y
    <3> QED BY <3>3, <3>4
  <2>2. ASSUME NEW e \in W, e.name = d.name PROVE e = d
    BY <1>1, <1>2, <1>3, <1>4, <1>9, <2>1, <2>2, DeploymentsAre
  <2>3. ~Lexical(d.at, d.at)
    BY <1>4, <1>9, LexicalIrreflexive
  <2>4. /\ d.name \in DOMAIN deployments
        /\ deployments[d.name].app # d.app \/ deployments[d.name].version # d.version
    BY <1>9, <2>2, <2>3
  <2>5. d.name \notin DOMAIN b
    <3>1. ASSUME NEW e \in U, e.name = d.name PROVE FALSE
      BY <1>5, <1>8, <2>2, <3>1
    <3> QED BY <1>6, <3>1
  <2>6. d.name \in DOMAIN deployments' /\ deployments'[d.name] = deployments[d.name]
    BY <1>7, <2>4, <2>5 DEF Over
  <2>7. d.name = Joined(deployments[d.name].app, deployments[d.name].version)
    BY <2>4 DEF IInv, NamesKept
  <2> QED BY <1>4, <1>9, <2>1, <2>4, <2>6, <2>7
<1> QED BY <1>10

LEMMA OthersReport ==
  ASSUME Others, outcome' # "changed"
  PROVE  \E L : Plans(L) /\ StopPlanning(L)
BY DEF Others, FlowEvent, AddService, RemoveService, AddDeployment, RemoveDeployment, UserChange

(* In a cluster in order every pass is applied, whatever earlier passes met *)
(* (topology.go 188, 724, reconciler.go 46-51, service.go 63, 78, 199).     *)
THEOREM AppliedCorrect == Spec => []AppliedWhenSound
<1>1. Init => AppliedWhenSound
  BY DEF Init, AppliedWhenSound
<1>2. IInv /\ AppliedWhenSound /\ [Next]_vars => AppliedWhenSound'
  <2> SUFFICES ASSUME IInv, AppliedWhenSound, [Next]_vars PROVE AppliedWhenSound'
    OBVIOUS
  <2>1. CASE UNCHANGED vars
    BY <2>1 DEF vars, input, managed, AppliedWhenSound, Settled, Sound, Unambiguous, Images
  <2>2. CASE Next
    <3>1. ASSUME NEW L, Plans(L), Apply(L) PROVE AppliedWhenSound'
      BY <3>1 DEF Apply, Ends, AppliedWhenSound, Settled
    <3>2. ASSUME NEW L, Plans(L), StopApplying(L) PROVE AppliedWhenSound'
      BY <3>2, RefusedIsAmbiguous DEF AppliedWhenSound
    <3>3. ASSUME NEW L, Plans(L), StopPlanning(L) PROVE AppliedWhenSound'
      <4>1. ~Sound
        BY <3>3, SoundPlans DEF StopPlanning, IInv
      <4>2. UNCHANGED <<flows, services, own, deployments>>
        BY <3>3 DEF StopPlanning, Ends, input, managed
      <4>3. \A i \in services : Images(i)' = Images(i)
        BY <4>2 DEF Images
      <4>4. ~Sound'
        BY <4>1, <4>2, <4>3 DEF Sound
      <4> QED BY <4>4 DEF AppliedWhenSound
    <3>4. CASE outcome' = "changed"
      BY <3>4 DEF AppliedWhenSound
    <3> QED BY <2>2, <3>1, <3>2, <3>3, <3>4, PassIsOne, OthersReport DEF IInv
  <2> QED BY <2>1, <2>2
<1> QED BY <1>1, <1>2, IInvInductive, PTL DEF Spec

-----------------------------------------------------------------------------
LEMMA MentionIsRewritten ==
  ASSUME IInv, NEW L, Plans(L), Apply(L), NEW f \in flows \cup {Baseline}, NEW i \in services,
         NEW m \in Mentions(i, f)'
  PROVE  \E x \in DOMAIN routes' : \E j :
           /\ m = <<x, j>> /\ x[2] = f
           /\ \E p : Rewritten(L, x[1] + 1, f, j, p) /\ p.name = Joined(i, f)
<1>1. PICK x \in DOMAIN routes' :
        /\ x[2] = f
        /\ m \in {<<x, j>> : j \in {n \in DOMAIN routes'[x].backends :
                    Original(x, n)' = i /\ routes'[x].backends[n] = Joined(i, f)}}
  BY DEF Mentions
<1>2. PICK j \in DOMAIN routes'[x].backends :
        m = <<x, j>> /\ Original(x, j)' = i /\ routes'[x].backends[j] = Joined(i, f)
  BY <1>1
<1>3. /\ RouteIs(L, x, routes'[x]) /\ listed' = L.routes
  BY RoutesByApply
<1>4. Backends[L.routes[x[1] + 1]][j] = i
  BY <1>2, <1>3 DEF Original
<1>5. Joined(i, f) # i
  BY NameAssumption DEF IInv, TypeOK
<1>6. PICK p : Rewritten(L, x[1] + 1, x[2], j, p) /\ routes'[x].backends[j] = p.name
  BY <1>2, <1>3, <1>4, <1>5 DEF RouteIs
<1> QED BY <1>1, <1>2, <1>6

LEMMA OneMention ==
  ASSUME IInv, NEW L, Plans(L), Apply(L), NEW f \in flows \cup {Baseline}, NEW i \in services
  PROVE  Cardinality(Mentions(i, f)') <= 1
<1>1. Planned(L, services, flows)
  BY DEF Plans
<1>2. ASSUME NEW m \in Mentions(i, f)', NEW n \in Mentions(i, f)'
      PROVE  m = n
  <2>1. PICK x \in DOMAIN routes' : \E j :
           /\ m = <<x, j>> /\ x[2] = f
           /\ \E p : Rewritten(L, x[1] + 1, f, j, p) /\ p.name = Joined(i, f)
    BY MentionIsRewritten
  <2>2. PICK j :
           /\ m = <<x, j>> /\ x[2] = f
           /\ \E p : Rewritten(L, x[1] + 1, f, j, p) /\ p.name = Joined(i, f)
    BY <2>1
  <2>3. PICK p : Rewritten(L, x[1] + 1, f, j, p) /\ p.name = Joined(i, f)
    BY <2>2
  <2>4. PICK y \in DOMAIN routes' : \E k :
           /\ n = <<y, k>> /\ y[2] = f
           /\ \E q : Rewritten(L, y[1] + 1, f, k, q) /\ q.name = Joined(i, f)
    BY MentionIsRewritten
  <2>5. PICK k :
           /\ n = <<y, k>> /\ y[2] = f
           /\ \E q : Rewritten(L, y[1] + 1, f, k, q) /\ q.name = Joined(i, f)
    BY <2>4
  <2>6. PICK q : Rewritten(L, y[1] + 1, f, k, q) /\ q.name = Joined(i, f)
    BY <2>5
  <2>7. p = q
    <3>1. /\ p \in Added(References(L, RouteLists(L))) /\ q \in Added(References(L, RouteLists(L)))
          /\ p.name = q.name
      BY <2>3, <2>6 DEF Rewritten, AddedOf
    <3>2. Placed(RouteLists(L))
      BY <1>1, ListsAre
    <3> QED BY <1>1, <3>1, <3>2, AddedApart
  <2>8. x[1] + 1 = y[1] + 1 /\ j = k
    BY <2>3, <2>6, <2>7 DEF Rewritten
  <2>9. x \in Nat \X (flows \cup {Baseline}) /\ y \in Nat \X (flows \cup {Baseline})
    <3>1. DOMAIN routes' = (0 .. Len(L.routes) - 1) \X (flows \cup {Baseline})
      BY <1>1, RoutesAre DEF Apply
    <3>2. 0 .. Len(L.routes) - 1 \subseteq Nat
      BY <1>1, ListsAre
    <3> QED BY <3>1, <3>2
  <2>10. x = y
    BY <2>2, <2>5, <2>8, <2>9
  <2> QED BY <2>2, <2>5, <2>8, <2>10
<1> DEFINE M == Mentions(i, f)'
<1>3. CASE M = {}
  BY <1>3, FS_EmptySet
<1>4. CASE M # {}
  <2>1. PICK m : m \in M
    BY <1>4
  <2>2. M = {m}
    BY <1>2, <2>1
  <2> HIDE DEF M
  <2>3. Cardinality({m}) = 1
    BY FS_Singleton
  <2> QED BY <2>2, <2>3 DEF M
<1> QED BY <1>3, <1>4

LEMMA SomeMention ==
  ASSUME IInv, NEW L, Plans(L), Apply(L), NEW f \in flows \cup {Baseline}, NEW i \in services,
         NEW r \in Routes, i \in ToSet(Backends[r]),
         \A h \in services : \A g \in flows \cup {Baseline} :
           Joined(h, g) = Joined(i, f) => h = i /\ g = f
  PROVE  Mentions(i, f)' # {}
<1>1. Planned(L, services, flows)
  BY DEF Plans
<1>2. /\ Placed(RouteLists(L)) /\ Present(L) = services
      /\ DOMAIN RouteLists(L) = DOMAIN L.routes /\ ToSet(L.routes) = Routes
      /\ \A k \in DOMAIN L.routes : RouteLists(L)[k] = Backends[L.routes[k]]
      /\ DOMAIN L.routes = 1 .. Len(L.routes) /\ Len(L.routes) \in Nat
  BY <1>1, ListsAre
<1>3. PICK k \in DOMAIN L.routes : L.routes[k] = r
  BY <1>2 DEF ToSet
<1>4. PICK j \in DOMAIN Backends[r] : Backends[r][j] = i
  BY DEF ToSet
<1> DEFINE ref == ReferenceAt(L, RouteLists(L), f, k, j)
<1>5. RouteLists(L)[k] = Backends[r] /\ RouteLists(L)[k][j] = i
  BY <1>2, <1>3, <1>4
<1>6. ref \in References(L, RouteLists(L))
  <2>1. f \in ActiveFlowIDs(L) /\ k \in DOMAIN RouteLists(L)
    BY <1>1, <1>2, TurnIsPlace
  <2>2. j \in DOMAIN RouteLists(L)[k] /\ RouteLists(L)[k][j] \in Present(L)
    BY <1>2, <1>4, <1>5
  <2> QED BY <2>1, <2>2, EveryReference
<1>7. ref.name = Joined(i, f)
  BY <1>5 DEF ReferenceAt
<1> HIDE DEF ref
<1>8. PICK p \in AddedOf(L, RouteLists(L)) : p.name = Joined(i, f)
  BY <1>1, <1>2, <1>6, <1>7, FirstIsAdded
<1>9. p \in References(L, RouteLists(L))
  BY DEF AddedOf, Added
<1>10. PICK kk \in DOMAIN RouteLists(L) : \E jj \in DOMAIN RouteLists(L)[kk] :
           /\ p.flow \in ActiveFlowIDs(L) /\ p.at = <<Turn(L, p.flow), kk, jj>>
           /\ p.app = RouteLists(L)[kk][jj] /\ p.app \in Present(L)
           /\ p.name = Joined(p.app, p.flow)
  BY <1>1, <1>2, <1>9, ReferencesAre
<1>11. PICK jj \in DOMAIN RouteLists(L)[kk] :
           /\ p.flow \in ActiveFlowIDs(L) /\ p.at = <<Turn(L, p.flow), kk, jj>>
           /\ p.app = RouteLists(L)[kk][jj] /\ p.app \in Present(L)
           /\ p.name = Joined(p.app, p.flow)
  BY <1>10
<1>12. p.app = i /\ p.flow = f
  BY <1>1, <1>2, <1>8, <1>11, TurnIsPlace
<1>13. Rewritten(L, kk, f, jj, p)
  BY <1>8, <1>11, <1>12 DEF Rewritten
<1> DEFINE x == <<kk - 1, f>>
<1>14. /\ x \in DOMAIN routes' /\ x[1] + 1 = kk /\ x[2] = f
  <2>1. DOMAIN routes' = (0 .. Len(L.routes) - 1) \X (flows \cup {Baseline})
    BY <1>1, RoutesAre DEF Apply
  <2>2. kk \in 1 .. Len(L.routes)
    BY <1>2
  <2>3. kk - 1 \in 0 .. Len(L.routes) - 1 /\ kk - 1 + 1 = kk
    BY <1>2, <2>2
  <2> QED BY <2>1, <2>3
<1> HIDE DEF x
<1>15. /\ RouteIs(L, x, routes'[x]) /\ listed' = L.routes
  BY <1>14, RoutesByApply
<1>16. jj \in DOMAIN routes'[x].backends /\ Backends[L.routes[kk]][jj] = i
  BY <1>2, <1>11, <1>12, <1>14, <1>15 DEF RouteIs
<1>17. PICK q : Rewritten(L, kk, f, jj, q) /\ routes'[x].backends[jj] = q.name
  BY <1>13, <1>14, <1>15, <1>16 DEF RouteIs
<1>18. q.name = Joined(i, f)
  BY <1>1, <1>2, <1>16, <1>17, RewrittenIs
<1>19. Original(x, jj)' = i
  BY <1>14, <1>15, <1>16 DEF Original
<1>20. <<x, jj>> \in Mentions(i, f)'
  BY <1>14, <1>16, <1>17, <1>18, <1>19 DEF Mentions
<1> QED BY <1>20

LEMMA OneReferenceByApply ==
  ASSUME IInv, NEW L, Plans(L), Apply(L)
  PROVE  OneReferenceEach'
<1>1. UNCHANGED <<flows, services>>
  BY DEF Apply, Ends, input
<1>2. ASSUME NEW f \in flows \cup {Baseline},
             NEW i \in services \cap UNION {ToSet(Backends[r]) : r \in Routes}
      PROVE  /\ Cardinality(Mentions(i, f)') <= 1
             /\ Mentions(i, f)' = {} =>
                  \E j \in services : \E g \in flows \cup {Baseline} :
                    <<j, g>> # <<i, f>> /\ Joined(j, g) = Joined(i, f)
  <2>1. Cardinality(Mentions(i, f)') <= 1
    BY OneMention
  <2>2. ASSUME Mentions(i, f)' = {},
               \A j \in services : \A g \in flows \cup {Baseline} :
                 Joined(j, g) = Joined(i, f) => j = i /\ g = f
        PROVE  FALSE
    <3>1. PICK r \in Routes : i \in ToSet(Backends[r])
      OBVIOUS
    <3> QED BY <2>2, <3>1, SomeMention
  <2> QED BY <2>1, <2>2
<1> QED BY <1>1, <1>2 DEF OneReferenceEach

(* However routes and rules repeat a backend, a flow has one reference to   *)
(* its version of it and no more (topology.go 588-594).                     *)
THEOREM OneReferenceCorrect == Spec => []OneReferenceEach
<1>1. Init => OneReferenceEach
  BY DEF Init, OneReferenceEach, Settled
<1>2. IInv /\ OneReferenceEach /\ [Next]_vars => OneReferenceEach'
  <2> SUFFICES ASSUME IInv, OneReferenceEach, [Next]_vars, Settled' PROVE OneReferenceEach'
    BY DEF OneReferenceEach
  <2>1. CASE UNCHANGED vars
    BY <2>1 DEF vars, input, managed, OneReferenceEach, Settled, Mentions, Original
  <2> QED BY <2>1, OnlyApply, OneReferenceByApply
<1> QED BY <1>1, <1>2, IInvInductive, PTL DEF Spec

-----------------------------------------------------------------------------
(* What the order of the list of routes leaves of a backend whose name no   *)
(* other has: the first reference is the one that is rewritten.             *)
First(x, j) ==
  \A k \in DOMAIN listed : \A m \in DOMAIN Backends[listed[k]] :
    Backends[listed[k]][m] = Original(x, j) => ~Lexical(<<k, m>>, <<x[1] + 1, j>>)
RoutesKept ==
  Settled =>
    /\ DOMAIN routes = (0 .. Len(listed) - 1) \X (flows \cup {Baseline})
    /\ \A x \in DOMAIN routes :
         /\ routes[x].host = Hostname(Host[listed[x[1] + 1]], x[2])
         /\ DOMAIN routes[x].backends = DOMAIN Backends[listed[x[1] + 1]]
         /\ \A j \in DOMAIN routes[x].backends :
              Alone(Original(x, j), x[2]) =>
                routes[x].backends[j] =
                  IF Original(x, j) \in services /\ First(x, j)
                  THEN Joined(Original(x, j), x[2]) ELSE Original(x, j)

LEMMA LexicalPrefix ==
  ASSUME NEW a \in Nat, NEW k \in Nat, NEW j \in Nat, NEW l \in Nat, NEW m \in Nat
  PROVE  Lexical(<<a, k, j>>, <<a, l, m>>) <=> Lexical(<<k, j>>, <<l, m>>)
<1>1. Lexical(<<k, j>>, <<l, m>>) <=> k < l \/ (k = l /\ j < m)
  <2> DEFINE p == <<k, j>>
             q == <<l, m>>
  <2>1. DOMAIN p = {1, 2} /\ p[1] = k /\ p[2] = j /\ q[1] = l /\ q[2] = m
    OBVIOUS
  <2> HIDE DEF p, q
  <2>2. k < l => Lexical(p, q)
    BY <2>1 DEF Lexical
  <2>3. k = l /\ j < m => Lexical(p, q)
    <3>1. k = l => \A n \in 1 .. 2 - 1 : p[n] = q[n]
      BY <2>1
    <3> QED BY <2>1, <3>1 DEF Lexical
  <2>4. Lexical(p, q) => k < l \/ (k = l /\ j < m)
    <3> SUFFICES ASSUME Lexical(p, q) PROVE k < l \/ (k = l /\ j < m)
      OBVIOUS
    <3>1. PICK n \in {1, 2} : p[n] < q[n] /\ \A o \in 1 .. n - 1 : p[o] = q[o]
      BY <2>1 DEF Lexical
    <3>2. CASE n = 1
      <4>1. p[1] < q[1]
        BY <3>1, <3>2
      <4> QED BY <2>1, <4>1
    <3>3. CASE n = 2
      <4>1. p[1] = q[1]
        BY <3>1, <3>3
      <4> QED BY <2>1, <3>1, <3>3, <4>1
    <3> QED BY <3>1, <3>2, <3>3
  <2> QED BY <2>2, <2>3, <2>4 DEF p, q
<1>2. Lexical(<<a, k, j>>, <<a, l, m>>) <=> k < l \/ (k = l /\ j < m)
  <2> DEFINE p == <<a, k, j>>
             q == <<a, l, m>>
  <2>1. /\ DOMAIN p = {1, 2, 3} /\ p[1] = a /\ p[2] = k /\ p[3] = j
        /\ q[1] = a /\ q[2] = l /\ q[3] = m
    OBVIOUS
  <2> HIDE DEF p, q
  <2>2. k < l => Lexical(p, q)
    <3>1. \A n \in 1 .. 2 - 1 : p[n] = q[n]
      BY <2>1
    <3> QED BY <2>1, <3>1 DEF Lexical
  <2>3. k = l /\ j < m => Lexical(p, q)
    <3>1. k = l => \A n \in 1 .. 3 - 1 : p[n] = q[n]
      BY <2>1
    <3> QED BY <2>1, <3>1 DEF Lexical
  <2>4. Lexical(p, q) => k < l \/ (k = l /\ j < m)
    <3> SUFFICES ASSUME Lexical(p, q) PROVE k < l \/ (k = l /\ j < m)
      OBVIOUS
    <3>1. PICK n \in {1, 2, 3} : p[n] < q[n] /\ \A o \in 1 .. n - 1 : p[o] = q[o]
      BY <2>1 DEF Lexical
    <3>2. CASE n = 1
      <4>1. p[1] < q[1]
        BY <3>1, <3>2
      <4> QED BY <2>1, <4>1
    <3>3. CASE n = 2
      <4>1. p[2] < q[2]
        BY <3>1, <3>3
      <4> QED BY <2>1, <4>1
    <3>4. CASE n = 3
      <4>1. p[2] = q[2]
        BY <3>1, <3>4
      <4> QED BY <2>1, <3>1, <3>4, <4>1
    <3> QED BY <3>1, <3>2, <3>3, <3>4
  <2> QED BY <2>2, <2>3, <2>4 DEF p, q
<1> QED BY <1>1, <1>2

(* Which reference is rewritten.                                            *)
LEMMA FirstIsRewritten ==
  ASSUME NEW S, NEW F, NEW L, Planned(L, S, F), NEW f \in F \cup {Baseline},
         NEW k \in DOMAIN L.routes, NEW j \in DOMAIN Backends[L.routes[k]],
         NEW i \in S, Backends[L.routes[k]][j] = i,
         \A l \in DOMAIN L.routes : \A m \in DOMAIN Backends[L.routes[l]] :
           Backends[L.routes[l]][m] = i => ~Lexical(<<l, m>>, <<k, j>>),
         \A h \in S : \A g \in F \cup {Baseline} :
           Joined(h, g) = Joined(i, f) => h = i /\ g = f
  PROVE  \E p : Rewritten(L, k, f, j, p)
<1> DEFINE lists == RouteLists(L)
           ref == ReferenceAt(L, lists, f, k, j)
<1>1. /\ Placed(lists) /\ Present(L) = S /\ DOMAIN lists = DOMAIN L.routes
      /\ \A l \in DOMAIN L.routes : lists[l] = Backends[L.routes[l]]
      /\ f \in ActiveFlowIDs(L) /\ Turn(L, f) \in Nat
  BY ListsAre, TurnIsPlace
<1>2. lists[k][j] = i /\ i \in S
  BY <1>1
<1>3. ref \in References(L, lists)
  BY <1>1, <1>2, EveryReference
<1>4. ref.name = Joined(i, f) /\ ref.at = <<Turn(L, f), k, j>>
  BY <1>2 DEF ReferenceAt
<1>5. k \in Nat /\ j \in Nat
  BY <1>1 DEF Placed
<1> HIDE DEF ref, lists
<1>6. PICK p \in AddedOf(L, lists) : p.name = Joined(i, f)
  BY <1>1, <1>3, <1>4, FirstIsAdded
<1>7. p \in References(L, lists) /\ ~Lexical(ref.at, p.at)
  BY <1>3, <1>4, <1>6 DEF AddedOf, Added
<1>8. PICK l \in DOMAIN lists : \E m \in DOMAIN lists[l] :
           /\ p.flow \in ActiveFlowIDs(L) /\ p.at = <<Turn(L, p.flow), l, m>>
           /\ p.app = lists[l][m] /\ p.app \in Present(L)
           /\ p.name = Joined(p.app, p.flow)
  BY <1>1, <1>7, ReferencesAre
<1>9. PICK m \in DOMAIN lists[l] :
           /\ p.flow \in ActiveFlowIDs(L) /\ p.at = <<Turn(L, p.flow), l, m>>
           /\ p.app = lists[l][m] /\ p.app \in Present(L)
           /\ p.name = Joined(p.app, p.flow)
  BY <1>8
<1>10. p.app = i /\ p.flow = f
  BY <1>1, <1>6, <1>9, TurnIsPlace
<1>11. l \in Nat /\ m \in Nat
  BY <1>1 DEF Placed
<1>12. ~Lexical(<<l, m>>, <<k, j>>)
  BY <1>1, <1>9, <1>10
<1>13. ~Lexical(<<k, j>>, <<l, m>>)
  BY <1>1, <1>4, <1>5, <1>7, <1>9, <1>10, <1>11, LexicalPrefix
<1>14. <<l, m>> = <<k, j>>
  BY <1>5, <1>11, <1>12, <1>13, LexicalTotal2
<1>15. l = k /\ m = j
  BY <1>14
<1>16. Rewritten(L, k, f, j, p)
  BY <1>6, <1>9, <1>10, <1>15 DEF Rewritten, lists
<1> QED BY <1>16

LEMMA RewrittenIsFirst ==
  ASSUME NEW S, NEW F, NEW L, Planned(L, S, F), NEW f,
         NEW k \in DOMAIN L.routes, NEW j, NEW p, Rewritten(L, k, f, j, p),
         NEW l \in DOMAIN L.routes, NEW m \in DOMAIN Backends[L.routes[l]],
         Backends[L.routes[l]][m] = Backends[L.routes[k]][j]
  PROVE  ~Lexical(<<l, m>>, <<k, j>>)
<1> DEFINE i == Backends[L.routes[k]][j]
           lists == RouteLists(L)
           ref == ReferenceAt(L, lists, f, l, m)
<1>1. /\ Placed(lists) /\ Present(L) = S /\ DOMAIN lists = DOMAIN L.routes
      /\ \A n \in DOMAIN L.routes : lists[n] = Backends[L.routes[n]]
  BY ListsAre
<1>2. /\ j \in DOMAIN Backends[L.routes[k]] /\ p.app = i /\ i \in S
      /\ f \in F \cup {Baseline} /\ p.name = Joined(i, f)
  BY RewrittenIs
<1>3. f \in ActiveFlowIDs(L) /\ Turn(L, f) \in Nat
  BY <1>2, TurnIsPlace
<1>4. lists[l][m] = i
  BY <1>1
<1>5. ref \in References(L, lists)
  BY <1>1, <1>2, <1>3, <1>4, EveryReference
<1>6. ref.name = Joined(i, f) /\ ref.at = <<Turn(L, f), l, m>>
  BY <1>4 DEF ReferenceAt
<1>7. k \in Nat /\ j \in Nat /\ l \in Nat /\ m \in Nat
  BY <1>1, <1>2 DEF Placed
<1>8. p.at = <<Turn(L, f), k, j>> /\ p \in AddedOf(L, lists)
  BY DEF Rewritten
<1> HIDE DEF ref, lists, i
<1>9. ~Lexical(ref.at, p.at)
  BY <1>2, <1>5, <1>6, <1>8 DEF AddedOf, Added
<1> QED BY <1>3, <1>6, <1>7, <1>8, <1>9, LexicalPrefix

LEMMA RoutesKeptByApply ==
  ASSUME IInv, NEW L, Plans(L), Apply(L)
  PROVE  RoutesKept'
<1>1. Planned(L, services, flows) /\ UNCHANGED <<flows, services>>
  BY DEF Plans, Apply, Ends, input
<1>2. /\ DOMAIN routes' = (0 .. Len(L.routes) - 1) \X (flows \cup {Baseline})
      /\ listed' = L.routes
  BY <1>1, RoutesAre DEF Apply
<1>3. ASSUME NEW x \in DOMAIN routes'
      PROVE  /\ x[1] + 1 \in DOMAIN L.routes /\ x[2] \in flows \cup {Baseline}
             /\ RouteIs(L, x, routes'[x])
  BY RoutesByApply
<1>4. ASSUME NEW x \in DOMAIN routes', NEW j \in DOMAIN routes'[x].backends,
             Alone(Original(x, j), x[2])'
      PROVE  routes'[x].backends[j] =
               IF Original(x, j)' \in services /\ First(x, j)'
               THEN Joined(Original(x, j)', x[2]) ELSE Original(x, j)'
  <2> DEFINE i == Backends[L.routes[x[1] + 1]][j]
             k == x[1] + 1
  <2>1. Original(x, j)' = i
    BY <1>2 DEF Original
  <2>2. First(x, j)' <=>
          \A l \in DOMAIN L.routes : \A m \in DOMAIN Backends[L.routes[l]] :
            Backends[L.routes[l]][m] = i => ~Lexical(<<l, m>>, <<k, j>>)
    BY <1>2, <2>1 DEF First
  <2>3. \A h \in services : \A g \in flows \cup {Baseline} :
          Joined(h, g) = Joined(i, x[2]) => h = i /\ g = x[2]
    BY <1>1, <1>4, <2>1 DEF Alone
  <2>4. j \in DOMAIN Backends[L.routes[k]] /\ k \in DOMAIN L.routes
    BY <1>3 DEF RouteIs
  <2>5. CASE \E p : Rewritten(L, k, x[2], j, p) /\ routes'[x].backends[j] = p.name
    <3>1. PICK p : Rewritten(L, k, x[2], j, p) /\ routes'[x].backends[j] = p.name
      BY <2>5
    <3>2. p.app = i /\ i \in services /\ p.name = Joined(i, x[2])
      BY <1>1, <2>4, <3>1, RewrittenIs
    <3>3. First(x, j)'
      BY <1>1, <2>2, <2>4, <3>1, RewrittenIsFirst
    <3> QED BY <2>1, <3>1, <3>2, <3>3
  <2>6. CASE /\ \A p : ~Rewritten(L, k, x[2], j, p)
             /\ routes'[x].backends[j] = i
    <3>1. ASSUME i \in services, First(x, j)' PROVE FALSE
      <4>0. Backends[L.routes[k]][j] = i
        OBVIOUS
      <4> HIDE DEF i, k
      <4>1. \E p : Rewritten(L, k, x[2], j, p)
        BY <1>1, <1>3, <2>2, <2>3, <2>4, <3>1, <4>0, FirstIsRewritten
      <4> QED BY <2>6, <4>1
    <3> QED BY <2>1, <2>6, <3>1
  <2> QED BY <1>3, <2>5, <2>6 DEF RouteIs
<1> QED BY <1>1, <1>2, <1>3, <1>4 DEF RoutesKept, RouteIs

LEMMA RoutesKeptInvariant == Spec => []RoutesKept
<1>1. Init => RoutesKept
  BY DEF Init, RoutesKept, Settled
<1>2. IInv /\ RoutesKept /\ [Next]_vars => RoutesKept'
  <2> SUFFICES ASSUME IInv, RoutesKept, [Next]_vars, Settled' PROVE RoutesKept'
    BY DEF RoutesKept
  <2>1. CASE UNCHANGED vars
    BY <2>1 DEF vars, input, managed, RoutesKept, Settled, Alone, Original, First
  <2> QED BY <2>1, OnlyApply, RoutesKeptByApply
<1> QED BY <1>1, <1>2, IInvInductive, PTL DEF Spec

(* Of all the orders a pass meets only that of the list of routes shows in  *)
(* what is rendered for entry points (topology.go 567-569, 587-593, 627).   *)
THEOREM RoutesFollowCorrect == Spec => RoutesFollowTheirList
<1> DEFINE A == Settled /\ outcome' = "applied" /\ listed' = listed =>
       /\ DOMAIN routes' = DOMAIN routes
       /\ \A x \in DOMAIN routes :
            /\ routes'[x].host = routes[x].host
            /\ \A j \in DOMAIN routes[x].backends :
                 Alone(Original(x, j), x[2]) => routes'[x].backends[j] = routes[x].backends[j]
<1>1. IInv /\ RoutesKept /\ [Next]_vars => [A]_vars
  <2> SUFFICES ASSUME IInv, RoutesKept, Next, vars' # vars,
                      Settled, outcome' = "applied", listed' = listed
               PROVE  /\ DOMAIN routes' = DOMAIN routes
                      /\ \A x \in DOMAIN routes :
                           /\ routes'[x].host = routes[x].host
                           /\ \A j \in DOMAIN routes[x].backends :
                                Alone(Original(x, j), x[2]) =>
                                  routes'[x].backends[j] = routes[x].backends[j]
    OBVIOUS
  <2>1. PICK L : Plans(L) /\ Apply(L)
    BY OnlyApply DEF Settled
  <2>2. RoutesKept' /\ Settled' /\ UNCHANGED <<flows, services, listed>>
    BY <2>1, RoutesKeptByApply DEF Settled, Apply, Ends, input
  <2>3. DOMAIN routes' = DOMAIN routes
    BY <2>2 DEF RoutesKept
  <2>4. ASSUME NEW x \in DOMAIN routes
        PROVE  /\ routes'[x].host = routes[x].host
               /\ DOMAIN routes'[x].backends = DOMAIN routes[x].backends
    BY <2>2, <2>3 DEF RoutesKept
  <2>5. ASSUME NEW x \in DOMAIN routes, NEW j \in DOMAIN routes[x].backends,
               Alone(Original(x, j), x[2])
        PROVE  routes'[x].backends[j] = routes[x].backends[j]
    <3>1. Original(x, j)' = Original(x, j)
      BY <2>2 DEF Original
    <3>2. First(x, j)' = First(x, j)
      BY <2>2, <3>1 DEF First
    <3>3. Alone(Original(x, j), x[2])'
      BY <2>2, <2>5, <3>1 DEF Alone
    <3>4. routes'[x].backends[j] =
            IF Original(x, j)' \in services' /\ First(x, j)'
            THEN Joined(Original(x, j)', x[2]) ELSE Original(x, j)'
      BY <2>2, <2>3, <2>4, <3>3 DEF RoutesKept
    <3>5. routes[x].backends[j] =
            IF Original(x, j) \in services /\ First(x, j)
            THEN Joined(Original(x, j), x[2]) ELSE Original(x, j)
      BY <2>5 DEF RoutesKept
    <3> QED BY <2>2, <3>1, <3>2, <3>4, <3>5
  <2> QED BY <2>3, <2>4, <2>5
<1> QED BY <1>1, IInvInductive, RoutesKeptInvariant, PTL DEF Spec, RoutesFollowTheirList
=============================================================================
