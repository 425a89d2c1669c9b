--------------------------- MODULE RenderingProofs ---------------------------
(* Lemmas about what is rendered of a listing, for any services, graph,     *)
(* Flows, routes, hosts and orders.                                          *)
EXTENDS Rendering, IsolationProofs, FiniteSetTheorems

(* A list of a set holds each of its members once.                          *)
LEMMA ListOfSet ==
  ASSUME NEW S, IsFiniteSet(S), NEW s \in SetToSeqs(S)
  PROVE  /\ DOMAIN s = 1 .. Len(s)
         /\ Len(s) = Cardinality(S) /\ Len(s) \in Nat
         /\ ToSet(s) = S
         /\ Listing(s, S)
<1> DEFINE D == 1 .. Cardinality(S)
<1>1. Cardinality(S) \in Nat
  BY FS_CardinalityType
<1>2. s \in [D -> S] /\ \A i, j \in D : i # j => s[i] # s[j]
  BY DEF SetToSeqs
<1>3. s \in Injection(D, S)
  BY <1>2 DEF Injection, IsInjective
<1>4. IsFiniteSet(D) /\ Cardinality(D) = Cardinality(S)
  BY <1>1, FS_Interval
<1>5. s \in Surjection(D, S)
  BY <1>3, <1>4, FS_Injection
<1>6. ToSet(s) = S
  BY <1>2, <1>5 DEF Surjection, ToSet
<1>7. s \in Seq(S) /\ Len(s) = Cardinality(S)
  BY <1>1, <1>2
<1> QED BY <1>1, <1>2, <1>6, <1>7 DEF Listing

(* A listing of services S, Flows F and the routes, with the flow           *)
(* topologies derived of it.                                                *)
Planned(L, S, F) ==
  /\ S \subseteq Services /\ F \subseteq Flows
  /\ L.services \in SetToSeqs(S) /\ L.flows \in SetToSeqs(F) /\ L.routes \in SetToSeqs(Routes)
  /\ \A f \in F :
       Target[f] \in S =>
         /\ Target[f] \in L.isolated[f]
         /\ L.isolated[f] \subseteq S
         /\ L.isolated[f] \subseteq {Target[f]} \cup Stateful

LEMMA SubsetsFinite ==
  ASSUME NEW S \in SUBSET Services, NEW F \in SUBSET Flows
  PROVE  IsFiniteSet(S) /\ IsFiniteSet(F)
BY GraphAssumption, FlowAssumption, FS_Subset

(* What Isolated solves, with names for vertices.                           *)
LEMMA DerivedPlan ==
  ASSUME NEW S \in SUBSET Services, NEW F \in SUBSET Flows, NEW listing,
         listing.services \in SetToSeqs(S), listing.flows \in SetToSeqs(F),
         listing.routes \in SetToSeqs(Routes)
  PROVE  /\ Planned(Derived(listing), S, F)
         /\ Derived(listing).services = listing.services
         /\ Derived(listing).flows = listing.flows
         /\ Derived(listing).routes = listing.routes
         /\ Derived(listing).source = listing.source
<1> DEFINE L == Derived(listing)
<1>1. /\ L.services = listing.services /\ L.flows = listing.flows
      /\ L.routes = listing.routes /\ L.source = listing.source
  BY DEF Derived
<1>2. /\ Listing(listing.services, S) /\ ToSet(listing.services) = S
      /\ ToSet(listing.flows) = F
  BY SubsetsFinite, ListOfSet
<1>3. ASSUME NEW f \in F, Target[f] \in S
      PROVE  /\ Target[f] \in L.isolated[f]
             /\ L.isolated[f] \subseteq S
             /\ L.isolated[f] \subseteq {Target[f]} \cup Stateful
  <2> DEFINE order == listing.services
             t == Target[f]
             v == [i \in Services |-> i]
             listed == {order[p] : p \in DOMAIN order}
             found == Found(listed, Edges, Stateful, v, t)
             I == Isolated(order, Edges, Stateful, HTTP, v, t)
  <2>1. listed = S
    BY <1>2 DEF ToSet
  <2>2. L.isolated[f] = IsolatedOf[f][order]
    <3>1. f \in {g \in ToSet(listing.flows) : Target[g] \in ToSet(listing.services)}
      BY <1>2, <1>3
    <3> QED BY <3>1 DEF Derived
  <2>3. order \in {s \in SetToAllKPermutations(Services) : Target[f] \in ToSet(s)}
    BY <1>2, <1>3 DEF SetToAllKPermutations
  <2>4. IsolatedOf[f][order] = I
    BY <2>3, <1>3 DEF IsolatedOf
  <2>5. I \subseteq listed /\ t \in I /\ I \subseteq {t} \cup found
    <3>1. t \in Items(order) /\ listed = Items(order)
      BY <1>3, <2>1 DEF Items
    <3>2. Listing(order, S)
      BY <1>2
    <3> HIDE DEF v, t, order, listed
    <3>3. /\ I \subseteq Items(order)
          /\ t \in I
          /\ I \subseteq {t} \cup Found(Items(order), Edges, Stateful, v, t)
      BY <3>1, <3>2, IsolatedIsSolution
    <3> QED BY <3>1, <3>3
  <2>6. found \subseteq Stateful
    <3>1. \A s \in S : v[s] = s
      OBVIOUS
    <3> HIDE DEF v, t, listed
    <3> DEFINE reached == Reach({<<v[e[1]], v[e[2]]>> : e \in Edges}, v[t])
    <3>2. found = {v[s] : s \in {r \in listed \cap Stateful : v[r] \in reached}}
      BY DEF Found
    <3> HIDE DEF reached, found
    <3> QED BY <2>1, <3>1, <3>2
  <2> HIDE DEF I, found, listed, L
  <2> QED BY <2>1, <2>2, <2>4, <2>5, <2>6
<1> HIDE DEF L
<1>4. Planned(L, S, F)
  BY <1>1, <1>3 DEF Planned
<1> QED BY <1>1, <1>4 DEF L

-----------------------------------------------------------------------------
(* Places are compared number by number, so one of two comes first.         *)
LEMMA LexicalTotal2 ==
  ASSUME NEW p \in Nat \X Nat, NEW q \in Nat \X Nat, ~Lexical(p, q), ~Lexical(q, p)
  PROVE  p = q
<1>1. DOMAIN p = {1, 2} /\ DOMAIN q = {1, 2}
  OBVIOUS
<1>2. p[1] = q[1]
  <2>1. p[1] < q[1] => Lexical(p, q)
    BY <1>1 DEF Lexical
  <2>2. q[1] < p[1] => Lexical(q, p)
    BY <1>1 DEF Lexical
  <2> QED BY <2>1, <2>2
<1>3. p[2] = q[2]
  <2>1. \A m \in 1 .. 2 - 1 : p[m] = q[m]
    BY <1>2
  <2>2. p[2] < q[2] => Lexical(p, q)
    BY <1>1, <2>1 DEF Lexical
  <2>3. q[2] < p[2] => Lexical(q, p)
    BY <1>1, <2>1 DEF Lexical
  <2> QED BY <2>2, <2>3
<1> QED BY <1>2, <1>3

LEMMA LexicalTotal3 ==
  ASSUME NEW p \in Nat \X Nat \X Nat, NEW q \in Nat \X Nat \X Nat,
         ~Lexical(p, q), ~Lexical(q, p)
  PROVE  p = q
<1>1. DOMAIN p = {1, 2, 3} /\ DOMAIN q = {1, 2, 3}
  OBVIOUS
<1>2. p[1] = q[1]
  <2>1. p[1] < q[1] => Lexical(p, q)
    BY <1>1 DEF Lexical
  <2>2. q[1] < p[1] => Lexical(q, p)
    BY <1>1 DEF Lexical
  <2> QED BY <2>1, <2>2
<1>3. p[2] = q[2]
  <2>1. \A m \in 1 .. 2 - 1 : p[m] = q[m]
    BY <1>2
  <2>2. p[2] < q[2] => Lexical(p, q)
    BY <1>1, <2>1 DEF Lexical
  <2>3. q[2] < p[2] => Lexical(q, p)
    BY <1>1, <2>1 DEF Lexical
  <2> QED BY <2>2, <2>3
<1>4. p[3] = q[3]
  <2>1. \A m \in 1 .. 3 - 1 : p[m] = q[m]
    BY <1>2, <1>3
  <2>2. p[3] < q[3] => Lexical(p, q)
    BY <1>1, <2>1 DEF Lexical
  <2>3. q[3] < p[3] => Lexical(q, p)
    BY <1>1, <2>1 DEF Lexical
  <2> QED BY <2>2, <2>3
<1> QED BY <1>2, <1>3, <1>4

(* What the Deployments of a plan are: one per service and flow that         *)
(* isolates it, unless the flow is named like the service's label.           *)
LEMMA DeploymentsAre ==
  ASSUME NEW S, NEW F, NEW L, Planned(L, S, F), \A f \in F : Target[f] \in S
  PROVE  /\ \A d \in Deployments(L) :
              /\ d.app \in S /\ d.version \in F /\ d.name = Joined(d.app, d.version)
              /\ d.app \in L.isolated[d.version] /\ d.version # Label[d.app]
              /\ d.image = Image(L, d.app, d.version)
              /\ d.at \in Nat \X Nat
         /\ \A f \in F : \A i \in L.isolated[f] :
              f # Label[i] => \E d \in Deployments(L) : d.app = i /\ d.version = f
         /\ \A d, e \in Deployments(L) :
              (d.app = e.app /\ d.version = e.version) \/ d.at = e.at => d = e
<1>0. IsFiniteSet(S) /\ IsFiniteSet(F)
  BY SubsetsFinite DEF Planned
<1>1. /\ Listing(L.services, S) /\ ToSet(L.services) = S
      /\ DOMAIN L.services = 1 .. Len(L.services) /\ Len(L.services) \in Nat
      /\ Listing(L.flows, F) /\ ToSet(L.flows) = F
      /\ DOMAIN L.flows = 1 .. Len(L.flows) /\ Len(L.flows) \in Nat
  BY <1>0, ListOfSet DEF Planned
<1>2. ASSUME NEW d \in Deployments(L)
      PROVE  \E a \in DOMAIN L.flows, p \in DOMAIN L.services :
               /\ d = Deployment(L, a, p)
               /\ L.services[p] \in L.isolated[L.flows[a]]
               /\ L.flows[a] # Label[L.services[p]]
  BY DEF Deployments
<1>3. ASSUME NEW a \in DOMAIN L.flows, NEW p \in DOMAIN L.services
      PROVE  LET d == Deployment(L, a, p) IN
             /\ d.app = L.services[p] /\ d.version = L.flows[a]
             /\ d.name = Joined(d.app, d.version)
             /\ d.image = Image(L, d.app, d.version)
             /\ d.at = <<a, p>>
             /\ d.app \in S /\ d.version \in F
  BY <1>1, <1>3 DEF Deployment, ToSet
<1>4. ASSUME NEW d \in Deployments(L)
      PROVE  /\ d.app \in S /\ d.version \in F /\ d.name = Joined(d.app, d.version)
             /\ d.app \in L.isolated[d.version] /\ d.version # Label[d.app]
             /\ d.image = Image(L, d.app, d.version)
             /\ d.at \in Nat \X Nat
  <2>1. PICK a \in DOMAIN L.flows, p \in DOMAIN L.services :
          /\ d = Deployment(L, a, p)
          /\ L.services[p] \in L.isolated[L.flows[a]]
          /\ L.flows[a] # Label[L.services[p]]
    BY <1>2
  <2>2. /\ d.app = L.services[p] /\ d.version = L.flows[a]
        /\ d.name = Joined(d.app, d.version)
        /\ d.image = Image(L, d.app, d.version)
        /\ d.at = <<a, p>>
        /\ d.app \in S /\ d.version \in F
    BY <1>3, <2>1
  <2>3. a \in Nat /\ p \in Nat
    BY <1>1
  <2> QED BY <2>1, <2>2, <2>3
<1>5. ASSUME NEW f \in F, NEW i \in L.isolated[f], f # Label[i]
      PROVE  \E d \in Deployments(L) : d.app = i /\ d.version = f
  <2>1. i \in S
    BY <1>5 DEF Planned
  <2>2. PICK a \in DOMAIN L.flows : L.flows[a] = f
    BY <1>1 DEF ToSet
  <2>3. PICK p \in DOMAIN L.services : L.services[p] = i
    BY <1>1, <2>1 DEF ToSet
  <2>4. Deployment(L, a, p) \in Deployments(L)
    BY <1>5, <2>2, <2>3 DEF Deployments
  <2> QED BY <1>3, <2>2, <2>3, <2>4
<1>6. ASSUME NEW d \in Deployments(L), NEW e \in Deployments(L),
             (d.app = e.app /\ d.version = e.version) \/ d.at = e.at
      PROVE  d = e
  <2>1. PICK a \in DOMAIN L.flows, p \in DOMAIN L.services : d = Deployment(L, a, p)
    BY <1>2
  <2>2. PICK b \in DOMAIN L.flows, q \in DOMAIN L.services : e = Deployment(L, b, q)
    BY <1>2
  <2>3. /\ d.app = L.services[p] /\ d.version = L.flows[a] /\ d.at = <<a, p>>
        /\ e.app = L.services[q] /\ e.version = L.flows[b] /\ e.at = <<b, q>>
    BY <1>3, <2>1, <2>2
  <2>4. a = b /\ p = q
    BY <1>1, <1>6, <2>3 DEF Listing
  <2> QED BY <2>1, <2>2, <2>4
<1> QED BY <1>4, <1>5, <1>6

-----------------------------------------------------------------------------
(* Every active flow has a turn of its own.                                 *)
LEMMA TurnIsPlace ==
  ASSUME NEW S, NEW F, NEW L, Planned(L, S, F)
  PROVE  /\ ActiveFlowIDs(L) = F \cup {Baseline}
         /\ \A f \in ActiveFlowIDs(L) : Turn(L, f) \in Nat
         /\ \A f, g \in ActiveFlowIDs(L) : Turn(L, f) = Turn(L, g) => f = g
<1>1. /\ ToSet(L.flows) = F
      /\ DOMAIN L.flows = 1 .. Len(L.flows) /\ Len(L.flows) \in Nat
  BY SubsetsFinite, ListOfSet DEF Planned
<1>2. ActiveFlowIDs(L) = F \cup {Baseline}
  BY <1>1 DEF ActiveFlowIDs
<1>3. ASSUME NEW f \in F, f # Baseline
      PROVE  Turn(L, f) \in DOMAIN L.flows /\ L.flows[Turn(L, f)] = f
  <2>1. \E a \in DOMAIN L.flows : L.flows[a] = f
    BY <1>1 DEF ToSet
  <2>2. Turn(L, f) = CHOOSE a \in DOMAIN L.flows : L.flows[a] = f
    BY <1>3 DEF Turn
  <2> QED BY <2>1, <2>2
<1>4. Turn(L, Baseline) = 0
  BY DEF Turn
<1>5. \A f \in F : f # Baseline => Turn(L, f) \in Nat \ {0}
  BY <1>1, <1>3
<1>6. ASSUME NEW f \in F \cup {Baseline}, NEW g \in F \cup {Baseline}, Turn(L, f) = Turn(L, g)
      PROVE  f = g
  BY <1>3, <1>4, <1>5, <1>6
<1> QED BY <1>2, <1>4, <1>5, <1>6

(* References, by what they refer to and where.                             *)
Placed(lists) == DOMAIN lists \subseteq Nat /\ \A k \in DOMAIN lists : DOMAIN lists[k] \subseteq Nat

LEMMA ReferencesAre ==
  ASSUME NEW S, NEW F, NEW L, Planned(L, S, F), NEW lists, Placed(lists),
         NEW p \in References(L, lists)
  PROVE  \E k \in DOMAIN lists : \E j \in DOMAIN lists[k] :
           /\ p.flow \in ActiveFlowIDs(L) /\ p.at = <<Turn(L, p.flow), k, j>>
           /\ p.app = lists[k][j] /\ p.app \in Present(L)
           /\ p.name = Joined(p.app, p.flow)
           /\ p.at \in Nat \X Nat \X Nat
           /\ p = [at |-> p.at, app |-> p.app, flow |-> p.flow, name |-> p.name]
<1>1. PICK f \in ActiveFlowIDs(L), k \in DOMAIN lists :
        p \in {[at |-> <<Turn(L, f), k, j>>, app |-> lists[k][j], flow |-> f,
                name |-> Joined(lists[k][j], f)] :
                 j \in {m \in DOMAIN lists[k] : lists[k][m] \in Present(L)}}
  BY DEF References
<1>2. PICK j \in {m \in DOMAIN lists[k] : lists[k][m] \in Present(L)} :
        p = [at |-> <<Turn(L, f), k, j>>, app |-> lists[k][j], flow |-> f,
             name |-> Joined(lists[k][j], f)]
  BY <1>1
<1>3. Turn(L, f) \in Nat /\ k \in Nat /\ j \in Nat
  BY TurnIsPlace DEF Placed
<1> QED BY <1>2, <1>3

ReferenceAt(L, lists, f, k, j) ==
  [at |-> <<Turn(L, f), k, j>>, app |-> lists[k][j], flow |-> f, name |-> Joined(lists[k][j], f)]

LEMMA EveryReference ==
  ASSUME NEW L, NEW lists, NEW f \in ActiveFlowIDs(L), NEW k \in DOMAIN lists,
         NEW j \in DOMAIN lists[k], lists[k][j] \in Present(L)
  PROVE  ReferenceAt(L, lists, f, k, j) \in References(L, lists)
<1> DEFINE Of(g, l) == {[at |-> <<Turn(L, g), l, n>>, app |-> lists[l][n], flow |-> g,
                         name |-> Joined(lists[l][n], g)] :
                          n \in {m \in DOMAIN lists[l] : lists[l][m] \in Present(L)}}
<1>1. ReferenceAt(L, lists, f, k, j) \in Of(f, k)
  BY DEF ReferenceAt
<1>2. References(L, lists) = UNION {Of(g, l) : g \in ActiveFlowIDs(L), l \in DOMAIN lists}
  BY DEF References
<1> HIDE DEF Of
<1> QED BY <1>1, <1>2

LEMMA ReferencesApart ==
  ASSUME NEW S, NEW F, NEW L, Planned(L, S, F), NEW lists, Placed(lists),
         NEW p \in References(L, lists), NEW q \in References(L, lists), p.at = q.at
  PROVE  p = q
<1>1. PICK k \in DOMAIN lists : \E j \in DOMAIN lists[k] :
           /\ p.flow \in ActiveFlowIDs(L) /\ p.at = <<Turn(L, p.flow), k, j>>
           /\ p.app = lists[k][j]
           /\ p.name = Joined(p.app, p.flow)
           /\ p = [at |-> p.at, app |-> p.app, flow |-> p.flow, name |-> p.name]
  BY ReferencesAre
<1>2. PICK kk \in DOMAIN lists : \E jj \in DOMAIN lists[kk] :
           /\ q.flow \in ActiveFlowIDs(L) /\ q.at = <<Turn(L, q.flow), kk, jj>>
           /\ q.app = lists[kk][jj]
           /\ q.name = Joined(q.app, q.flow)
           /\ q = [at |-> q.at, app |-> q.app, flow |-> q.flow, name |-> q.name]
  BY ReferencesAre
<1>3. k = kk /\ Turn(L, p.flow) = Turn(L, q.flow) /\ p.app = q.app
  BY <1>1, <1>2
<1>4. p.flow = q.flow
  BY <1>1, <1>2, <1>3, TurnIsPlace
<1> QED BY <1>1, <1>2, <1>3, <1>4

(* Only one reference of a name is rewritten.                               *)
LEMMA AddedApart ==
  ASSUME NEW S, NEW F, NEW L, Planned(L, S, F), NEW lists, Placed(lists),
         NEW p \in Added(References(L, lists)), NEW q \in Added(References(L, lists)),
         p.name = q.name
  PROVE  p = q
<1>1. p \in References(L, lists) /\ q \in References(L, lists)
  BY DEF Added
<1>2. ~Lexical(p.at, q.at) /\ ~Lexical(q.at, p.at)
  BY DEF Added
<1>3. p.at \in Nat \X Nat \X Nat /\ q.at \in Nat \X Nat \X Nat
  BY <1>1, ReferencesAre
<1>4. p.at = q.at
  BY <1>2, <1>3, LexicalTotal3
<1> QED BY <1>1, <1>4, ReferencesApart

AddedOf(L, lists) == Added(References(L, lists))
Selecting(L, added, front) ==
  /\ DOMAIN front = {p.name : p \in added}
  /\ \A p \in added : front[p.name] = [app |-> p.app, version |-> VersionFor(L, p.app, p.flow)]

LEMMA FrontsAre ==
  ASSUME NEW S, NEW F, NEW L, Planned(L, S, F), NEW lists, Placed(lists)
  PROVE  Selecting(L, AddedOf(L, lists), Fronts(L, AddedOf(L, lists)))
<1> DEFINE added == AddedOf(L, lists)
           C(n) == CHOOSE q \in added : q.name = n
<1>1. /\ DOMAIN Fronts(L, added) = {p.name : p \in added}
      /\ \A n \in {p.name : p \in added} :
           Fronts(L, added)[n]
             = [app |-> C(n).app, version |-> VersionFor(L, C(n).app, C(n).flow)]
  BY DEF Fronts
<1>2. ASSUME NEW p \in added
      PROVE  C(p.name) = p
  <2>1. C(p.name) \in added /\ C(p.name).name = p.name
    OBVIOUS
  <2> HIDE DEF C
  <2> QED BY <2>1, AddedApart DEF AddedOf
<1> HIDE DEF C
<1>3. ASSUME NEW p \in added
      PROVE  Fronts(L, added)[p.name]
               = [app |-> p.app, version |-> VersionFor(L, p.app, p.flow)]
  BY <1>1, <1>2
<1> QED BY <1>1, <1>3 DEF Selecting

-----------------------------------------------------------------------------
LEMMA ListsAre ==
  ASSUME NEW S, NEW F, NEW L, Planned(L, S, F)
  PROVE  /\ Present(L) = S
         /\ ToSet(L.routes) = Routes /\ Listing(L.routes, Routes)
         /\ DOMAIN L.routes = 1 .. Len(L.routes)
         /\ Len(L.routes) = Cardinality(Routes) /\ Len(L.routes) \in Nat
         /\ DOMAIN RouteLists(L) = DOMAIN L.routes
         /\ \A k \in DOMAIN L.routes :
              /\ L.routes[k] \in Routes
              /\ RouteLists(L)[k] = Backends[L.routes[k]]
              /\ DOMAIN Backends[L.routes[k]] \subseteq Nat
         /\ Placed(RouteLists(L))
         /\ Placed(<<Paths>>)
<1>1. Present(L) = S
  BY SubsetsFinite, ListOfSet DEF Planned, Present
<1>2. /\ ToSet(L.routes) = Routes /\ Listing(L.routes, Routes)
      /\ DOMAIN L.routes = 1 .. Len(L.routes)
      /\ Len(L.routes) = Cardinality(Routes) /\ Len(L.routes) \in Nat
  BY RouteAssumption, ListOfSet DEF Planned
<1>3. DOMAIN RouteLists(L) = DOMAIN L.routes
  BY DEF RouteLists
<1>4. ASSUME NEW k \in DOMAIN L.routes
      PROVE  /\ L.routes[k] \in Routes
             /\ RouteLists(L)[k] = Backends[L.routes[k]]
             /\ DOMAIN Backends[L.routes[k]] \subseteq Nat
  <2>1. L.routes[k] \in Routes
    BY <1>2 DEF ToSet
  <2>2. Backends[L.routes[k]] \in Seq(Services)
    BY <2>1, RouteAssumption
  <2> QED BY <2>1, <2>2 DEF RouteLists
<1>5. Placed(RouteLists(L))
  BY <1>2, <1>3, <1>4 DEF Placed
<1>6. Placed(<<Paths>>)
  <2>1. DOMAIN Paths \subseteq Nat
    BY RouteAssumption
  <2>2. DOMAIN <<Paths>> = {1} /\ <<Paths>>[1] = Paths
    OBVIOUS
  <2> QED BY <2>1, <2>2 DEF Placed
<1> QED BY <1>1, <1>2, <1>3, <1>4, <1>5, <1>6

(* What a flow's turn leaves of the j-th backend of the k-th route.         *)
Rewritten(L, k, f, j, p) ==
  /\ p \in AddedOf(L, RouteLists(L))
  /\ p.flow = f /\ p.at = <<Turn(L, f), k, j>>

RouteIs(L, x, route) ==
  /\ x[1] + 1 \in DOMAIN L.routes /\ x[1] \in Nat
  /\ route.host = Hostname(Host[L.routes[x[1] + 1]], x[2])
  /\ DOMAIN route.backends = DOMAIN Backends[L.routes[x[1] + 1]]
  /\ \A j \in DOMAIN route.backends :
       \/ \E p : Rewritten(L, x[1] + 1, x[2], j, p) /\ route.backends[j] = p.name
       \/ /\ \A p : ~Rewritten(L, x[1] + 1, x[2], j, p)
          /\ route.backends[j] = Backends[L.routes[x[1] + 1]][j]

LEMMA RoutesAre ==
  ASSUME NEW S, NEW F, NEW L, Planned(L, S, F)
  PROVE  /\ DOMAIN HTTPRoutes(L) = (0 .. Len(L.routes) - 1) \X (F \cup {Baseline})
         /\ \A x \in DOMAIN HTTPRoutes(L) : RouteIs(L, x, HTTPRoutes(L)[x])
<1> DEFINE added == AddedOf(L, RouteLists(L))
           R == HTTPRoutes(L)
           X == (0 .. Len(L.routes) - 1) \X (F \cup {Baseline})
           Here(k, f, j) == {p.name : p \in {q \in added : q.flow = f /\ Tail(q.at) = <<k, j>>}}
           B(k, f) == [j \in DOMAIN Backends[L.routes[k]] |->
                         IF Here(k, f, j) = {} THEN Backends[L.routes[k]][j]
                                               ELSE CHOOSE n \in Here(k, f, j) : TRUE]
<1>1. R = [x \in X |-> HTTPRoute(L, added, x[1] + 1, x[2])]
  BY TurnIsPlace DEF HTTPRoutes, AddedOf
<1>2. ASSUME NEW k, NEW f
      PROVE  HTTPRoute(L, added, k, f)
               = [host |-> Hostname(Host[L.routes[k]], f), backends |-> B(k, f)]
  BY DEF HTTPRoute
<1>3. ASSUME NEW k, NEW f, NEW j
      PROVE  /\ \A p \in added : (p.flow = f /\ Tail(p.at) = <<k, j>>) <=> Rewritten(L, k, f, j, p)
             /\ \A n \in Here(k, f, j) : \E p : Rewritten(L, k, f, j, p) /\ n = p.name
             /\ Here(k, f, j) = {} => \A p : ~Rewritten(L, k, f, j, p)
  <2>1. ASSUME NEW p \in added
        PROVE  (p.flow = f /\ Tail(p.at) = <<k, j>>) <=> Rewritten(L, k, f, j, p)
    <3>1. p \in References(L, RouteLists(L))
      BY DEF AddedOf, Added
    <3>2. PICK kk \in DOMAIN RouteLists(L) : \E jj \in DOMAIN RouteLists(L)[kk] :
            p.at = <<Turn(L, p.flow), kk, jj>>
      <4> HIDE DEF added
      <4> QED BY <3>1, ReferencesAre, ListsAre
    <3>3. PICK jj : p.at = <<Turn(L, p.flow), kk, jj>>
      BY <3>2
    <3>4. Tail(p.at) = <<kk, jj>>
      BY <3>3
    <3> QED BY <3>3, <3>4 DEF Rewritten
  <2> QED BY <2>1 DEF Rewritten
<1>4. ASSUME NEW x \in X
      PROVE  /\ x[1] + 1 \in DOMAIN L.routes /\ x[1] \in Nat
             /\ R[x].host = Hostname(Host[L.routes[x[1] + 1]], x[2])
             /\ R[x].backends = B(x[1] + 1, x[2])
  <2>1. x[1] + 1 \in DOMAIN L.routes /\ x[1] \in Nat
    BY ListsAre
  <2> HIDE DEF X, R, B, added
  <2> QED BY <1>1, <1>2, <2>1
<1>5. ASSUME NEW x \in X, NEW j \in DOMAIN Backends[L.routes[x[1] + 1]]
      PROVE  LET b == B(x[1] + 1, x[2])[j] IN
             \/ \E p : Rewritten(L, x[1] + 1, x[2], j, p) /\ b = p.name
             \/ /\ \A p : ~Rewritten(L, x[1] + 1, x[2], j, p)
                /\ b = Backends[L.routes[x[1] + 1]][j]
  <2> DEFINE h == Here(x[1] + 1, x[2], j)
  <2>1. B(x[1] + 1, x[2])[j] = IF h = {} THEN Backends[L.routes[x[1] + 1]][j]
                                         ELSE CHOOSE n \in h : TRUE
    OBVIOUS
  <2> HIDE DEF B, Here, added
  <2>2. CASE h = {}
    BY <1>3, <2>1, <2>2
  <2>3. CASE h # {}
    <3>1. B(x[1] + 1, x[2])[j] \in h
      BY <2>1, <2>3
    <3> QED BY <1>3, <3>1
  <2> QED BY <2>2, <2>3
<1>6. \A x \in X : DOMAIN B(x[1] + 1, x[2]) = DOMAIN Backends[L.routes[x[1] + 1]]
  OBVIOUS
<1> HIDE DEF B, added, R
<1>7. DOMAIN R = X
  BY <1>1
<1> HIDE DEF X
<1>8. ASSUME NEW x \in X PROVE RouteIs(L, x, R[x])
  BY <1>4, <1>5, <1>6 DEF RouteIs
<1>9. DOMAIN R = (0 .. Len(L.routes) - 1) \X (F \cup {Baseline})
  BY <1>7 DEF X
<1> QED BY <1>7, <1>8, <1>9 DEF R

-----------------------------------------------------------------------------
(* Of places some comes first.                                              *)
LEMMA LexicalFirst ==
  ASSUME NEW P \in SUBSET (Nat \X Nat \X Nat), P # {}
  PROVE  \E p \in P : \A q \in P : ~Lexical(q, p)
<1>1. PICK a \in {p[1] : p \in P} : \A x \in {p[1] : p \in P} : a <= x
  <2>1. {p[1] : p \in P} \in SUBSET Nat /\ {p[1] : p \in P} # {}
    OBVIOUS
  <2> QED BY <2>1, LeastElement
<1> DEFINE A == {p \in P : p[1] = a}
<1>2. PICK b \in {p[2] : p \in A} : \A x \in {p[2] : p \in A} : b <= x
  <2>1. {p[2] : p \in A} \in SUBSET Nat /\ {p[2] : p \in A} # {}
    BY <1>1
  <2> QED BY <2>1, LeastElement
<1> DEFINE B == {p \in A : p[2] = b}
<1>3. PICK c \in {p[3] : p \in B} : \A x \in {p[3] : p \in B} : c <= x
  <2>1. {p[3] : p \in B} \in SUBSET Nat /\ {p[3] : p \in B} # {}
    BY <1>2
  <2> QED BY <2>1, LeastElement
<1>4. PICK p \in B : p[3] = c
  BY <1>3
<1>5. p \in P /\ p[1] = a /\ p[2] = b
  BY <1>4
<1>6. ASSUME NEW q \in P, Lexical(q, p)
      PROVE  FALSE
  <2>1. DOMAIN q = {1, 2, 3} /\ q[1] \in Nat /\ q[2] \in Nat /\ q[3] \in Nat
    BY <1>6
  <2>2. p[1] \in Nat /\ p[2] \in Nat /\ p[3] \in Nat
    BY <1>5
  <2>3. PICK n \in {1, 2, 3} : q[n] < p[n] /\ \A m \in 1 .. n - 1 : q[m] = p[m]
    BY <1>6, <2>1 DEF Lexical
  <2>4. a <= q[1]
    BY <1>1, <1>6
  <2>5. CASE n = 1
    BY <1>5, <2>1, <2>2, <2>3, <2>4, <2>5
  <2>6. CASE n = 2
    <3>1. q[1] = p[1]
      BY <2>3, <2>6
    <3>2. b <= q[2]
      BY <1>2, <1>5, <3>1
    <3> QED BY <1>5, <2>1, <2>2, <2>3, <2>6, <3>2
  <2>7. CASE n = 3
    <3>1. q[1] = p[1] /\ q[2] = p[2]
      BY <2>3, <2>7
    <3>2. c <= q[3]
      BY <1>3, <1>5, <3>1
    <3> QED BY <1>4, <2>1, <2>2, <2>3, <2>7, <3>2
  <2> QED BY <2>3, <2>5, <2>6, <2>7
<1> QED BY <1>5, <1>6

(* A name that is referred to has a front Service.                          *)
LEMMA FirstIsAdded ==
  ASSUME NEW S, NEW F, NEW L, Planned(L, S, F), NEW lists, Placed(lists),
         NEW r \in References(L, lists)
  PROVE  \E p \in AddedOf(L, lists) : p.name = r.name
<1> DEFINE Q == {q \in References(L, lists) : q.name = r.name}
           P == {q.at : q \in Q}
<1>1. P \in SUBSET (Nat \X Nat \X Nat)
  BY ReferencesAre
<1>2. PICK a \in P : \A b \in P : ~Lexical(b, a)
  BY <1>1, LexicalFirst
<1>3. PICK p \in Q : p.at = a
  BY <1>2
<1>4. p \in AddedOf(L, lists)
  BY <1>2, <1>3 DEF AddedOf, Added
<1> QED BY <1>3, <1>4

LEMMA VersionIs ==
  ASSUME NEW L, NEW i, NEW f
  PROVE  /\ VersionFor(L, i, f) \in {f, Label[i]}
         /\ VersionFor(L, i, f) = f <=> f \in Versions(L, i)
BY DEF VersionFor, Versions
=============================================================================
