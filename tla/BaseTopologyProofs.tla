------------------------- MODULE BaseTopologyProofs -------------------------
(* Theorems about the base topology, for any cluster and any order in which *)
(* its namespaces are listed.                                               *)
EXTENDS BaseTopology, TLAPS

(* The fields of what was listed have the types the operators rely on.      *)
LEMMA ListedTypes ==
  ASSUME TypeOK, NEW n \in Namespaces
  PROVE  /\ Users(n) \subseteq Service
         /\ ServicesOf(n) \subseteq Namespaces \X Names
         /\ DependenciesOf(n) \subseteq
              (Namespaces \X Names) \X (Namespaces \X Names) \X Ports
<1>1. cluster[n] \in Listing
  BY ClustersAssumption DEF TypeOK
<1>2. Users(n) \subseteq Service
  BY <1>1 DEF Users, Listing
<1>3. ServicesOf(n) \subseteq Namespaces \X Names
  BY <1>2 DEF ServicesOf, Service
<1>4. ASSUME NEW s \in Users(n), NEW need \in s.needs
      PROVE  <<<<n, s.name>>, <<n, need.name>>, need.port>> \in
               (Namespaces \X Names) \X (Namespaces \X Names) \X Ports
  <2>1. s.name \in Names /\ need \in Need
    BY <1>2, <1>4 DEF Service
  <2>2. QED
    BY <2>1 DEF Need
<1>5. QED
  BY <1>2, <1>3, <1>4 DEF DependenciesOf

(* What is read of the listing does not change: it is an input.             *)
LEMMA SameCluster ==
  ASSUME cluster' = cluster
  PROVE  /\ \A n : Users(n)' = Users(n)
         /\ \A n : Malformed(n)' <=> Malformed(n)
         /\ \A n : Unresolved(n)' <=> Unresolved(n)
         /\ \A n : HasIngress(n)' <=> HasIngress(n)
         /\ \A n : HasRoutes(n)' <=> HasRoutes(n)
         /\ \A n : ServicesOf(n)' = ServicesOf(n)
         /\ \A n : DependenciesOf(n)' = DependenciesOf(n)
         /\ Sound' <=> Sound
<1>1. \A n : Users(n)' = Users(n)
  BY DEF Users
<1>2. \A n, need : Provides(n, need)' <=> Provides(n, need)
  BY <1>1 DEF Provides
<1>3. \A n : Malformed(n)' <=> Malformed(n)
  BY <1>1 DEF Malformed
<1>4. \A n : Unresolved(n)' <=> Unresolved(n)
  BY <1>1, <1>2 DEF Unresolved
<1>5. \A n : HasIngress(n)' <=> HasIngress(n)
  BY DEF HasIngress
<1>6. \A n : ServicesOf(n)' = ServicesOf(n)
  BY <1>1 DEF ServicesOf
<1>7. \A n : DependenciesOf(n)' = DependenciesOf(n)
  BY <1>1 DEF DependenciesOf
<1>8. Sound' <=> Sound
  BY <1>1, <1>3, <1>4, <1>5 DEF Sound
<1>9. \A n : HasRoutes(n)' <=> HasRoutes(n)
  BY DEF HasRoutes
<1>10. QED
  BY <1>1, <1>3, <1>4, <1>5, <1>6, <1>7, <1>8, <1>9

LEMMA InitInvariant == Init => IInv
<1> SUFFICES ASSUME Init PROVE IInv
  OBVIOUS
<1>1. TypeOK
  BY DEF Init, TypeOK
<1>2. LoopInvariant
  BY DEF Init, LoopInvariant, Handled
<1>3. Stopped /\ PanicCauses /\ StrandedCauses
  BY DEF Init, Built, Stopped, PanicCauses, StrandedCauses
<1>4. QED
  BY <1>1, <1>2, <1>3 DEF IInv

(* One more namespace is one more in the sums.                              *)
LEMMA AddKeeps ==
  ASSUME IInv, NEW n \in Namespaces, AddNamespace(n)
  PROVE  IInv'
<1>0. TypeOK /\ LoopInvariant /\ cluster' = cluster
  BY DEF IInv, AddNamespace
<1>1. Handled' = Handled \cup {n} /\ outcome' = "building"
  BY <1>0 DEF AddNamespace, Handled, TypeOK
<1>2. TypeOK'
  BY <1>0, ListedTypes DEF TypeOK, AddNamespace
<1>3. services' = UNION {ServicesOf(m) : m \in Handled'}
  BY <1>0, <1>1 DEF LoopInvariant, AddNamespace
<1>4. dependencies' = UNION {DependenciesOf(m) : m \in Handled'}
  BY <1>0, <1>1 DEF LoopInvariant, AddNamespace
<1>5. \A m \in Handled' : ~Malformed(m) /\ ~Unresolved(m)
  BY <1>0, <1>1 DEF LoopInvariant, AddNamespace
<1>6. ingressOf' # None => ingressOf' \in Handled' /\ HasIngress(ingressOf')
  BY <1>0, <1>1 DEF LoopInvariant, AddNamespace
<1>7. \A m \in Handled' : HasIngress(m) => m = ingressOf'
  BY <1>0, <1>1, NoneAssumption DEF LoopInvariant, AddNamespace, Handled
<1>8. LoopInvariant'
  BY <1>0, <1>1, <1>3, <1>4, <1>5, <1>6, <1>7, NoneAssumption, SameCluster
     DEF LoopInvariant, AddNamespace
<1>9. Stopped' /\ PanicCauses' /\ StrandedCauses'
  BY <1>1 DEF Built, Stopped, PanicCauses, StrandedCauses
<1>10. QED
  BY <1>2, <1>8, <1>9 DEF IInv

(* A rejection leaves the sums alone and has a cause.                       *)
LEMMA RejectKeeps ==
  ASSUME IInv, NEW n \in Namespaces, RejectServices(n) \/ RejectSecondIngress(n)
  PROVE  IInv'
<1>0. TypeOK /\ LoopInvariant /\ cluster' = cluster
  BY DEF IInv, RejectServices, RejectSecondIngress, Fails
<1>1. UNCHANGED <<todo, services, dependencies, ingressOf, gatewaysOf>>
  BY DEF RejectServices, RejectSecondIngress, Fails
<1>2. /\ outcome' \in {"panic", "error"}
      /\ outcome' = "panic" => Malformed(n)
  BY DEF RejectServices, RejectSecondIngress, Fails
<1>3. TypeOK'
  BY <1>0, <1>1, <1>2 DEF TypeOK
<1>4. LoopInvariant'
  BY <1>0, <1>1, SameCluster DEF LoopInvariant, Handled
<1>5. ~Sound
  <2>1. CASE RejectServices(n)
    BY <2>1 DEF RejectServices, Sound
  <2>2. CASE RejectSecondIngress(n)
    <3>1. HasIngress(n) /\ HasIngress(ingressOf) /\ ingressOf \in Namespaces
      BY <1>0, <2>2 DEF LoopInvariant, RejectSecondIngress, Handled
    <3>2. ingressOf # n
      BY <1>0, <2>2 DEF LoopInvariant, RejectSecondIngress, Handled
    <3>3. QED
      BY <3>1, <3>2 DEF Sound
  <2>3. QED
    BY <2>1, <2>2
<1>6. Stopped'
  BY <1>0, <1>2, <1>5, SameCluster DEF Built, Stopped
<1>7. PanicCauses' /\ StrandedCauses'
  BY <1>0, <1>2, SameCluster DEF PanicCauses, StrandedCauses
<1>8. QED
  BY <1>3, <1>4, <1>6, <1>7 DEF IInv

(* After the loop every namespace has been handled.                         *)
LEMMA ValidateKeeps ==
  ASSUME IInv, Validate
  PROVE  IInv'
<1>0. TypeOK /\ LoopInvariant /\ cluster' = cluster
  BY DEF IInv, Validate
<1>1. UNCHANGED <<todo, services, dependencies, ingressOf, gatewaysOf>> /\ outcome' = Verdict
  BY DEF Validate
<1>2. Handled = Namespaces
  BY <1>0 DEF Validate, Handled
<1>3. outcome' \in {"built", "error", "panic"}
  BY <1>1 DEF Verdict
<1>4. TypeOK'
  BY <1>0, <1>1, <1>3 DEF TypeOK
<1>5. LoopInvariant'
  BY <1>0, <1>1, SameCluster DEF LoopInvariant, Handled
<1>6. CASE ingressOf = None
  <2>1. \A n \in Namespaces : ~HasIngress(n)
    BY <1>0, <1>2, <1>6, NoneAssumption DEF LoopInvariant
  <2>2. ~Sound /\ outcome' = "panic"
    BY <1>1, <1>6, <2>1 DEF Sound, Verdict
  <2>3. Stopped' /\ PanicCauses' /\ StrandedCauses'
    BY <1>0, <2>1, <2>2, SameCluster DEF Built, Stopped, PanicCauses, StrandedCauses
  <2>4. QED
    BY <1>4, <1>5, <2>3 DEF IInv
<1>7. CASE ingressOf # None /\ services = {}
  <2>1. ASSUME NEW n \in Namespaces PROVE Users(n) = {}
    <3>1. ServicesOf(n) = {}
      BY <1>0, <1>2, <1>7 DEF LoopInvariant
    <3>2. QED
      BY <3>1 DEF ServicesOf
  <2>2. ~Sound /\ outcome' = "error"
    BY <1>1, <1>7, <2>1 DEF Sound, Verdict
  <2>3. Stopped' /\ PanicCauses' /\ StrandedCauses'
    BY <1>0, <2>2, SameCluster DEF Built, Stopped, PanicCauses, StrandedCauses
  <2>4. QED
    BY <1>4, <1>5, <2>3 DEF IInv
<1>8. CASE ingressOf # None /\ services # {}
  <2>1. outcome' = "built"
    BY <1>1, <1>8 DEF Verdict
  <2>2. Stopped' /\ PanicCauses' /\ StrandedCauses'
    BY <1>1, <1>8, <2>1 DEF Stopped, PanicCauses, StrandedCauses, Validate
  <2>3. QED
    BY <1>4, <1>5, <2>2 DEF IInv
<1>9. QED
  BY <1>6, <1>7, <1>8

(* A namespace without an entry is one none of whose services was listed.   *)
LEMMA PlaceKeeps ==
  ASSUME IInv, Place
  PROVE  IInv'
<1>0. TypeOK /\ LoopInvariant /\ cluster' = cluster
  BY DEF IInv, Place
<1>1. UNCHANGED <<todo, services, dependencies, ingressOf, gatewaysOf>>
  BY DEF Place
<1>2. Handled = Namespaces /\ ingressOf # None
  BY DEF IInv, Stopped, Built, Place, Handled
<1>3. ingressOf \in Namespaces /\ gatewaysOf \in Namespaces
  BY <1>0, <1>2 DEF LoopInvariant
<1>4. outcome' \in {"placed", "stranded"} /\ (outcome' = "placed" <=> Stranded = {})
  BY DEF Place
<1>5. \A n \in Namespaces : n \in SettledNamespaces <=> Users(n) # {}
  <2>1. \A n \in Namespaces : \A s \in ServicesOf(n) : s[1] = n
    BY DEF ServicesOf
  <2>2. \A n \in Namespaces : ServicesOf(n) # {} <=> Users(n) # {}
    BY DEF ServicesOf
  <2>3. SettledNamespaces = {n \in Namespaces : ServicesOf(n) # {}}
    BY <1>0, <1>2, <2>1 DEF LoopInvariant, SettledNamespaces
  <2>4. QED
    BY <2>2, <2>3
<1>6. ASSUME outcome' = "stranded"
      PROVE  \E n \in Namespaces : Annotated(n) /\ Users(n) = {}
  <2>1. PICK n \in Stranded : TRUE
    BY <1>4, <1>6
  <2>2. n \in Namespaces /\ Annotated(n)
    BY <1>0, <1>2, <1>3, <2>1 DEF Stranded, LoopInvariant, Annotated
  <2>3. Users(n) = {}
    BY <1>5, <2>1, <2>2 DEF Stranded
  <2>4. QED
    BY <2>2, <2>3
<1>7. ASSUME outcome' = "placed", NEW n \in Namespaces, HasIngress(n)
      PROVE  Users(n) # {}
  <2>1. n = ingressOf
    BY <1>0, <1>2, <1>7 DEF LoopInvariant
  <2>2. QED
    BY <1>4, <1>5, <1>7, <2>1 DEF Stranded
<1>8. TypeOK'
  BY <1>0, <1>1, <1>4 DEF TypeOK
<1>9. LoopInvariant'
  BY <1>0, <1>1, SameCluster DEF LoopInvariant, Handled
<1>10. Stopped' /\ PanicCauses'
  BY <1>1, <1>4 DEF IInv, Place, Stopped, Built, PanicCauses
<1>11. StrandedCauses'
  BY <1>0, <1>6, <1>7, SameCluster DEF StrandedCauses, Annotated
<1>12. QED
  BY <1>8, <1>9, <1>10, <1>11 DEF IInv

LEMMA StepInvariant == IInv /\ [Next]_vars => IInv'
<1> SUFFICES ASSUME IInv, [Next]_vars PROVE IInv'
  OBVIOUS
<1>1. CASE \E n \in Namespaces : AddNamespace(n)
  BY <1>1, AddKeeps
<1>2. CASE \E n \in Namespaces : RejectServices(n) \/ RejectSecondIngress(n)
  BY <1>2, RejectKeeps
<1>3. CASE Validate
  BY <1>3, ValidateKeeps
<1>4. CASE Place
  BY <1>4, PlaceKeeps
<1>5. CASE UNCHANGED vars
  <2>1. cluster' = cluster /\ UNCHANGED <<todo, services, dependencies, ingressOf, gatewaysOf, outcome>>
    BY <1>5 DEF vars
  <2>2. TypeOK'
    BY <2>1 DEF IInv, TypeOK
  <2>3. LoopInvariant'
    BY <2>1, SameCluster DEF IInv, LoopInvariant, Handled
  <2>4. Stopped' /\ PanicCauses' /\ StrandedCauses'
    BY <2>1, SameCluster DEF IInv, Built, Stopped, PanicCauses, StrandedCauses, Annotated
  <2>5. QED
    BY <2>2, <2>3, <2>4 DEF IInv
<1>6. QED
  BY <1>1, <1>2, <1>3, <1>4, <1>5 DEF Next

(* The invariant of the loop holds throughout (topology.go 652-675).        *)
THEOREM BaseInvariance == Spec => []IInv
<1>1. QED
  BY InitInvariant, StepInvariant, PTL DEF Spec

(* The derivation stays well typed.                                         *)
THEOREM BaseTypeCorrect == Spec => []TypeOK
<1>1. IInv => TypeOK
  BY DEF IInv
<1>2. QED
  BY <1>1, BaseInvariance, PTL

(* Whether a base topology is built does not depend on the order of the     *)
(* listing: it is built exactly when the cluster is sound.                  *)
THEOREM AcceptanceCorrect == Spec => []AcceptedIffSound
<1>1. IInv => AcceptedIffSound
  <2> SUFFICES ASSUME IInv, Built PROVE Sound
    BY DEF IInv, TypeOK, Built, Stopped, AcceptedIffSound
  <2>1. Handled = Namespaces /\ LoopInvariant /\ ingressOf # None /\ services # {}
    BY DEF IInv, Stopped, Handled
  <2>2. \E n \in Namespaces : Users(n) # {}
    BY <2>1 DEF LoopInvariant, ServicesOf
  <2>3. QED
    BY <2>1, <2>2 DEF LoopInvariant, Sound
<1>2. QED
  BY <1>1, BaseInvariance, PTL

(* The base topology holds every namespace's services and dependencies and  *)
(* none of the dependencies dangles.                                        *)
THEOREM CompletenessCorrect == Spec => []BuiltCompletely
<1>1. IInv => BuiltCompletely
  <2> SUFFICES ASSUME IInv, Built PROVE BuiltCompletely
    BY DEF BuiltCompletely
  <2>1. Handled = Namespaces /\ LoopInvariant /\ ingressOf # None
    BY DEF IInv, Stopped, Handled
  <2>2. ASSUME NEW n \in Namespaces, NEW d \in DependenciesOf(n)
        PROVE  d[1] \in ServicesOf(n) /\ d[2] \in ServicesOf(n) /\ d[1][1] = d[2][1]
    <3>1. PICK s \in Users(n) : \E need \in s.needs :
            d = <<<<n, s.name>>, <<n, need.name>>, need.port>>
      BY <2>2 DEF DependenciesOf
    <3>2. PICK need \in s.needs : d = <<<<n, s.name>>, <<n, need.name>>, need.port>>
      BY <3>1
    <3>3. Provides(n, need)
      BY <2>1 DEF LoopInvariant, Malformed, Unresolved
    <3>4. QED
      BY <3>2, <3>3 DEF Provides, ServicesOf
  <2>3. ASSUME NEW d \in dependencies
        PROVE  d[1] \in services /\ d[2] \in services /\ d[1][1] = d[2][1]
    <3>1. PICK n \in Namespaces : d \in DependenciesOf(n)
      BY <2>1, <2>3 DEF LoopInvariant
    <3>2. ServicesOf(n) \subseteq services
      BY <2>1 DEF LoopInvariant
    <3>3. QED
      BY <2>2, <3>1, <3>2
  <2>4. QED
    BY <2>1, <2>3 DEF LoopInvariant, BuiltCompletely
<1>2. QED
  BY <1>1, BaseInvariance, PTL

(* A panic means a dependency entry without a port, or no Kardinal ingress. *)
THEOREM PanicCorrect == Spec => []PanicCauses
<1>1. IInv => PanicCauses
  BY DEF IInv
<1>2. QED
  BY <1>1, BaseInvariance, PTL

(* What stops the rendering is a namespace with something annotated and no  *)
(* service, and one with an ingress always does.                            *)
THEOREM StrandedCorrect == Spec => []StrandedCauses
<1>1. IInv => StrandedCauses
  BY DEF IInv
<1>2. QED
  BY <1>1, BaseInvariance, PTL
=============================================================================
