------------------------- MODULE FlowIsolationProofs -------------------------
(* What the loop over the slice it edits comes to, for any number of       *)
(* services, any graph, hash collisions and list order: the one solution   *)
(* of the equation of Isolation; and that it implements FlowIsolation.     *)
EXTENDS FlowTopologyProofs, IsolationProofs

InListOrder == [i \in Ids |-> i]

(* The equation of Isolates, place by place.                               *)
LEMMA EquationByPlace ==
  ASSUME NEW E, NEW http, NEW found, NEW t, NEW R
  PROVE  Isolates(InListOrder, E, http, found, t, R) <=>
           R = {t} \cup {q \in Ids : /\ q \in found \ {t}
                                     /\ \A c \in 1 .. q - 1 :
                                          <<q, c>> \in E /\ c \notin http => c \notin R \ {t}}
<1>1. DOMAIN InListOrder = Ids /\ \A i \in Ids : InListOrder[i] = i
  BY DEF InListOrder
<1>2. \A q \in Ids : \A c \in 1 .. q - 1 : c \in Ids
  BY SizeAssumption DEF Ids
<1>3. {InListOrder[p] : p \in {q \in DOMAIN InListOrder :
          /\ InListOrder[q] \in found \ {t}
          /\ \A c \in 1 .. q - 1 :
               <<InListOrder[q], InListOrder[c]>> \in E /\ InListOrder[c] \notin http
                 => InListOrder[c] \notin R \ {t}}}
      = {q \in Ids : /\ q \in found \ {t}
                     /\ \A c \in 1 .. q - 1 :
                          <<q, c>> \in E /\ c \notin http => c \notin R \ {t}}
  BY <1>1, <1>2
<1> QED BY <1>3 DEF Isolates

(* It has one solution at most.                                            *)
LEMMA EquationUnique ==
  ASSUME NEW E, NEW http, NEW found, NEW t \in Ids, NEW R1, NEW R2,
         Isolates(InListOrder, E, http, found, t, R1),
         Isolates(InListOrder, E, http, found, t, R2)
  PROVE  R1 = R2
<1>1. Listing(InListOrder, Ids)
  BY SizeAssumption DEF Listing, InListOrder, Ids
<1> QED BY <1>1, SolutionUnique

(* So Isolated is that solution whenever there is one.                     *)
LEMMA IsolatedSolves ==
  ASSUME NEW E, NEW st, NEW http, NEW v, NEW t \in Ids, NEW R \in SUBSET Ids,
         Isolates(InListOrder, E, http, Found(Ids, E, st, v, t), t, R)
  PROVE  R = Isolated(InListOrder, E, st, http, v, t)
<1> DEFINE found == Found(Ids, E, st, v, t)
           I == CHOOSE X \in SUBSET Ids : Isolates(InListOrder, E, http, found, t, X)
<1>1. {InListOrder[p] : p \in DOMAIN InListOrder} = Ids
  BY DEF InListOrder
<1>2. Isolated(InListOrder, E, st, http, v, t) = I
  BY <1>1 DEF Isolated
<1> HIDE DEF found
<1>3. Isolates(InListOrder, E, http, found, t, R)
  BY DEF found
<1>4. Isolates(InListOrder, E, http, found, t, I)
  BY <1>3
<1> HIDE DEF I
<1>5. R = I
  BY <1>3, <1>4, EquationUnique
<1> QED BY <1>2, <1>5

-----------------------------------------------------------------------------
LoopInv == /\ InputShape /\ CopiesKept /\ StatefulFound
           /\ VisitedSoFar /\ ParentsWaiting /\ Ended

(* What a replacement at place i does to the other places: nothing.        *)
LEMMA ReplaceAtPlace ==
  ASSUME PointerInv, CopiesKept, pc # "copy", pc' # "copy", UNCHANGED input,
         NEW i \in Ids, NEW o \in Service, Replace(i, o)
  PROVE  /\ services'[i] = Len(heap) + 1 /\ services'[i] > N + N
         /\ \A j \in Ids : j # i => services'[j] = services[j]
         /\ \A p \in Pointers : heap'[p] = heap[p] /\ p # Len(heap) + 1
         /\ \A j \in Ids : services[j] \in Pointers
         /\ heap'[services'[i]] = o
         /\ \A j \in Ids : j # i => (Managed(j)' <=> Managed(j))
         /\ CopiesKept'
<1>1. N \in Nat /\ heap \in Seq(Service) /\ services \in [Ids -> Pointers]
  BY SizeAssumption DEF PointerInv, TypeOK
<1>2. heap' = Append(heap, o) /\ services' = [services EXCEPT ![i] = Len(heap) + 1]
  BY DEF Replace
<1>3. /\ DOMAIN heap = 1 .. Len(heap) /\ Len(heap) \in Nat /\ Len(heap') = Len(heap) + 1
      /\ \A p \in DOMAIN heap : heap'[p] = heap[p]
      /\ heap'[Len(heap) + 1] = o /\ Len(heap) + 1 \notin DOMAIN heap
  BY <1>1, <1>2, MemoryGrows
<1>4. N + N <= Len(heap) /\ \A j \in Ids : ~heap[Copied(j)].managed
  BY DEF CopiesKept
<1>5. services'[i] = Len(heap) + 1 /\ \A j \in Ids : j # i => services'[j] = services[j]
  BY <1>1, <1>2
<1>6. Len(heap) + 1 > N + N /\ N + N <= Len(heap')
  BY <1>1, <1>3, <1>4
<1>7. \A j \in Ids : services[j] \in Pointers /\ heap'[services[j]] = heap[services[j]]
  BY <1>1, <1>3 DEF Pointers
<1>8. heap'[services'[i]] = o
  BY <1>3, <1>5
<1>9. \A j \in Ids : j # i => (Managed(j)' <=> Managed(j))
  BY <1>5, <1>7 DEF Managed
<1>10. CopiesKept'
  <2>1. \A j \in Ids : Copied(j) \in DOMAIN heap
    BY <1>1, <1>3, <1>4 DEF Copied, Ids
  <2> QED BY <1>3, <1>4, <1>6, <2>1 DEF CopiesKept, Copied
<1> QED BY <1>3, <1>5, <1>6, <1>7, <1>8, <1>9, <1>10 DEF Pointers

(* What depends on the input only.                                         *)
LEMMA InputKept ==
  ASSUME UNCHANGED input
  PROVE  /\ FoundStateful' = FoundStateful
         /\ InputShape => InputShape'
         /\ \A c \in Ids : IsHTTP(c)' <=> IsHTTP(c)
BY DEF input, FoundStateful, Stateful, IsStateful, InputShape, IsHTTP

LEMMA InitLoop == Init => LoopInv
<1> SUFFICES ASSUME Init PROVE LoopInv
  OBVIOUS
<1>1. pc = "copy" /\ parents = {}
  BY DEF Init
<1>2. InputShape
  BY DEF Init, InputShape
<1>3. CopiesKept /\ StatefulFound /\ VisitedSoFar /\ ParentsWaiting /\ Ended
  BY <1>1 DEF CopiesKept, StatefulFound, VisitedSoFar, ParentsWaiting, Ended
<1> QED BY <1>2, <1>3 DEF LoopInv

LEMMA CopyLoop == ASSUME IInv, Copy PROVE LoopInv'
<1>1. N \in Nat /\ heap \in Seq(Service) /\ Len(heap) = N /\ parents = {}
  BY SizeAssumption DEF IInv, PointerInv, TypeOK, MemoryKept, LoopShape, Copy
<1>2. pc' = "find" /\ UNCHANGED <<input, parents>> /\ services' = [i \in Ids |-> Copied(i)]
  BY DEF Copy
<1>3. N + N <= Len(heap') /\ \A i \in Ids : ~heap'[Copied(i)].managed
  <2> DEFINE new == [i \in Ids |-> heap[Base(i)]]
  <2>1. new \in Seq(Service) /\ Len(new) = N /\ \A i \in Ids : new[i] = heap[Base(i)]
    BY <1>1 DEF Ids, Base
  <2>2. heap' = heap \o new
    BY DEF Copy
  <2> HIDE DEF new
  <2>3. Len(heap') = N + N
    BY <1>1, <2>1, <2>2, MemoryCopied
  <2>4. ASSUME NEW i \in Ids PROVE ~heap'[Copied(i)].managed
    <3>1. heap'[N + i] = new[i]
      BY <1>1, <2>1, <2>2, MemoryCopied DEF Ids
    <3>2. new[i] = [id |-> i, version |-> "baseline", managed |-> FALSE]
      BY <2>1 DEF IInv, PointerInv, MemoryKept
    <3> QED BY <3>1, <3>2, BaselineService, Zenon DEF Copied
  <2> QED BY <1>1, <2>3, <2>4
<1>4. InputShape'
  BY <1>2, InputKept DEF IInv
<1>5. CopiesKept' /\ StatefulFound' /\ VisitedSoFar' /\ ParentsWaiting' /\ Ended'
  BY <1>1, <1>2, <1>3 DEF CopiesKept, StatefulFound, VisitedSoFar, ParentsWaiting, Ended,
                          Pristine, Copied
<1> QED BY <1>4, <1>5 DEF LoopInv

LEMMA FindStatefulLoop == ASSUME IInv, FindStateful PROVE LoopInv'
<1>1. pc = "find" /\ pc' = "target" /\ UNCHANGED <<input, heap, services, parents>>
      /\ stateful' = {services[i] : i \in FoundStateful}
  BY DEF FindStateful
<1>2. FoundStateful' = FoundStateful /\ InputShape' /\ FoundStateful \subseteq Ids
  BY <1>1, InputKept, FoundAreListed DEF IInv, PointerInv, TypeOK, FoundStateful
<1>3. \A i \in Ids : services[i] = Copied(i)
  BY <1>1 DEF IInv, StatefulFound, Pristine
<1>4. StatefulFound'
  BY <1>1, <1>2, <1>3 DEF StatefulFound, Pristine, Copied
<1>5. CopiesKept' /\ VisitedSoFar' /\ Ended'
  BY <1>1 DEF IInv, CopiesKept, Copied, VisitedSoFar, Ended
<1>6. ParentsWaiting'
  BY <1>1 DEF IInv, PointerInv, LoopShape, ParentsWaiting
<1> QED BY <1>2, <1>4, <1>5, <1>6 DEF LoopInv

LEMMA UpdateTargetLoop == ASSUME IInv, UpdateTarget PROVE LoopInv'
<1> DEFINE o == [heap[Base(target)] EXCEPT !.version = "flow", !.managed = TRUE]
<1>1. /\ pc = "target" /\ pc' = "visit" /\ idx' = 1 /\ Replace(target, o)
      /\ UNCHANGED <<input, stateful, parents>>
  BY DEF UpdateTarget
<1>2. target \in Ids /\ parents = {} /\ N \in Nat
  BY <1>1, SizeAssumption DEF IInv, PointerInv, TypeOK, LoopShape
<1>3. o \in Service /\ o.managed
  <2>1. heap[Base(target)] = [id |-> target, version |-> "baseline", managed |-> FALSE]
    BY <1>2 DEF IInv, PointerInv, MemoryKept
  <2>2. [id |-> target, version |-> "baseline", managed |-> FALSE] \in Service
    BY <1>2 DEF Service, Versions
  <2> QED BY <2>1, <2>2 DEF Service, Versions
<1> HIDE DEF o
<1>4. /\ services'[target] > N + N
      /\ \A j \in Ids : j # target => services'[j] = services[j]
      /\ heap'[services'[target]] = o
      /\ \A j \in Ids : j # target => (Managed(j)' <=> Managed(j))
      /\ CopiesKept'
  BY <1>1, <1>2, <1>3, ReplaceAtPlace DEF IInv
<1>5. /\ FoundStateful' = FoundStateful /\ InputShape'
      /\ \A c \in Ids : IsHTTP(c)' <=> IsHTTP(c)
  BY <1>1, InputKept DEF IInv
<1>6. \A i \in Ids : services[i] = Copied(i) /\ ~Managed(i)
  BY <1>1 DEF IInv, StatefulFound, CopiesKept, Pristine, Managed
<1>7. StatefulFound'
  BY <1>1, <1>5 DEF IInv, StatefulFound, Copied
<1>8. VisitedSoFar'
  <2>1. \A j \in Ids : j # target => Pristine(j)' /\ ~Managed(j)'
    BY <1>4, <1>6 DEF Pristine, Copied
  <2>2. \A i, c \in Ids : ~Hides(c, i)'
    BY <1>1, <2>1 DEF Hides, input
  <2>3. target' = target /\ \A i \in Ids : ~(i < 1)
    BY <1>1 DEF input, Ids
  <2>4. heap'[services'[target']].managed /\ pc' # "copy"
    BY <1>1, <1>3, <1>4, <2>3
  <2>5. Managed(target)'
    BY <2>4 DEF Managed
  <2> QED BY <1>1, <1>4, <2>1, <2>2, <2>3, <2>5 DEF VisitedSoFar
<1>9. ParentsWaiting' /\ Ended'
  BY <1>1, <1>2 DEF ParentsWaiting, Ended
<1> QED BY <1>4, <1>5, <1>7, <1>8, <1>9 DEF LoopInv

(* A turn that finds a stateful pointer finds the copy at its own place;   *)
(* one that was replaced before its turn is found no more.                 *)
LEMMA FoundIsPristine ==
  ASSUME IInv, pc = "visit", NEW i \in Ids
  PROVE  /\ services[i] \in stateful <=> i \in FoundStateful /\ Pristine(i)
         /\ Pristine(i) => ~Managed(i)
         /\ \A p : p > N + N => p # Copied(i)
<1>1. N \in Nat /\ services \in [Ids -> Pointers] /\ FoundStateful \subseteq Ids
  BY SizeAssumption, FoundAreListed DEF IInv, PointerInv, TypeOK, FoundStateful
<1>2. stateful = {Copied(j) : j \in FoundStateful}
  BY DEF IInv, StatefulFound
<1>3. \A j \in Ids : Copied(j) <= N + N /\ (Copied(j) = Copied(i) => j = i)
  BY <1>1 DEF Copied, Ids
<1>4. ~Pristine(i) => services[i] > N + N
  BY DEF IInv, VisitedSoFar
<1>5. services[i] \in Nat
  BY <1>1 DEF IInv, PointerInv, TypeOK, Pointers
<1>6. ASSUME NEW j \in FoundStateful, services[i] = Copied(j) PROVE j = i /\ Pristine(i)
  <2>1. Pristine(i)
    BY <1>1, <1>3, <1>4, <1>5, <1>6
  <2> QED BY <2>1, <1>1, <1>3, <1>6 DEF Pristine
<1>7. services[i] \in stateful <=> i \in FoundStateful /\ Pristine(i)
  BY <1>2, <1>6 DEF Pristine
<1>8. Pristine(i) => ~Managed(i)
  BY DEF IInv, CopiesKept, Pristine, Managed
<1>9. \A p : p > N + N => p # Copied(i)
  BY <1>1 DEF Copied, Ids
<1> QED BY <1>7, <1>8, <1>9

LEMMA HidesKept ==
  ASSUME UNCHANGED input, NEW c \in Ids, NEW i \in Ids
  PROVE  Hides(c, i)' <=> <<i, c>> \in edges /\ ~IsHTTP(c) /\ c # target /\ Managed(c)'
BY DEF Hides, input, IsHTTP

(* The turn that isolates place idx, and the parents it leaves to be moved. *)
LEMMA VisitHitOutcome ==
  ASSUME IInv, VisitService, services[idx] \in stateful
  PROVE  /\ idx \in Ids /\ idx \in FoundStateful /\ idx # target
         /\ Pristine(idx) /\ ~Managed(idx)
         /\ services'[idx] > N + N /\ CopiesKept'
         /\ \A j \in Ids : /\ j # idx => services'[j] = services[j]
                           /\ Managed(j)' <=> j = idx \/ Managed(j)
                           /\ Pristine(j)' <=> j # idx /\ Pristine(j)
         /\ \A p \in parents' :
              ~IsHTTP(idx) /\ \E q \in Ids : <<q, idx>> \in edges /\ p = services'[q]
         /\ \A q \in Ids : <<q, idx>> \in edges /\ ~IsHTTP(idx) => services'[q] \in parents'
<1> DEFINE o == [heap[services[idx]] EXCEPT !.version = "flow", !.managed = TRUE]
<1>1. /\ pc = "visit" /\ pc' = "visit" /\ parents = {} /\ idx' = idx + 1 /\ Replace(idx, o)
      /\ UNCHANGED <<input, stateful>>
      /\ parents' = IF IsHTTP(idx) THEN {} ELSE Parents(idx)
  BY DEF VisitService
<1>2. N \in Nat /\ idx \in Ids /\ idx' \in Nat /\ target \in Ids /\ edges \subseteq Ids \X Ids
  <2>1. N \in Nat /\ idx \in 0 .. N + 1 /\ idx <= N /\ idx # 0
    BY <1>1, SizeAssumption DEF VisitService, IInv, PointerInv, TypeOK, LoopShape
  <2> QED BY <1>1, <2>1 DEF Ids, IInv, PointerInv, TypeOK
<1>3. idx \in FoundStateful /\ Pristine(idx) /\ ~Managed(idx) /\ idx # target
  <2>1. Managed(target)
    BY <1>1 DEF IInv, VisitedSoFar
  <2> QED BY <1>1, <1>2, <2>1, FoundIsPristine
<1>4. o \in Service /\ o.managed
  <2>1. heap[services[idx]] \in Service
    BY <1>1, <1>2 DEF IInv, PointerInv, TypeOK, Pointers
  <2> QED BY <2>1 DEF Service, Versions
<1> HIDE DEF o
<1>5. /\ services'[idx] > N + N
      /\ \A j \in Ids : j # idx => services'[j] = services[j]
      /\ heap'[services'[idx]] = o
      /\ \A j \in Ids : j # idx => (Managed(j)' <=> Managed(j))
      /\ CopiesKept'
  BY <1>1, <1>2, <1>4, ReplaceAtPlace DEF IInv
<1>6. /\ FoundStateful' = FoundStateful /\ InputShape' /\ UNCHANGED <<edges, target>>
      /\ \A c \in Ids : IsHTTP(c)' <=> IsHTTP(c)
      /\ \A c, i \in Ids :
           Hides(c, i)' <=> <<i, c>> \in edges /\ ~IsHTTP(c) /\ c # target /\ Managed(c)'
  BY <1>1, InputKept, HidesKept DEF IInv, input
<1>7. \A j \in Ids : j = idx => Managed(j)'
  <2>1. heap'[services'[idx]].managed
    BY <1>4, <1>5
  <2> QED BY <1>1, <2>1 DEF Managed
<1>8. \A j \in Ids : /\ Managed(j)' <=> j = idx \/ Managed(j)
                     /\ Pristine(j)' <=> j # idx /\ Pristine(j)
  <2> TAKE j \in Ids
  <2>1. Pristine(j)' <=> services'[j] = Copied(j)
    BY DEF Pristine, Copied
  <2>2. j = idx => services'[j] # Copied(j)
    BY <1>1, <1>2, <1>5, FoundIsPristine
  <2> QED BY <1>3, <1>5, <1>7, <2>1, <2>2 DEF Pristine
<1>9. /\ \A e \in edges : deps'[e].service = services'[e[1]]
                          /\ heap'[deps'[e].dependsOn].id = e[2] /\ heap'[services'[e[1]]].id = e[1]
  <2>1. PlacesKept' /\ DepsFollowServices' /\ deps' \in [edges -> [service : Pointers', dependsOn : Pointers']]
    BY <1>1, <1>6, VisitServiceKeeps DEF IInv, PointerInv, TypeOK
  <2> QED BY <1>1, <1>2, <2>1 DEF PlacesKept, DepsFollowServices
<1>10. /\ \A p \in parents' : /\ ~IsHTTP(idx)
                              /\ \E q \in Ids : /\ <<q, idx>> \in edges /\ p = services'[q]
                                                /\ heap'[p].id = q
       /\ \A q \in Ids : <<q, idx>> \in edges /\ ~IsHTTP(idx) => services'[q] \in parents'
  <2>1. \A e \in edges : e = <<e[1], e[2]>> /\ e[1] \in Ids
    BY <1>2
  <2>2. ASSUME NEW p \in parents'
        PROVE /\ ~IsHTTP(idx)
              /\ \E q \in Ids : <<q, idx>> \in edges /\ p = services'[q] /\ heap'[p].id = q
    <3>1. ~IsHTTP(idx) /\ p \in Parents(idx)
      BY <1>1, <2>2
    <3>2. PICK e \in edges : p = deps'[e].service /\ heap'[deps'[e].dependsOn].id = idx
      BY <3>1 DEF Parents
    <3> QED BY <3>1, <3>2, <2>1, <1>9
  <2>3. ASSUME NEW q \in Ids, <<q, idx>> \in edges, ~IsHTTP(idx) PROVE services'[q] \in parents'
    <3> DEFINE e == <<q, idx>>
    <3>1. e \in edges /\ e[1] = q /\ e[2] = idx
      BY <2>3
    <3>2. deps'[e].service = services'[q] /\ heap'[deps'[e].dependsOn].id = idx
      BY <3>1, <1>9
    <3>3. services'[q] \in Parents(idx)
      BY <3>1, <3>2 DEF Parents
    <3> QED BY <1>1, <2>3, <3>3
  <2> QED BY <2>2, <2>3
<1> QED BY <1>2, <1>3, <1>5, <1>8, <1>10

LEMMA VisitHitLoop ==
  ASSUME IInv, VisitService, services[idx] \in stateful PROVE LoopInv'
<1>1. /\ pc = "visit" /\ pc' = "visit" /\ parents = {} /\ idx' = idx + 1
      /\ UNCHANGED <<input, stateful>>
  BY DEF VisitService
<1>2. /\ idx \in Ids /\ idx \in FoundStateful /\ idx # target
      /\ Pristine(idx) /\ ~Managed(idx)
      /\ services'[idx] > N + N /\ CopiesKept'
      /\ \A j \in Ids : /\ j # idx => services'[j] = services[j]
                        /\ Managed(j)' <=> j = idx \/ Managed(j)
                        /\ Pristine(j)' <=> j # idx /\ Pristine(j)
  BY VisitHitOutcome
<1>3. /\ \A p \in parents' :
           ~IsHTTP(idx) /\ \E q \in Ids : <<q, idx>> \in edges /\ p = services'[q]
      /\ \A q \in Ids : <<q, idx>> \in edges /\ ~IsHTTP(idx) => services'[q] \in parents'
  BY VisitHitOutcome
<1>4. /\ FoundStateful' = FoundStateful /\ InputShape' /\ UNCHANGED <<edges, target>>
      /\ \A c \in Ids : IsHTTP(c)' <=> IsHTTP(c)
      /\ \A c, i \in Ids :
           Hides(c, i)' <=> <<i, c>> \in edges /\ ~IsHTTP(c) /\ c # target /\ Managed(c)'
  BY <1>1, InputKept, HidesKept DEF IInv, input
<1>5. N \in Nat /\ idx \in Ids /\ idx' \in Nat /\ target \in Ids
  BY <1>1, <1>2, SizeAssumption DEF Ids, IInv, PointerInv, TypeOK
<1>6. VisitedSoFar'
  <2>1. Managed(target)'
    <3>1. Managed(target)
      BY <1>1 DEF IInv, VisitedSoFar
    <3>2. heap'[services'[target']].managed
      BY <1>1, <1>2, <1>4, <1>5, <3>1 DEF Managed
    <3> QED BY <1>1, <3>2 DEF Managed
  <2>2. ASSUME NEW i \in Ids
        PROVE  /\ ~Pristine(i)' => services'[i] > N + N
               /\ Managed(i)' /\ i # target => i \in FoundStateful /\ i < idx + 1
               /\ i \in FoundStateful \ {target} /\ i < idx + 1 => ~Pristine(i)'
    <3>1. /\ ~Pristine(i) => services[i] > N + N
          /\ Managed(i) /\ i # target => i \in FoundStateful /\ i < idx
          /\ i \in FoundStateful \ {target} /\ i < idx => ~Pristine(i)
      BY <1>1 DEF IInv, VisitedSoFar
    <3>2. i < idx + 1 <=> i < idx \/ i = idx
      BY <1>5 DEF Ids
    <3> QED BY <3>1, <3>2, <1>2
  <2>3. ASSUME NEW i \in Ids, i \in FoundStateful, ~Pristine(i)', ~Managed(i)'
        PROVE  \E c \in 1 .. i - 1 : Hides(c, i)'
    <3>1. ~Pristine(i) /\ ~Managed(i)
      BY <1>2, <2>3
    <3>2. PICK c \in 1 .. i - 1 : Hides(c, i)
      BY <1>1, <2>3, <3>1 DEF IInv, VisitedSoFar
    <3>3. c \in Ids
      BY <1>5 DEF Ids
    <3>4. Hides(c, i)'
      BY <3>2, <3>3, <1>4, <1>2 DEF Hides
    <3> QED BY <3>4
  <2>4. ASSUME NEW i \in Ids, NEW c \in Ids, Hides(c, i)'
        PROVE  /\ ~Pristine(i)' \/ services'[i] \in parents'
               /\ c < i /\ i # target => ~Managed(i)'
    <3>1. <<i, c>> \in edges /\ ~IsHTTP(c) /\ c # target /\ (c = idx \/ Managed(c))
      BY <1>4, <1>2, <2>4
    <3>2. CASE c = idx
      <4>1. services'[i] \in parents'
        BY <1>3, <3>1, <3>2
      <4>2. c < i => i # idx /\ ~(i < idx)
        BY <1>5, <3>2 DEF Ids
      <4>3. Managed(i) /\ i # target => i < idx
        BY <1>1 DEF IInv, VisitedSoFar
      <4> QED BY <4>1, <4>2, <4>3, <1>2
    <3>3. CASE Managed(c)
      <4>1. Hides(c, i)
        BY <3>1, <3>3 DEF Hides
      <4>2. ~Pristine(i) /\ (c < i /\ i # target => ~Managed(i))
        BY <1>1, <4>1 DEF IInv, VisitedSoFar
      <4> QED BY <4>2, <1>2
    <3> QED BY <3>1, <3>2, <3>3
  <2> QED BY <1>1, <1>4, <2>1, <2>2, <2>3, <2>4 DEF VisitedSoFar
<1>7. ParentsWaiting'
  <2>1. ASSUME NEW p \in parents'
        PROVE  \E q, c \in Ids : p = services'[q] /\ idx' = c + 1 /\ Hides(c, q)'
    <3>1. ~IsHTTP(idx)
      BY <1>3
    <3>2. PICK q \in Ids : <<q, idx>> \in edges /\ p = services'[q]
      BY <1>3
    <3>3. \A j \in Ids : j = idx => Hides(j, q)'
      BY <1>2, <1>4, <3>1, <3>2
    <3> QED BY <1>1, <1>5, <3>2, <3>3
  <2> QED BY <1>1, <2>1 DEF ParentsWaiting, Ids
<1>8. StatefulFound' /\ Ended'
  BY <1>1, <1>4 DEF IInv, StatefulFound, Ended, Copied
<1> QED BY <1>2, <1>4, <1>6, <1>7, <1>8 DEF LoopInv

LEMMA VisitMissLoop ==
  ASSUME IInv, VisitService, services[idx] \notin stateful PROVE LoopInv'
<1>1. /\ pc = "visit" /\ pc' = "visit" /\ parents = {} /\ idx' = idx + 1
      /\ UNCHANGED <<input, stateful, heap, services, parents>>
  BY DEF VisitService
<1>2. N \in Nat /\ idx \in Ids
  <2>1. N \in Nat /\ idx \in 0 .. N + 1 /\ idx <= N /\ idx # 0
    BY <1>1, SizeAssumption DEF VisitService, IInv, PointerInv, TypeOK, LoopShape
  <2> QED BY <2>1 DEF Ids
<1>3. idx \in FoundStateful => ~Pristine(idx)
  BY <1>1, <1>2, FoundIsPristine
<1>4. /\ FoundStateful' = FoundStateful /\ InputShape' /\ UNCHANGED <<edges, target>>
      /\ \A c, i \in Ids : Hides(c, i)' <=> Hides(c, i)
  BY <1>1, InputKept DEF IInv, input, Hides, IsHTTP, Managed
<1>5. \A i \in Ids : (Managed(i)' <=> Managed(i)) /\ (Pristine(i)' <=> Pristine(i))
  BY <1>1 DEF Managed, Pristine, Copied
<1>6. VisitedSoFar'
  <2>1. Managed(target)'
    BY <1>1, <1>4 DEF IInv, VisitedSoFar, Managed
  <2>2. ASSUME NEW i \in Ids
        PROVE  /\ ~Pristine(i)' => services'[i] > N + N
               /\ Managed(i)' /\ i # target => i \in FoundStateful /\ i < idx + 1
               /\ i \in FoundStateful \ {target} /\ i < idx + 1 => ~Pristine(i)'
    <3>1. /\ ~Pristine(i) => services[i] > N + N
          /\ Managed(i) /\ i # target => i \in FoundStateful /\ i < idx
          /\ i \in FoundStateful \ {target} /\ i < idx => ~Pristine(i)
      BY <1>1 DEF IInv, VisitedSoFar
    <3>2. i < idx + 1 <=> i < idx \/ i = idx
      BY <1>2 DEF Ids
    <3> QED BY <3>1, <3>2, <1>1, <1>3, <1>5
  <2>3. ASSUME NEW i \in Ids, i \in FoundStateful, ~Pristine(i)', ~Managed(i)'
        PROVE  \E c \in 1 .. i - 1 : Hides(c, i)'
    <3>1. PICK c \in 1 .. i - 1 : Hides(c, i)
      BY <1>1, <1>5, <2>3 DEF IInv, VisitedSoFar
    <3>2. c \in Ids
      BY <1>2 DEF Ids
    <3> QED BY <3>1, <3>2, <1>4
  <2>4. ASSUME NEW i \in Ids, NEW c \in Ids, Hides(c, i)'
        PROVE  /\ ~Pristine(i)' \/ services'[i] \in parents'
               /\ c < i /\ i # target => ~Managed(i)'
    BY <1>1, <1>4, <1>5, <2>4 DEF IInv, VisitedSoFar
  <2> QED BY <1>1, <1>4, <2>1, <2>2, <2>3, <2>4 DEF VisitedSoFar
<1>7. CopiesKept' /\ StatefulFound' /\ ParentsWaiting' /\ Ended'
  BY <1>1, <1>4 DEF IInv, CopiesKept, StatefulFound, ParentsWaiting, Ended, Copied
<1> QED BY <1>4, <1>6, <1>7 DEF LoopInv

(* A parent moved to the version is replaced and not managed: its turn, if *)
(* it is still to come, will not find it.  If its turn is over it had been *)
(* replaced then, since it was to be isolated.                             *)
LEMMA MoveParentLoop ==
  ASSUME IInv, NEW p \in DOMAIN heap, MoveParent(p) PROVE LoopInv'
<1> DEFINE o == [heap[p] EXCEPT !.version = "flow"]
<1>1. /\ p \in parents /\ parents' = parents \ {p}
      /\ Replace(heap[p].id, o) /\ UNCHANGED <<input, stateful, idx, pc>>
  BY DEF MoveParent
<1>2. pc = "visit" /\ pc' = "visit" /\ N \in Nat
  BY <1>1, SizeAssumption DEF IInv, PointerInv, LoopShape
<1>3. PICK q, c \in Ids : p = services[q] /\ idx = c + 1 /\ Hides(c, q)
  BY <1>1 DEF IInv, ParentsWaiting
<1>4. \A i \in Ids : heap[services[i]].id = i /\ heap[services[i]] \in Service
                     /\ services[i] \in Pointers
  BY <1>2 DEF IInv, PointerInv, PlacesKept, TypeOK, Pointers
<1>5. heap[p].id = q /\ Replace(q, o)
  BY <1>1, <1>3, <1>4
<1>6. o \in Service /\ (o.managed <=> heap[p].managed)
  BY <1>3, <1>4 DEF Service, Versions
<1> HIDE DEF o
<1>7. /\ services'[q] > N + N
      /\ \A j \in Ids : j # q => services'[j] = services[j]
      /\ heap'[services'[q]] = o
      /\ \A j \in Ids : j # q => (Managed(j)' <=> Managed(j))
      /\ CopiesKept'
  BY <1>1, <1>2, <1>5, <1>6, ReplaceAtPlace DEF IInv
<1>8. \A j \in Ids : (Managed(j)' <=> Managed(j)) /\ (Pristine(j)' <=> j # q /\ Pristine(j))
  <2> TAKE j \in Ids
  <2>1. j = q => (Managed(j)' <=> Managed(j))
    BY <1>2, <1>3, <1>6, <1>7 DEF Managed
  <2>2. Pristine(j)' <=> services'[j] = Copied(j)
    BY DEF Pristine, Copied
  <2>3. j = q => services'[j] # Copied(j)
    BY <1>2, <1>7, FoundIsPristine
  <2> QED BY <1>7, <2>1, <2>2, <2>3 DEF Pristine
<1>9. /\ FoundStateful' = FoundStateful /\ InputShape' /\ UNCHANGED <<edges, target>>
      /\ \A b, i \in Ids : Hides(b, i)' <=> Hides(b, i)
  BY <1>1, <1>8, InputKept DEF IInv, input, Hides, IsHTTP
<1>10. \A i \in Ids : services[i] = p => i = q
  BY <1>4, <1>5
<1>11. VisitedSoFar'
  <2>1. Managed(target) /\ target \in Ids
    BY <1>2 DEF IInv, VisitedSoFar, PointerInv, TypeOK
  <2>2. heap'[services'[target']].managed
    BY <2>1, <1>2, <1>8, <1>9 DEF Managed
  <2>3. Managed(target)'
    BY <1>2, <2>2 DEF Managed
  <2>4. ASSUME NEW i \in Ids
        PROVE  /\ ~Pristine(i)' => services'[i] > N + N
               /\ Managed(i)' /\ i # target => i \in FoundStateful /\ i < idx
               /\ i \in FoundStateful \ {target} /\ i < idx => ~Pristine(i)'
    BY <1>2, <1>7, <1>8 DEF IInv, VisitedSoFar
  <2>5. ASSUME NEW i \in Ids, i \in FoundStateful, ~Pristine(i)', ~Managed(i)'
        PROVE  \E b \in 1 .. i - 1 : Hides(b, i)'
    <3>1. ~Managed(i)
      BY <1>8, <2>5
    <3>2. CASE ~Pristine(i)
      <4>1. PICK b \in 1 .. i - 1 : Hides(b, i)
        BY <1>2, <2>5, <3>1, <3>2 DEF IInv, VisitedSoFar
      <4>2. b \in Ids
        BY <1>2 DEF Ids
      <4> QED BY <4>1, <4>2, <1>9
    <3>3. CASE Pristine(i)
      <4>1. i = q /\ i # target
        BY <1>8, <2>1, <2>5, <3>1, <3>3
      <4>2. ~(i < idx)
        BY <1>2, <2>5, <3>3, <4>1 DEF IInv, VisitedSoFar
      <4>3. i # c
        BY <1>3, <4>1 DEF Hides, IInv, InputShape
      <4>4. c \in 1 .. i - 1
        BY <1>2, <1>3, <4>2, <4>3 DEF Ids
      <4> QED BY <4>4, <4>1, <1>3, <1>9
    <3> QED BY <3>2, <3>3
  <2>6. ASSUME NEW i \in Ids, NEW b \in Ids, Hides(b, i)'
        PROVE  /\ ~Pristine(i)' \/ services'[i] \in parents'
               /\ b < i /\ i # target => ~Managed(i)'
    <3>1. /\ ~Pristine(i) \/ services[i] \in parents
          /\ b < i /\ i # target => ~Managed(i)
      BY <1>2, <1>9, <2>6 DEF IInv, VisitedSoFar
    <3> QED BY <3>1, <1>1, <1>7, <1>8, <1>10
  <2> QED BY <1>1, <1>9, <2>3, <2>4, <2>5, <2>6 DEF VisitedSoFar
<1>12. ParentsWaiting'
  <2>1. ASSUME NEW r \in parents'
        PROVE  \E k, b \in Ids : r = services'[k] /\ idx' = b + 1 /\ Hides(b, k)'
    <3>1. r \in parents /\ r # p
      BY <1>1, <2>1
    <3>2. PICK k, b \in Ids : r = services[k] /\ idx = b + 1 /\ Hides(b, k)
      BY <3>1 DEF IInv, ParentsWaiting
    <3> QED BY <3>1, <3>2, <1>1, <1>3, <1>7, <1>9
  <2> QED BY <1>2, <2>1 DEF ParentsWaiting
<1>13. StatefulFound' /\ Ended'
  BY <1>1, <1>2, <1>9 DEF IInv, StatefulFound, Ended, Copied
<1> QED BY <1>7, <1>9, <1>11, <1>12, <1>13 DEF LoopInv

LEMMA EndVisitsLoop == ASSUME IInv, EndVisits PROVE LoopInv'
<1>1. /\ pc = "visit" /\ pc' = "rebase" /\ parents = {} /\ idx > N
      /\ UNCHANGED <<input, heap, services, stateful, idx, parents>>
  BY DEF EndVisits
<1>2. idx = N + 1
  BY <1>1, SizeAssumption DEF IInv, PointerInv, TypeOK
<1>3. /\ FoundStateful' = FoundStateful /\ InputShape' /\ UNCHANGED <<edges, target>>
      /\ \A c, i \in Ids : Hides(c, i)' <=> Hides(c, i)
  BY <1>1, InputKept DEF IInv, input, Hides, IsHTTP, Managed
<1>4. \A i \in Ids : (Managed(i)' <=> Managed(i)) /\ (Pristine(i)' <=> Pristine(i))
  BY <1>1 DEF Managed, Pristine, Copied
<1>5. VisitedSoFar'
  <2>1. Managed(target)'
    BY <1>1, <1>3 DEF IInv, VisitedSoFar, Managed
  <2>2. ASSUME NEW i \in Ids, i \in FoundStateful, ~Pristine(i)', ~Managed(i)'
        PROVE  \E c \in 1 .. i - 1 : Hides(c, i)'
    <3>1. PICK c \in 1 .. i - 1 : Hides(c, i)
      BY <1>1, <1>4, <2>2 DEF IInv, VisitedSoFar
    <3>2. c \in Ids
      BY SizeAssumption DEF Ids
    <3> QED BY <3>1, <3>2, <1>3
  <2> QED BY <1>1, <1>3, <1>4, <2>1, <2>2 DEF IInv, VisitedSoFar
<1>6. CopiesKept' /\ StatefulFound' /\ ParentsWaiting' /\ Ended'
  BY <1>1, <1>2, <1>3 DEF IInv, CopiesKept, StatefulFound, ParentsWaiting, Ended, Copied
<1> QED BY <1>3, <1>5, <1>6 DEF LoopInv

(* The place ends with what is managed, and with the base's object else.   *)
LEMMA RebaseOutcome ==
  ASSUME IInv, Rebase
  PROVE  \A i \in Ids : /\ Managed(i)' <=> Managed(i)
                        /\ Managed(i) <=> services'[i] # Base(i)
<1>1. pc = "rebase" /\ pc' = "done" /\ heap' = heap /\ services' = [i \in Ids |-> Rebased(services[i])]
  BY DEF Rebase
<1> TAKE i \in Ids
<1>2. heap[services[i]].id = i
  BY <1>1 DEF IInv, PointerInv, PlacesKept
<1>3. ~heap[Base(i)].managed
  <2>1. heap[Base(i)] = [id |-> i, version |-> "baseline", managed |-> FALSE]
    BY DEF IInv, PointerInv, MemoryKept
  <2> QED BY <2>1, BaselineService
<1>4. services'[i] = IF heap[services[i]].managed THEN services[i] ELSE Base(i)
  BY <1>1, <1>2 DEF Rebased
<1>5. /\ Managed(i) <=> heap[services[i]].managed
      /\ Managed(i)' <=> heap[services'[i]].managed
  BY <1>1 DEF Managed
<1> QED BY <1>3, <1>4, <1>5

LEMMA RebaseLoop == ASSUME IInv, Rebase PROVE LoopInv'
<1>1. /\ pc = "rebase" /\ pc' = "done" /\ parents = {} /\ parents' = {} /\ idx = N + 1
      /\ UNCHANGED <<input, heap, stateful, idx>>
  BY DEF Rebase, IInv, ParentsWaiting
<1>2. N \in Nat /\ target \in Ids
  BY SizeAssumption DEF IInv, PointerInv, TypeOK
<1>3. \A i \in Ids : (Managed(i)' <=> Managed(i)) /\ (Managed(i)' <=> services'[i] # Base(i))
  BY RebaseOutcome
<1>4. /\ FoundStateful' = FoundStateful /\ InputShape' /\ UNCHANGED <<class, edges, target>>
  BY <1>1, InputKept DEF IInv, input
<1> DEFINE R    == {i \in Ids : Managed(i)}
           http == {i \in Ids : IsHTTP(i)}
<1>5. \A i \in Ids : /\ Managed(i) /\ i # target => i \in FoundStateful
                     /\ i \in FoundStateful \ {target} /\ ~Managed(i)
                          => \E c \in 1 .. i - 1 : Hides(c, i)
  <2> TAKE i \in Ids
  <2>1. i < idx
    BY <1>1, <1>2 DEF Ids
  <2> QED BY <1>1, <2>1 DEF IInv, VisitedSoFar
<1>6. Managed(target) /\ \A c, i \in Ids : Hides(c, i) /\ c < i /\ i # target => ~Managed(i)
  BY <1>1 DEF IInv, VisitedSoFar
<1>7. R = {target} \cup
          {q \in Ids : /\ q \in FoundStateful \ {target}
                       /\ \A c \in 1 .. q - 1 :
                            <<q, c>> \in edges /\ c \notin http => c \notin R \ {target}}
  <2>1. ASSUME NEW q \in Ids, NEW c \in 1 .. q - 1
        PROVE  /\ c \in Ids /\ c < q
               /\ Hides(c, q) <=> <<q, c>> \in edges /\ c \notin http /\ c \in R \ {target}
    <3>1. c \in Ids /\ c < q
      BY <1>2 DEF Ids
    <3> QED BY <3>1 DEF Hides
  <2>2. ASSUME NEW q \in Ids, q # target
        PROVE  q \in R <=> /\ q \in FoundStateful \ {target}
                           /\ \A c \in 1 .. q - 1 :
                                <<q, c>> \in edges /\ c \notin http => c \notin R \ {target}
    <3>1. q \in R => q \in FoundStateful \ {target} /\ \A c \in 1 .. q - 1 : ~Hides(c, q)
      BY <2>1, <2>2, <1>5, <1>6
    <3>2. q \in FoundStateful \ {target} /\ (\A c \in 1 .. q - 1 : ~Hides(c, q)) => q \in R
      BY <1>5
    <3> QED BY <3>1, <3>2, <2>1
  <2>3. target \in R
    BY <1>2, <1>6
  <2> HIDE DEF R, http
  <2>4. R \subseteq Ids
    BY DEF R
  <2> QED BY <2>2, <2>3, <2>4, <1>2
<1>8. Isolates(InListOrder, edges, http, FoundStateful, target, R)
  <2> HIDE DEF R, http
  <2> QED BY <1>7, EquationByPlace
<1>9. http' = http /\ R' = R
  BY <1>3, <1>4 DEF IsHTTP
<1>10. Ended'
  <2>1. Isolates([i \in Ids |-> i], edges', http', FoundStateful', target', R')
    <3> HIDE DEF R, http
    <3> QED BY <1>4, <1>8, <1>9 DEF InListOrder
  <2> QED BY <1>1, <1>3, <2>1 DEF Ended
<1>11. CopiesKept' /\ StatefulFound' /\ VisitedSoFar' /\ ParentsWaiting'
  BY <1>1 DEF IInv, CopiesKept, Copied, StatefulFound, VisitedSoFar, ParentsWaiting
<1> QED BY <1>4, <1>10, <1>11 DEF LoopInv

LEMMA StutterLoop == ASSUME IInv, UNCHANGED vars PROVE LoopInv'
<1>1. UNCHANGED <<input, heap, services, stateful, idx, parents, pc>>
  BY DEF vars
<1>2. /\ FoundStateful' = FoundStateful /\ InputShape' /\ UNCHANGED <<class, edges, target>>
      /\ \A c, i \in Ids : Hides(c, i)' <=> Hides(c, i)
  BY <1>1, InputKept DEF IInv, input, Hides, IsHTTP, Managed
<1>3. \A i \in Ids : (Managed(i)' <=> Managed(i)) /\ (Pristine(i)' <=> Pristine(i))
  BY <1>1 DEF Managed, Pristine, Copied
<1>4. VisitedSoFar'
  <2>1. ASSUME pc' \in {"visit", "rebase"} PROVE Managed(target)'
    BY <1>1, <1>2, <2>1 DEF IInv, VisitedSoFar, Managed
  <2>2. ASSUME pc' \in {"visit", "rebase"},
               NEW i \in Ids, i \in FoundStateful, ~Pristine(i)', ~Managed(i)'
        PROVE  \E c \in 1 .. i - 1 : Hides(c, i)'
    <3>1. PICK c \in 1 .. i - 1 : Hides(c, i)
      BY <1>1, <1>3, <2>2 DEF IInv, VisitedSoFar
    <3>2. c \in Ids
      BY SizeAssumption DEF Ids
    <3> QED BY <3>1, <3>2, <1>2
  <2> QED BY <1>1, <1>2, <1>3, <2>1, <2>2 DEF IInv, VisitedSoFar
<1>5. Ended'
  <2>1. {i \in Ids : Managed(i)}' = {i \in Ids : Managed(i)}
        /\ {i \in Ids : IsHTTP(i)}' = {i \in Ids : IsHTTP(i)}
    BY <1>2, <1>3 DEF IsHTTP
  <2> QED BY <1>1, <1>2, <1>3, <2>1 DEF IInv, Ended
<1>6. CopiesKept' /\ StatefulFound' /\ ParentsWaiting'
  BY <1>1, <1>2, <1>3 DEF IInv, CopiesKept, StatefulFound, ParentsWaiting, Copied
<1> QED BY <1>2, <1>4, <1>5, <1>6 DEF LoopInv

-----------------------------------------------------------------------------
(* The whole invariant, which TLC checks on every state of its instance.   *)
THEOREM DerivationOutcome == Spec => []IInv
<1>1. Init => IInv
  BY InitEstablishes, InitLoop DEF IInv, LoopInv
<1>2. ASSUME IInv, [Next]_vars PROVE IInv'
  <2>1. PointerInv
    BY <1>2 DEF IInv
  <2>2. PointerInv'
    BY <1>2, <2>1, CopyKeeps, FindStatefulKeeps, UpdateTargetKeeps, VisitServiceKeeps,
       MoveParentKeeps, EndVisitsKeeps, RebaseKeeps, StutterKeeps DEF Next
  <2>3. LoopInv'
    BY <1>2, CopyLoop, FindStatefulLoop, UpdateTargetLoop, VisitHitLoop, VisitMissLoop,
       MoveParentLoop, EndVisitsLoop, RebaseLoop, StutterLoop DEF Next
  <2> QED BY <2>2, <2>3 DEF IInv, LoopInv
<1> QED BY <1>1, <1>2, PTL DEF Spec

(* A flow gets versions of its own of exactly the services of Isolated,    *)
(* whatever the graph and the order of the list (topology.go 105-145).     *)
THEOREM IsolationCorrect == Spec => []IsolatedExactly
<1>1. ASSUME IInv PROVE IsolatedExactly
  <2>1. SUFFICES ASSUME pc = "done"
                 PROVE  {i \in Ids : services[i] # Base(i)}
                          = Isolated([i \in Ids |-> i], edges, Stateful,
                                     {i \in Ids : IsHTTP(i)}, vertex, target)
    BY DEF IsolatedExactly
  <2> DEFINE R    == {i \in Ids : Managed(i)}
             http == {i \in Ids : IsHTTP(i)}
  <2>2. R = {i \in Ids : services[i] # Base(i)}
    BY <1>1, <2>1 DEF IInv, Ended
  <2>3. target \in Ids /\ R \in SUBSET Ids
    BY <1>1 DEF IInv, PointerInv, TypeOK
  <2>4. Isolates(InListOrder, edges, http, FoundStateful, target, R)
    BY <1>1, <2>1 DEF IInv, Ended, InListOrder
  <2> HIDE DEF R, http
  <2>5. R = Isolated(InListOrder, edges, Stateful, http, vertex, target)
    BY <2>3, <2>4, IsolatedSolves DEF FoundStateful
  <2> QED BY <2>2, <2>5 DEF InListOrder, http
<1> QED BY <1>1, DerivationOutcome, PTL

(* A flow leaves the other namespaces alone unless the hash of one of its  *)
(* services is taken by a service of another (service.go 161-190).         *)
THEOREM NamespacesCorrect == Spec => []StaysInNamespace
<1>1. ASSUME IInv PROVE StaysInNamespace
  <2>1. SUFFICES ASSUME pc = "done", Unmistakable, NEW i \in Ids, services[i] # Base(i), i # target
                 PROVE  space[i] = space[target]
    BY DEF StaysInNamespace
  <2>2. target \in Ids /\ edges \subseteq Ids \X Ids /\ vertex \in [Ids -> Ids]
    BY <1>1 DEF IInv, PointerInv, TypeOK
  <2> DEFINE R  == {j \in Ids : Managed(j)}
             QE == {<<vertex[e[1]], vertex[e[2]]>> : e \in edges}
             C  == {v \in Ids : space[v] = space[target]}
  <2>3. i \in FoundStateful
    <3>1. i \in R
      BY <1>1, <2>1 DEF IInv, Ended
    <3>2. Isolates(InListOrder, edges, {j \in Ids : IsHTTP(j)}, FoundStateful, target, R)
      BY <1>1, <2>1 DEF IInv, Ended, InListOrder
    <3> HIDE DEF R
    <3> QED BY <3>1, <3>2, <2>1, EquationByPlace
  <2>4. PICK s \in Ids : i = vertex[s] /\ vertex[s] \in Reach(QE, vertex[target])
    BY <2>3 DEF FoundStateful, Found
  <2>5. \A v \in Ids : space[v] = space[target] <=> space[vertex[v]] = space[target]
    BY <2>1 DEF Unmistakable
  <2>6. vertex[target] \in C
    BY <2>2, <2>5
  <2>7. \A f \in QE : f[1] \in C => f[2] \in C
    <3>1. SUFFICES ASSUME NEW e \in edges, vertex[e[1]] \in C PROVE vertex[e[2]] \in C
      OBVIOUS
    <3>2. e[1] \in Ids /\ e[2] \in Ids /\ space[e[1]] = space[e[2]]
      BY <1>1, <2>2 DEF IInv, InputShape
    <3> QED BY <3>1, <3>2, <2>2, <2>5
  <2> DEFINE ends == {vertex[target]} \cup {f[2] : f \in QE}
  <2>8. C \cap ends \in SUBSET ends /\ \A f \in QE : f[1] \in C \cap ends => f[2] \in C \cap ends
    <3> HIDE DEF C, QE
    <3> QED BY <2>7
  <2>9. i \in C
    <3> HIDE DEF C, QE
    <3> QED BY <2>4, <2>6, <2>8 DEF Reach
  <2> QED BY <2>9
<1> QED BY <1>1, DerivationOutcome, PTL

-----------------------------------------------------------------------------
(* Refinement: steps of the code are steps of the promise or none.         *)
IsolatedNow == {i \in Ids : Managed(i)}
HiddenNow   == {i \in Ids : ~Managed(i) /\ Replaced(i)}
TcpNow      == {i \in Ids : ~IsHTTP(i)}

LEMMA InputShows ==
  ASSUME UNCHANGED input PROVE UNCHANGED <<edges, TcpNow, FoundStateful, target>>
BY InputKept DEF input, TcpNow, IsHTTP

LEMMA InitPromise == Init => Promise!Init
<1> SUFFICES ASSUME Init PROVE Promise!Init
  OBVIOUS
<1>1. edges \subseteq Ids \X Ids /\ target \in Ids /\ pc = "copy" /\ vertex \in [Ids -> Ids]
  BY DEF Init
<1>2. IsolatedNow = {} /\ HiddenNow = {} /\ TcpNow \subseteq Ids
  BY <1>1 DEF IsolatedNow, HiddenNow, TcpNow, Managed, Replaced
<1>3. FoundStateful \subseteq Ids
  BY <1>1, FoundAreListed DEF FoundStateful
<1> QED BY <1>1, <1>2, <1>3 DEF Promise!Init, IsolatedNow, HiddenNow, TcpNow

(* Steps that do not show.                                                 *)
LEMMA Hidden ==
  ASSUME UNCHANGED input, pc # "done", pc' # "done",
         \A i \in Ids : (Managed(i)' <=> Managed(i)) /\ (Replaced(i)' <=> Replaced(i))
  PROVE  UNCHANGED Promise!vars
<1>1. IsolatedNow' = IsolatedNow /\ HiddenNow' = HiddenNow
  BY DEF IsolatedNow, HiddenNow
<1> QED BY <1>1, InputShows DEF Promise!vars, IsolatedNow, HiddenNow, TcpNow

LEMMA CopyPromise == ASSUME IInv, CopiesKept', Copy PROVE UNCHANGED Promise!vars
<1>1. pc = "copy" /\ pc' = "find" /\ UNCHANGED <<input, parents>> /\ parents = {}
      /\ services' = [i \in Ids |-> Copied(i)]
  BY DEF Copy, IInv, PointerInv, LoopShape
<1>2. \A i \in Ids : /\ ~Managed(i) /\ ~Replaced(i) /\ ~Managed(i)' /\ ~Replaced(i)'
  BY <1>1 DEF Managed, Replaced, CopiesKept, Copied, Base
<1> QED BY <1>1, <1>2, Hidden

LEMMA UpdateTargetPromise == ASSUME IInv, IInv', UpdateTarget PROVE Promise!Begin
<1>1. /\ pc = "target" /\ pc' = "visit" /\ parents = {} /\ UNCHANGED <<input, parents>>
      /\ services' = [services EXCEPT ![target] = Len(heap) + 1]
      /\ target \in Ids /\ services \in [Ids -> Pointers] /\ UNCHANGED target
  BY DEF UpdateTarget, Replace, input, IInv, PointerInv, TypeOK, LoopShape
<1>2. \A i \in Ids : services[i] = Copied(i) /\ ~Managed(i) /\ ~Replaced(i)
  BY <1>1 DEF IInv, StatefulFound, CopiesKept, Pristine, Managed, Replaced
<1>3. Managed(target)'
  BY <1>1 DEF IInv, VisitedSoFar
<1>4. \A i \in Ids : i # target => services'[i] = Copied(i)
  BY <1>1, <1>2
<1>5. \A i \in Ids : i # target => ~Managed(i)' /\ ~Replaced(i)'
  BY <1>1, <1>4 DEF IInv, CopiesKept, Managed, Replaced, Copied, Base
<1>6. \A i \in Ids : i = target => Managed(i)'
  BY <1>1, <1>3 DEF Managed
<1>7. IsolatedNow = {} /\ IsolatedNow' = {target} /\ HiddenNow = {} /\ HiddenNow' = {}
  BY <1>1, <1>2, <1>5, <1>6 DEF IsolatedNow, HiddenNow
<1> QED BY <1>1, <1>7, InputShows DEF Promise!Begin, IsolatedNow, HiddenNow, TcpNow

LEMMA VisitHitPromise ==
  ASSUME IInv, VisitService, services[idx] \in stateful
  PROVE  Promise!Isolate
<1>1. pc = "visit" /\ pc' = "visit" /\ parents = {} /\ UNCHANGED input
  BY DEF VisitService
<1>2. /\ idx \in Ids /\ idx \in FoundStateful
      /\ Pristine(idx) /\ ~Managed(idx)
      /\ \A j \in Ids : /\ j # idx => services'[j] = services[j]
                        /\ Managed(j)' <=> j = idx \/ Managed(j)
      /\ \A p \in parents' :
           ~IsHTTP(idx) /\ \E q \in Ids : <<q, idx>> \in edges /\ p = services'[q]
      /\ \A q \in Ids : <<q, idx>> \in edges /\ ~IsHTTP(idx) => services'[q] \in parents'
  BY VisitHitOutcome
<1>3. \A i, j \in Ids : services'[i] = services'[j] => i = j
  <2>1. PointerInv'
    BY VisitServiceKeeps DEF IInv
  <2> QED BY <1>1, <2>1 DEF PointerInv, PlacesKept
<1>4. IsolatedNow' = IsolatedNow \cup {idx} /\ idx \notin IsolatedNow \cup HiddenNow
      /\ target \in IsolatedNow
  <2>1. IsolatedNow' = IsolatedNow \cup {idx}
    BY <1>2 DEF IsolatedNow
  <2>2. idx \notin IsolatedNow
    BY <1>2 DEF IsolatedNow
  <2>3. ~Replaced(idx)
    BY <1>1, <1>2 DEF Replaced, Pristine
  <2>4. idx \notin HiddenNow
    BY <2>3 DEF HiddenNow
  <2>5. target \in Ids /\ Managed(target)
    BY <1>1 DEF IInv, VisitedSoFar, PointerInv, TypeOK
  <2> QED BY <2>1, <2>2, <2>4, <2>5 DEF IsolatedNow
<1>5. \A j \in Ids : j # idx =>
        (Replaced(j)' <=> Replaced(j) \/ (<<j, idx>> \in edges /\ ~IsHTTP(idx)))
  <2> TAKE j \in Ids
  <2>1. HAVE j # idx
  <2>2. services'[j] \in parents' <=> <<j, idx>> \in edges /\ ~IsHTTP(idx)
    BY <1>2, <1>3
  <2>3. Replaced(j) <=> services[j] \notin {Base(j), Copied(j)}
    BY <1>1 DEF Replaced
  <2>4. Replaced(j)' <=> services'[j] \notin {Base(j), Copied(j)} \/ services'[j] \in parents'
    BY <1>1 DEF Replaced, Base, Copied
  <2> QED BY <1>2, <2>1, <2>2, <2>3, <2>4
<1>6. HiddenNow' = HiddenNow \cup IF idx \in TcpNow THEN {p \in Ids : <<p, idx>> \in edges} \ IsolatedNow' ELSE {}
  <2>1. \A j \in Ids : j \in HiddenNow' <=> ~Managed(j)' /\ Replaced(j)'
    BY DEF HiddenNow
  <2>2. \A j \in Ids : /\ j \in HiddenNow <=> ~Managed(j) /\ Replaced(j)
                       /\ j \in IsolatedNow' <=> Managed(j)'
    BY DEF HiddenNow, IsolatedNow
  <2>3. idx \in TcpNow <=> ~IsHTTP(idx)
    BY <1>2 DEF TcpNow
  <2>4. HiddenNow \subseteq Ids /\ HiddenNow' \subseteq Ids
    BY DEF HiddenNow
  <2>5. idx \notin HiddenNow
    BY <1>4
  <2> QED BY <2>1, <2>2, <2>3, <2>4, <2>5, <1>2, <1>4, <1>5
<1>7. idx \in FoundStateful \ (IsolatedNow \cup HiddenNow) /\ pc # "done" /\ pc' # "done"
  BY <1>1, <1>2, <1>4
<1> QED BY <1>1, <1>4, <1>6, <1>7, InputShows
        DEF Promise!Isolate, Promise!Parents, IsolatedNow, HiddenNow, TcpNow

LEMMA VisitMissPromise ==
  ASSUME IInv, VisitService, services[idx] \notin stateful PROVE UNCHANGED Promise!vars
<1>1. UNCHANGED <<input, heap, services, parents, pc>> /\ pc = "visit"
  BY DEF VisitService
<1>2. \A i \in Ids : (Managed(i)' <=> Managed(i)) /\ (Replaced(i)' <=> Replaced(i))
  BY <1>1 DEF Managed, Replaced, Base, Copied
<1> QED BY <1>1, <1>2, Hidden

LEMMA MoveParentPromise ==
  ASSUME IInv, IInv', NEW p \in DOMAIN heap, MoveParent(p) PROVE UNCHANGED Promise!vars
<1> DEFINE o == [heap[p] EXCEPT !.version = "flow"]
<1>1. /\ p \in parents /\ parents' = parents \ {p} /\ pc = "visit" /\ pc' = "visit"
      /\ Replace(heap[p].id, o) /\ UNCHANGED input
  BY DEF MoveParent, IInv, PointerInv, LoopShape
<1>2. PICK q \in Ids : p = services[q]
  BY <1>1 DEF IInv, ParentsWaiting
<1>3. \A i \in Ids : heap[services[i]].id = i /\ heap[services[i]] \in Service
  BY <1>1 DEF IInv, PointerInv, PlacesKept, TypeOK, Pointers
<1>4. heap[p].id = q /\ Replace(q, o) /\ o \in Service /\ (o.managed <=> heap[p].managed)
  BY <1>1, <1>2, <1>3 DEF Service, Versions
<1> HIDE DEF o
<1>5. /\ services'[q] > N + N
      /\ \A j \in Ids : j # q => services'[j] = services[j]
      /\ heap'[services'[q]] = o
      /\ \A j \in Ids : j # q => (Managed(j)' <=> Managed(j))
  BY <1>1, <1>4, ReplaceAtPlace DEF IInv
<1>6. \A j \in Ids : Managed(j)' <=> Managed(j)
  BY <1>1, <1>2, <1>4, <1>5 DEF Managed
<1>7. \A j \in Ids : Replaced(j)' <=> Replaced(j)
  <2> TAKE j \in Ids
  <2>1. Replaced(j) <=> services[j] \notin {Base(j), Copied(j)} \/ services[j] \in parents
    BY <1>1 DEF Replaced
  <2>2. Replaced(j)' <=> services'[j] \notin {Base(j), Copied(j)} \/ services'[j] \in parents'
    BY <1>1 DEF Replaced, Base, Copied
  <2>3. CASE j = q
    <3>1. services'[j] # Base(j) /\ services'[j] # Copied(j)
      BY <1>5, <2>3, SizeAssumption DEF Base, Copied, Ids
    <3> QED BY <1>1, <1>2, <2>1, <2>2, <2>3, <3>1
  <2>4. CASE j # q
    <3>1. services[j] # p
      BY <1>3, <1>4, <2>4
    <3> QED BY <1>1, <1>5, <2>1, <2>2, <2>4, <3>1
  <2> QED BY <2>3, <2>4
<1> QED BY <1>1, <1>6, <1>7, Hidden

LEMMA RebasePromise == ASSUME IInv, Rebase PROVE Promise!End
<1>1. /\ pc = "rebase" /\ pc' = "done" /\ UNCHANGED input /\ parents' = {} /\ idx = N + 1
      /\ N \in Nat /\ target \in Ids
  BY SizeAssumption DEF Rebase, IInv, ParentsWaiting, PointerInv, TypeOK
<1>2. \A i \in Ids : (Managed(i)' <=> Managed(i)) /\ (Managed(i) <=> services'[i] # Base(i))
  BY RebaseOutcome
<1>3. target \in IsolatedNow /\ IsolatedNow' = IsolatedNow
  BY <1>1, <1>2 DEF IsolatedNow, IInv, VisitedSoFar
<1>4. HiddenNow' = {}
  BY <1>1, <1>2 DEF HiddenNow, Replaced, Base, Copied
<1>5. FoundStateful \subseteq IsolatedNow \cup HiddenNow
  <2>1. FoundStateful \subseteq Ids
    BY FoundAreListed DEF FoundStateful, IInv, PointerInv, TypeOK
  <2>2. ASSUME NEW i \in Ids, i \in FoundStateful, ~Managed(i) PROVE Replaced(i)
    <3>1. i < idx /\ i # target
      BY <1>1, <1>3, <2>2 DEF Ids, IsolatedNow
    <3>2. services[i] > N + N
      BY <1>1, <2>2, <3>1 DEF IInv, VisitedSoFar
    <3>3. services[i] # Base(i) /\ services[i] # Copied(i)
      BY <1>1, <3>2 DEF Base, Copied, Ids
    <3> QED BY <1>1, <3>3 DEF Replaced
  <2> QED BY <2>1, <2>2 DEF IsolatedNow, HiddenNow
<1> QED BY <1>1, <1>3, <1>4, <1>5, InputShows DEF Promise!End, IsolatedNow, HiddenNow, TcpNow

LEMMA SilentPromise ==
  ASSUME IInv, FindStateful \/ EndVisits \/ UNCHANGED vars PROVE UNCHANGED Promise!vars
<1>1. UNCHANGED <<input, heap, services, parents>>
  BY DEF FindStateful, EndVisits, vars
<1>2. (pc = "done" <=> pc' = "done") /\ (pc = "copy" <=> pc' = "copy")
  BY DEF FindStateful, EndVisits, vars
<1>3. \A i \in Ids : (Managed(i)' <=> Managed(i)) /\ (Replaced(i)' <=> Replaced(i))
  BY <1>1, <1>2 DEF Managed, Replaced, Base, Copied
<1>4. IsolatedNow' = IsolatedNow /\ HiddenNow' = HiddenNow
  BY <1>3 DEF IsolatedNow, HiddenNow
<1> QED BY <1>1, <1>2, <1>4, InputShows DEF Promise!vars, IsolatedNow, HiddenNow, TcpNow

(* The derivation implements FlowIsolation (topology.go 105-145,           *)
(* reconciler.go 58-83).                                                   *)
THEOREM DerivationImplements == Spec => ImplementsPromise
<1>1. ASSUME IInv, IInv', [Next]_vars PROVE [Promise!Next]_(Promise!vars)
  <2>1. CASE Copy
    <3>1. CopiesKept'
      BY <1>1 DEF IInv
    <3> QED BY <1>1, <2>1, <3>1, CopyPromise
  <2>2. CASE UpdateTarget
    BY <1>1, <2>2, UpdateTargetPromise DEF Promise!Next
  <2>3. CASE VisitService
    BY <1>1, <2>3, VisitHitPromise, VisitMissPromise DEF Promise!Next
  <2>4. CASE Rebase
    BY <1>1, <2>4, RebasePromise DEF Promise!Next
  <2>5. CASE \E p \in DOMAIN heap : MoveParent(p)
    BY <1>1, <2>5, MoveParentPromise
  <2>6. CASE FindStateful \/ EndVisits \/ UNCHANGED vars
    BY <1>1, <2>6, SilentPromise
  <2> QED BY <1>1, <2>1, <2>2, <2>3, <2>4, <2>5, <2>6 DEF Next
<1> QED BY <1>1, InitPromise, DerivationOutcome, PTL DEF Spec, ImplementsPromise, Promise!Spec
=============================================================================
