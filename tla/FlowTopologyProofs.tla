------------------------- MODULE FlowTopologyProofs -------------------------
(* What the derivation of a flow topology keeps true of its pointers, for  *)
(* any number of services, any graph and any list order.                   *)
EXTENDS FlowTopology, TLAPS

(* Pointers of a slice s and of dependencies d into memory h, aligned:     *)
(* each place holds an object of that place and each dependency points at  *)
(* what the slice holds.                                                   *)
Aligned(E, h, s, d) ==
  /\ h \in Seq(Service)
  /\ s \in [Ids -> DOMAIN h]
  /\ d \in [E -> [service : DOMAIN h, dependsOn : DOMAIN h]]
  /\ \A i \in Ids : h[s[i]].id = i
  /\ \A e \in E : d[e].service = s[e[1]] /\ d[e].dependsOn = s[e[2]]

(* What is in memory stays where it is when an object is added.            *)
LEMMA MemoryGrows ==
  ASSUME NEW h \in Seq(Service), NEW o \in Service
  PROVE  /\ Append(h, o) \in Seq(Service)
         /\ Len(Append(h, o)) = Len(h) + 1
         /\ DOMAIN h = 1 .. Len(h) /\ Len(h) \in Nat
         /\ DOMAIN Append(h, o) = 1 .. Len(h) + 1
         /\ \A p \in DOMAIN h : p \in DOMAIN Append(h, o) /\ Append(h, o)[p] = h[p]
         /\ Append(h, o)[Len(h) + 1] = o
         /\ Len(h) + 1 \notin DOMAIN h
OBVIOUS

LEMMA MemoryCopied ==
  ASSUME NEW h \in Seq(Service), NEW c \in Seq(Service)
  PROVE  /\ h \o c \in Seq(Service)
         /\ Len(h \o c) = Len(h) + Len(c)
         /\ \A p \in 1 .. Len(h) : (h \o c)[p] = h[p]
         /\ \A p \in 1 .. Len(c) : (h \o c)[Len(h) + p] = c[p]
OBVIOUS

(* A base service is not managed and belongs to its place.                 *)
LEMMA BaselineService ==
  ASSUME NEW i, NEW r, r = [id |-> i, version |-> "baseline", managed |-> FALSE]
  PROVE  r.id = i /\ ~r.managed
<1> DEFINE b == [id |-> i, version |-> "baseline", managed |-> FALSE]
<1>1. b.id = i /\ ~b.managed
  OBVIOUS
<1> QED BY <1>1, Zenon

(* UpdateService puts an object of place i at place i and nowhere else,    *)
(* and moves every dependency on that place along (topology.go 147-169).   *)
LEMMA ReplaceAligned ==
  ASSUME N \in Nat, NEW E \in SUBSET (Ids \X Ids), NEW h, NEW s, NEW d,
         Aligned(E, h, s, d), NEW i \in Ids, NEW o \in Service, o.id = i
  PROVE  Aligned(E, Append(h, o), [s EXCEPT ![i] = Len(h) + 1],
                 Redirect(d, s[i], Len(h) + 1))
<1> DEFINE H == Append(h, o)
           S == [s EXCEPT ![i] = Len(h) + 1]
           D == Redirect(d, s[i], Len(h) + 1)
<1>0. /\ h \in Seq(Service) /\ s \in [Ids -> DOMAIN h]
      /\ d \in [E -> [service : DOMAIN h, dependsOn : DOMAIN h]]
      /\ \A j \in Ids : h[s[j]].id = j
      /\ \A e \in E : d[e].service = s[e[1]] /\ d[e].dependsOn = s[e[2]]
  BY DEF Aligned
<1>1. /\ H \in Seq(Service)
      /\ \A p \in DOMAIN h : p \in DOMAIN H /\ H[p] = h[p]
      /\ Len(h) + 1 \in DOMAIN H /\ H[Len(h) + 1] = o
  BY <1>0, MemoryGrows
<1>2. /\ S \in [Ids -> DOMAIN H]
      /\ S[i] = Len(h) + 1 /\ \A j \in Ids : j # i => S[j] = s[j]
  <2> HIDE DEF H
  <2> QED BY <1>0, <1>1
<1>3. \A e \in E : e[1] \in Ids /\ e[2] \in Ids
  OBVIOUS
<1>4. /\ DOMAIN D = E
      /\ \A e \in E : /\ D[e].service = IF d[e].service = s[i] THEN Len(h) + 1 ELSE d[e].service
                      /\ D[e].dependsOn = IF d[e].dependsOn = s[i] THEN Len(h) + 1 ELSE d[e].dependsOn
                      /\ D[e] = [service |-> D[e].service, dependsOn |-> D[e].dependsOn]
  BY <1>0 DEF Redirect
<1>5. D \in [E -> [service : DOMAIN H, dependsOn : DOMAIN H]]
  <2>1. D = [e \in E |-> D[e]]
    BY <1>0 DEF Redirect
  <2>2. \A e \in E : D[e].service \in DOMAIN H /\ D[e].dependsOn \in DOMAIN H
    <3> HIDE DEF H, D
    <3> QED BY <1>0, <1>1, <1>4
  <2> HIDE DEF H, D
  <2> QED BY <2>1, <2>2, <1>4
<1>6. ASSUME NEW j \in Ids PROVE H[S[j]].id = j
  <2> HIDE DEF H, S
  <2>1. CASE j = i
    BY <2>1, <1>1, <1>2
  <2>2. CASE j # i
    <3>1. S[j] = s[j] /\ s[j] \in DOMAIN h
      BY <2>2, <1>0, <1>2
    <3>2. H[s[j]] = h[s[j]]
      BY <3>1, <1>1
    <3> QED BY <3>1, <3>2, <1>0
  <2> QED BY <2>1, <2>2
<1>7. \A e \in E : D[e].service = S[e[1]] /\ D[e].dependsOn = S[e[2]]
  <2>1. \A j \in Ids : s[j] = s[i] => j = i
    BY <1>0
  <2> HIDE DEF S, D
  <2> QED BY <2>1, <1>0, <1>2, <1>3, <1>4
<1> HIDE DEF H, S, D
<1>8. Aligned(E, H, S, D)
  BY <1>1, <1>2, <1>5, <1>6, <1>7 DEF Aligned
<1> QED BY <1>8 DEF H, S, D

-----------------------------------------------------------------------------
(* The pointers are aligned as soon as the base topology has been copied.  *)
LEMMA InvariantAligns ==
  ASSUME PointerInv, pc # "copy"
  PROVE  Aligned(edges, heap, services, deps)
BY DEF PointerInv, TypeOK, PlacesKept, DepsFollowServices, Aligned, Pointers

(* What every replacement in the loop does to the invariant.               *)
LEMMA ReplaceKeeps ==
  ASSUME PointerInv, pc # "copy", pc # "done", UNCHANGED input, pc' # "copy", pc' # "done",
         NEW i \in Ids, NEW o \in Service, o.id = i, o.managed => o.version = "flow",
         Replace(i, o)
  PROVE  /\ heap' \in Seq(Service)
         /\ \A p \in Pointers : p \in Pointers' /\ heap'[p] = heap[p]
         /\ services' \in [Ids -> Pointers']
         /\ deps' \in [edges -> [service : Pointers', dependsOn : Pointers']]
         /\ MemoryKept' /\ PlacesKept' /\ DepsFollowServices' /\ BaseOrFlow'
<1>1. N \in Nat /\ edges \in SUBSET (Ids \X Ids) /\ heap \in Seq(Service)
  BY SizeAssumption DEF PointerInv, TypeOK
<1>2. Aligned(edges, heap, services, deps)
  BY InvariantAligns
<1>3. Aligned(edges, heap', services', deps')
  BY <1>1, <1>2, ReplaceAligned DEF Replace
<1>4. /\ heap' \in Seq(Service)
      /\ services' \in [Ids -> Pointers']
      /\ deps' \in [edges -> [service : Pointers', dependsOn : Pointers']]
      /\ \A j \in Ids : heap'[services'[j]].id = j
      /\ \A e \in edges : deps'[e].service = services'[e[1]] /\ deps'[e].dependsOn = services'[e[2]]
  BY <1>3 DEF Aligned, Pointers
<1>5. /\ DOMAIN heap = 1 .. Len(heap) /\ Len(heap) \in Nat
      /\ Len(heap') = Len(heap) + 1
      /\ DOMAIN heap' = 1 .. Len(heap) + 1
      /\ \A p \in DOMAIN heap : p \in DOMAIN heap' /\ heap'[p] = heap[p]
      /\ heap'[Len(heap) + 1] = o
  BY <1>1, MemoryGrows DEF Replace
<1>6. MemoryKept'
  <2>1. N <= Len(heap) /\ N <= Len(heap')
    <3>1. N <= Len(heap)
      BY Zenon DEF PointerInv, MemoryKept
    <3>2. \A l \in Nat : N <= l => N <= l + 1
      BY <1>1
    <3> QED BY <3>1, <3>2, <1>5
  <2>2. ASSUME NEW j \in Ids
        PROVE  heap'[Base(j)] = [id |-> j, version |-> "baseline", managed |-> FALSE]
    <3>1. j \in DOMAIN heap
      BY <1>1, <1>5, <2>1 DEF Ids
    <3> QED BY <3>1, <1>5 DEF PointerInv, MemoryKept, Base
  <2>3. ASSUME NEW p \in Pointers', heap'[p].managed
        PROVE  heap'[p].version = "flow"
    <3>1. CASE p \in DOMAIN heap
      BY <2>3, <3>1, <1>5 DEF PointerInv, MemoryKept, Pointers
    <3>2. CASE p = Len(heap) + 1
      BY <2>3, <3>2, <1>5
    <3>3. p \in DOMAIN heap \/ p = Len(heap) + 1
      BY <1>5 DEF Pointers
    <3> QED BY <3>1, <3>2, <3>3
  <2> QED BY <2>1, <2>2, <2>3 DEF MemoryKept
<1>7. PlacesKept'
  BY <1>4 DEF PlacesKept
<1>8. DepsFollowServices'
  BY <1>4 DEF DepsFollowServices
<1>9. BaseOrFlow'
  BY DEF BaseOrFlow
<1> QED BY <1>4, <1>5, <1>6, <1>7, <1>8, <1>9 DEF Pointers

(* The same when nothing in memory or in the pointers changes.             *)
LEMMA Untouched ==
  ASSUME PointerInv, pc # "copy", pc # "done", UNCHANGED <<input, heap, services, deps>>,
         pc' # "copy", pc' # "done"
  PROVE  /\ MemoryKept' /\ PlacesKept' /\ DepsFollowServices' /\ BaseOrFlow'
         /\ Pointers' = Pointers
BY DEF PointerInv, MemoryKept, PlacesKept, DepsFollowServices, BaseOrFlow, Pointers

-----------------------------------------------------------------------------
LEMMA InitEstablishes == Init => PointerInv
<1> SUFFICES ASSUME Init PROVE PointerInv
  OBVIOUS
<1>1. N \in Nat \ {0}
  BY SizeAssumption
<1>2. heap \in Seq(Service) /\ Len(heap) = N /\ DOMAIN heap = 1 .. N
  BY <1>1 DEF Init, Ids, Service, Versions
<1>3. TypeOK
  <2>1. /\ space \in [Ids -> 1 .. MaxSpaces] /\ vertex \in [Ids -> Ids]
        /\ edges \subseteq Ids \X Ids
    BY Zenon DEF Init
  <2>2. /\ class \in [Ids -> Classes] /\ target \in Ids
        /\ pc = "copy" /\ services = <<>> /\ deps = <<>> /\ stateful = {} /\ parents = {}
        /\ idx = 0
    BY DEF Init
  <2>3. idx \in 0 .. N + 1
    BY <1>1, <2>2
  <2> QED BY <1>2, <2>1, <2>2, <2>3, Zenon DEF TypeOK
<1>4. MemoryKept
  BY <1>1, <1>2 DEF Init, MemoryKept, Base, Pointers, Ids
<1>5. PlacesKept /\ LoopShape /\ BaseOrFlow
  BY DEF Init, PlacesKept, LoopShape, BaseOrFlow
<1>6. DepsFollowServices
  BY DEF Init, DepsFollowServices
<1> QED BY <1>3, <1>4, <1>5, <1>6 DEF PointerInv

LEMMA CopyKeeps == ASSUME PointerInv, Copy PROVE PointerInv'
<1>1. N \in Nat \ {0} /\ heap \in Seq(Service) /\ Len(heap) = N /\ edges \subseteq Ids \X Ids
  BY SizeAssumption DEF PointerInv, TypeOK, MemoryKept, Copy
<1>2. parents = {}
  BY DEF PointerInv, LoopShape, Copy
<1>3. /\ heap' \in Seq(Service) /\ Len(heap') = N + N /\ DOMAIN heap' = 1 .. N + N
      /\ \A i \in Ids : /\ heap'[i] = heap[i] /\ heap'[N + i] = heap[i]
                        /\ i \in DOMAIN heap /\ N + i \in 1 .. N + N
                        /\ i \in 1 .. N + N
  <2> DEFINE new == [i \in Ids |-> heap[Base(i)]]
  <2>1. new \in Seq(Service) /\ Len(new) = N /\ \A i \in Ids : new[i] = heap[i]
    BY <1>1 DEF Ids, Base
  <2> HIDE DEF new
  <2>2. heap' = heap \o new
    BY DEF Copy, new
  <2>3. heap' \in Seq(Service) /\ Len(heap') = N + N
    BY <1>1, <2>1, <2>2, MemoryCopied
  <2>4. DOMAIN heap' = 1 .. N + N /\ DOMAIN heap = 1 .. N
    BY <1>1, <2>3
  <2>5. ASSUME NEW i \in Ids
        PROVE  /\ i \in 1 .. N /\ i \in 1 .. N + N /\ N + i \in 1 .. N + N
               /\ heap'[i] = heap[i] /\ heap'[N + i] = heap[i]
    <3>1. i \in 1 .. N /\ i \in 1 .. N + N /\ N + i \in 1 .. N + N /\ ~(N + i <= N)
          /\ (N + i) - N = i
      BY <1>1 DEF Ids
    <3>2. heap'[i] = heap[i]
      BY <1>1, <2>1, <2>2, <3>1, MemoryCopied
    <3>3. heap'[N + i] = new[i]
      BY <1>1, <2>1, <2>2, <3>1, MemoryCopied
    <3> QED BY <3>1, <3>2, <3>3, <2>1
  <2> QED BY <2>3, <2>4, <2>5
<1>4. \A p \in 1 .. N + N : \E i \in Ids : heap'[p] = heap[i]
  <2> TAKE p \in 1 .. N + N
  <2>1. CASE p \in Ids
    BY <2>1, <1>3
  <2>2. CASE p \notin Ids
    <3>1. p - N \in Ids /\ N + (p - N) = p
      BY <2>2, <1>1 DEF Ids
    <3> QED BY <3>1, <1>3
  <2> QED BY <2>1, <2>2
<1>5. \A i \in Ids : heap[i] = [id |-> i, version |-> "baseline", managed |-> FALSE]
  BY DEF PointerInv, MemoryKept, Base
<1>6. /\ services' = [i \in Ids |-> N + i]
      /\ deps' = [e \in edges |-> [service |-> N + e[1], dependsOn |-> N + e[2]]]
      /\ pc' = "find" /\ UNCHANGED <<input, stateful, idx, parents>>
  BY DEF Copy, Copied
<1>7. TypeOK'
  <2>1. services' \in [Ids -> Pointers']
    BY <1>3, <1>6 DEF Pointers
  <2>2. deps' \in [edges' -> [service : Pointers', dependsOn : Pointers']]
    BY <1>1, <1>3, <1>6 DEF Pointers, input
  <2>3. Pointers \subseteq Pointers'
    BY <1>1, <1>3 DEF Pointers, Ids
  <2> QED BY <1>3, <1>6, <2>1, <2>2, <2>3 DEF PointerInv, TypeOK, input
<1>8. MemoryKept'
  <2>1. N <= Len(heap')
    BY <1>1, <1>3
  <2>2. \A p \in Pointers' : heap'[p].managed => heap'[p].version = "flow"
    <3> TAKE p \in Pointers'
    <3>1. PICK i \in Ids : heap'[p] = heap[i]
      BY <1>3, <1>4 DEF Pointers
    <3>2. heap'[p] = [id |-> i, version |-> "baseline", managed |-> FALSE]
      BY <3>1, <1>5
    <3>3. ~heap'[p].managed
      BY <3>2, BaselineService, Zenon
    <3> QED BY <3>3, Zenon
  <2> QED BY <1>3, <1>5, <1>6, <2>1, <2>2 DEF MemoryKept, Base
<1>9. PlacesKept'
  <2>1. ASSUME NEW i \in Ids PROVE heap'[services'[i]].id = i
    <3>1. services'[i] = N + i
      BY <1>6
    <3>2. heap'[N + i] = [id |-> i, version |-> "baseline", managed |-> FALSE]
      BY <1>3, <1>5
    <3> QED BY <3>1, <3>2
  <2> QED BY <2>1 DEF PlacesKept
<1>10. DepsFollowServices'
  <2>1. \A e \in edges : e[1] \in Ids /\ e[2] \in Ids
    BY <1>1
  <2> QED BY <2>1, <1>6 DEF DepsFollowServices
<1>11. LoopShape' /\ BaseOrFlow'
  BY <1>2, <1>6 DEF LoopShape, BaseOrFlow
<1> QED BY <1>7, <1>8, <1>9, <1>10, <1>11 DEF PointerInv

(* What the search finds are services of the list.                         *)
LEMMA FoundAreListed ==
  ASSUME NEW S, NEW E, NEW st, NEW v \in [S -> S], NEW t
  PROVE  Found(S, E, st, v, t) \subseteq S
BY DEF Found

LEMMA FindStatefulKeeps == ASSUME PointerInv, FindStateful PROVE PointerInv'
<1>1. MemoryKept' /\ PlacesKept' /\ DepsFollowServices' /\ BaseOrFlow' /\ Pointers' = Pointers
  BY Untouched DEF FindStateful
<1>2. stateful' \subseteq Pointers
  <2>1. FoundStateful \subseteq Ids
    BY FoundAreListed DEF PointerInv, TypeOK, FoundStateful
  <2>2. services \in [Ids -> Pointers]
    BY DEF FindStateful, PointerInv, TypeOK
  <2> QED BY <2>1, <2>2 DEF FindStateful
<1>3. TypeOK'
  BY <1>1, <1>2 DEF FindStateful, PointerInv, TypeOK, input
<1>4. LoopShape'
  BY DEF FindStateful, PointerInv, LoopShape
<1> QED BY <1>1, <1>3, <1>4 DEF PointerInv

LEMMA UpdateTargetKeeps == ASSUME PointerInv, UpdateTarget PROVE PointerInv'
<1> DEFINE o == [heap[Base(target)] EXCEPT !.version = "flow", !.managed = TRUE]
<1>1. target \in Ids /\ N \in Nat \ {0}
  BY SizeAssumption DEF PointerInv, TypeOK
<1>2. heap[Base(target)] \in Service /\ heap[Base(target)].id = target
  <2>1. heap[Base(target)] = [id |-> target, version |-> "baseline", managed |-> FALSE]
    BY <1>1 DEF PointerInv, MemoryKept
  <2>2. heap[Base(target)].id = target
    BY <2>1, BaselineService, Zenon
  <2>3. [id |-> target, version |-> "baseline", managed |-> FALSE] \in Service
    BY <1>1 DEF Service, Versions
  <2> QED BY <2>1, <2>2, <2>3
<1>3. o \in Service /\ o.id = target /\ o.version = "flow"
  BY <1>2 DEF Service, Versions
<1>4. Replace(target, o) /\ pc = "target" /\ pc' = "visit" /\ idx' = 1
      /\ UNCHANGED <<input, stateful, parents>>
  BY DEF UpdateTarget
<1> HIDE DEF o
<1>5. /\ heap' \in Seq(Service)
      /\ \A p \in Pointers : p \in Pointers' /\ heap'[p] = heap[p]
      /\ services' \in [Ids -> Pointers']
      /\ deps' \in [edges -> [service : Pointers', dependsOn : Pointers']]
      /\ MemoryKept' /\ PlacesKept' /\ DepsFollowServices' /\ BaseOrFlow'
  BY <1>1, <1>3, <1>4, ReplaceKeeps
<1>6. TypeOK'
  BY <1>1, <1>4, <1>5 DEF PointerInv, TypeOK, input
<1>7. LoopShape'
  BY <1>4 DEF LoopShape
<1> QED BY <1>5, <1>6, <1>7 DEF PointerInv

LEMMA VisitServiceKeeps == ASSUME PointerInv, VisitService PROVE PointerInv'
<1>1. N \in Nat \ {0} /\ idx \in Ids /\ pc = "visit" /\ pc' = "visit"
      /\ idx' = idx + 1 /\ UNCHANGED <<input, stateful>>
  <2>1. N \in Nat \ {0} /\ idx \in 0 .. N + 1
    BY SizeAssumption DEF PointerInv, TypeOK
  <2>2. pc = "visit" /\ pc' = "visit" /\ idx <= N /\ idx' = idx + 1 /\ UNCHANGED <<input, stateful>>
    BY DEF VisitService
  <2>3. idx # 0
    BY <2>2 DEF PointerInv, LoopShape
  <2> QED BY <2>1, <2>2, <2>3 DEF Ids
<1>2. idx' \in 0 .. N + 1 /\ LoopShape'
  BY <1>1, SizeAssumption DEF Ids, LoopShape
<1>3. CASE services[idx] \in stateful
  <2> DEFINE old == heap[services[idx]]
             o == [old EXCEPT !.version = "flow", !.managed = TRUE]
  <2>1. old \in Service /\ old.id = idx
    BY <1>1 DEF PointerInv, TypeOK, PlacesKept, Pointers
  <2>2. o \in Service /\ o.id = idx /\ o.version = "flow"
    BY <2>1 DEF Service, Versions
  <2>3. Replace(idx, o) /\ parents' = IF IsHTTP(idx) THEN {} ELSE Parents(idx)
    BY <1>3 DEF VisitService
  <2> HIDE DEF old, o
  <2>4. /\ heap' \in Seq(Service)
        /\ \A p \in Pointers : p \in Pointers' /\ heap'[p] = heap[p]
        /\ services' \in [Ids -> Pointers']
        /\ deps' \in [edges -> [service : Pointers', dependsOn : Pointers']]
        /\ MemoryKept' /\ PlacesKept' /\ DepsFollowServices' /\ BaseOrFlow'
    BY <1>1, <2>2, <2>3, ReplaceKeeps
  <2>5. parents' \subseteq Pointers'
    BY <2>3, <2>4 DEF Parents
  <2>6. TypeOK'
    BY <1>1, <1>2, <2>4, <2>5 DEF PointerInv, TypeOK, input
  <2> QED BY <1>2, <2>4, <2>6 DEF PointerInv
<1>4. CASE services[idx] \notin stateful
  <2>1. UNCHANGED <<heap, services, deps, parents>>
    BY <1>4 DEF VisitService
  <2>2. MemoryKept' /\ PlacesKept' /\ DepsFollowServices' /\ BaseOrFlow' /\ Pointers' = Pointers
    BY <1>1, <2>1, Untouched
  <2>3. TypeOK'
    BY <1>1, <1>2, <2>1, <2>2 DEF PointerInv, TypeOK, input
  <2> QED BY <1>2, <2>2, <2>3 DEF PointerInv
<1> QED BY <1>3, <1>4

LEMMA MoveParentKeeps == ASSUME PointerInv, NEW p \in DOMAIN heap, MoveParent(p) PROVE PointerInv'
<1> DEFINE o == [heap[p] EXCEPT !.version = "flow"]
<1>1. pc = "visit" /\ pc' = "visit" /\ UNCHANGED <<input, stateful, idx>>
      /\ parents' \subseteq parents /\ Replace(heap[p].id, o)
  BY DEF MoveParent, PointerInv, LoopShape
<1>2. heap[p] \in Service
  BY DEF PointerInv, TypeOK
<1>3. o \in Service /\ o.id = heap[p].id /\ o.version = "flow" /\ heap[p].id \in Ids
  BY <1>2 DEF Service, Versions
<1> HIDE DEF o
<1>4. /\ heap' \in Seq(Service)
      /\ \A q \in Pointers : q \in Pointers' /\ heap'[q] = heap[q]
      /\ services' \in [Ids -> Pointers']
      /\ deps' \in [edges -> [service : Pointers', dependsOn : Pointers']]
      /\ MemoryKept' /\ PlacesKept' /\ DepsFollowServices' /\ BaseOrFlow'
  BY <1>1, <1>3, ReplaceKeeps
<1>5. TypeOK'
  BY <1>1, <1>4 DEF PointerInv, TypeOK, input
<1>6. LoopShape'
  BY <1>1 DEF PointerInv, LoopShape
<1> QED BY <1>4, <1>5, <1>6 DEF PointerInv

LEMMA EndVisitsKeeps == ASSUME PointerInv, EndVisits PROVE PointerInv'
<1>1. MemoryKept' /\ PlacesKept' /\ DepsFollowServices' /\ BaseOrFlow' /\ Pointers' = Pointers
  BY Untouched DEF EndVisits
<1>2. TypeOK'
  BY <1>1 DEF EndVisits, PointerInv, TypeOK, input
<1>3. LoopShape'
  BY DEF EndVisits, LoopShape
<1> QED BY <1>1, <1>2, <1>3 DEF PointerInv

(* Putting the baseline back leaves each place its own object: the base    *)
(* topology's, or one that is managed and hence at the flow's version.     *)
LEMMA RebaseKeeps == ASSUME PointerInv, Rebase PROVE PointerInv'
<1>1. N \in Nat \ {0} /\ edges \subseteq Ids \X Ids /\ pc = "rebase"
      /\ heap \in Seq(Service) /\ DOMAIN heap = 1 .. Len(heap) /\ N <= Len(heap)
      /\ \A p \in Pointers : heap[p] \in Service
  BY SizeAssumption DEF PointerInv, TypeOK, MemoryKept, Rebase, Pointers
<1>2. /\ services \in [Ids -> Pointers]
      /\ deps \in [edges -> [service : Pointers, dependsOn : Pointers]]
      /\ \A i \in Ids : heap[services[i]].id = i
      /\ \A e \in edges : deps[e].service = services[e[1]] /\ deps[e].dependsOn = services[e[2]]
  BY <1>1 DEF PointerInv, TypeOK, PlacesKept, DepsFollowServices
<1>3. /\ services' = [i \in Ids |-> Rebased(services[i])]
      /\ deps' = [e \in edges |-> [service   |-> Rebased(deps[e].service),
                                   dependsOn |-> Rebased(deps[e].dependsOn)]]
      /\ pc' = "done" /\ UNCHANGED <<input, heap, stateful, idx, parents>>
  BY <1>2 DEF Rebase
<1>4. ASSUME NEW p \in Pointers PROVE Rebased(p) \in Pointers
  <2>1. Base(heap[p].id) \in Pointers
    <3>1. heap[p].id \in Ids
      BY <1>1 DEF Service
    <3>2. \A j \in Ids : j \in 1 .. Len(heap)
      BY <1>1 DEF Ids
    <3> QED BY <3>1, <3>2, <1>1 DEF Base, Pointers
  <2> QED BY <2>1 DEF Rebased
<1>5. TypeOK'
  <2>1. Pointers' = Pointers
    BY <1>3 DEF Pointers
  <2>2. services' \in [Ids -> Pointers]
    BY <1>2, <1>3, <1>4
  <2>3. deps' \in [edges -> [service : Pointers, dependsOn : Pointers]]
    BY <1>2, <1>3, <1>4
  <2> QED BY <1>3, <2>1, <2>2, <2>3 DEF PointerInv, TypeOK, input
<1>6. MemoryKept'
  BY <1>1, <1>3 DEF PointerInv, MemoryKept, Pointers
<1>7. ASSUME NEW i \in Ids
      PROVE  \/ services'[i] = Base(i)
             \/ heap[services'[i]] = [id |-> i, version |-> "flow", managed |-> TRUE]
  <2> DEFINE s == services[i]
  <2>1. s \in Pointers /\ heap[s] \in Service /\ heap[s].id = i
    BY <1>1, <1>2
  <2>2. services'[i] = Rebased(s)
    BY <1>3
  <2> HIDE DEF s
  <2>3. CASE heap[s].managed
    <3>1. services'[i] = s
      BY <2>2, <2>3 DEF Rebased
    <3>2. heap[s].version = "flow" /\ heap[s].managed = TRUE
      BY <2>1, <2>3 DEF PointerInv, MemoryKept, Service
    <3>3. heap[s] = [id |-> i, version |-> "flow", managed |-> TRUE]
      BY <2>1, <3>2 DEF Service
    <3> QED BY <3>1, <3>3
  <2>4. CASE ~heap[s].managed
    BY <2>1, <2>2, <2>4 DEF Rebased
  <2> QED BY <2>3, <2>4
<1>8. PlacesKept'
  <2>1. ASSUME NEW i \in Ids PROVE heap[services'[i]].id = i
    <3>1. CASE services'[i] = Base(i)
      <4>1. heap[Base(i)] = [id |-> i, version |-> "baseline", managed |-> FALSE]
        BY DEF PointerInv, MemoryKept
      <4> QED BY <3>1, <4>1, BaselineService
    <3>2. CASE heap[services'[i]] = [id |-> i, version |-> "flow", managed |-> TRUE]
      BY <3>2
    <3> QED BY <3>1, <3>2, <1>7
  <2> QED BY <1>3, <2>1 DEF PlacesKept
<1>9. DepsFollowServices'
  <2>1. \A e \in edges : e[1] \in Ids /\ e[2] \in Ids
    BY <1>1
  <2> QED BY <2>1, <1>2, <1>3 DEF DepsFollowServices
<1>10. BaseOrFlow'
  BY <1>3, <1>7 DEF BaseOrFlow
<1>11. LoopShape'
  BY <1>3 DEF PointerInv, LoopShape, Rebase
<1> QED BY <1>5, <1>6, <1>8, <1>9, <1>10, <1>11 DEF PointerInv

LEMMA StutterKeeps == ASSUME PointerInv, UNCHANGED vars PROVE PointerInv'
BY DEF PointerInv, TypeOK, MemoryKept, PlacesKept, LoopShape, DepsFollowServices,
       BaseOrFlow, Pointers, vars, input

-----------------------------------------------------------------------------
(* The inductive invariant holds for any number of services, every         *)
(* dependency graph and every list order.                                  *)
THEOREM DerivationInvariance == Spec => []PointerInv
<1>1. Init => PointerInv
  BY InitEstablishes
<1>2. PointerInv /\ [Next]_vars => PointerInv'
  BY CopyKeeps, FindStatefulKeeps, UpdateTargetKeeps, VisitServiceKeeps, MoveParentKeeps,
     EndVisitsKeeps, RebaseKeeps, StutterKeeps DEF Next
<1> QED BY <1>1, <1>2, PTL DEF Spec

(* The pointers of a derivation always point into memory.                  *)
THEOREM DerivationTypeCorrect == Spec => []TypeOK
<1>1. PointerInv => TypeOK
  BY DEF PointerInv
<1> QED BY <1>1, DerivationInvariance, PTL

(* The dependencies point at the services of the slice through every edit  *)
(* of UpdateWithFlow and Reconcile (topology.go 147-169).                  *)
THEOREM DependenciesCorrect == Spec => []DepsFollowServices
<1>1. PointerInv => DepsFollowServices
  BY DEF PointerInv
<1> QED BY <1>1, DerivationInvariance, PTL

(* A derivation ends with base services that were never written to and     *)
(* managed services at the flow's version (reconciler.go 58-66).           *)
THEOREM SharingCorrect == Spec => []BaseOrFlow
<1>1. PointerInv => BaseOrFlow
  BY DEF PointerInv
<1> QED BY <1>1, DerivationInvariance, PTL
=============================================================================
