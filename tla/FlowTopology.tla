---------------------------- MODULE FlowTopology ----------------------------
(***************************************************************************)
(* How one pass derives the topology of one Flow from the base topology:   *)
(* Copy, UpdateWithFlow and the two loops of Reconcile that put the base   *)
(* services back.  The code edits a slice of *Service and a slice of       *)
(* dependencies that share those pointers while it ranges over the slice,  *)
(* so pointers are modelled: heap is memory, a pointer an index into it.   *)
(*                                                                         *)
(* A service is identified by its place in the slice; the place stands for *)
(* its (Namespace, ServiceID).  Namespaces are listed one after the other, *)
(* and both lists are in the API server's order: arbitrary.                *)
(***************************************************************************)
EXTENDS Isolation, FiniteSets

CONSTANTS
  N,         \* services of the base topology
  MaxEdges,  \* bound: service dependencies
  MaxSpaces  \* bound: namespaces that have services

ASSUME SizeAssumption == N \in Nat \ {0} /\ MaxEdges \in Nat /\ MaxSpaces \in Nat \ {0}

Ids      == 1 .. N
Versions == {"baseline", "flow"}
Classes  == {"stateless", "statefulHTTP", "statefulTCP"}
Service  == [id : Ids, version : Versions, managed : BOOLEAN]

VARIABLES
  class,    \* input: IsStateful and, where it is asked, IsHTTP
  space,    \* input: its namespace, numbered as listed
  vertex,   \* input: the first service with the same Hash
  edges,    \* input: <<service, service it depends on>>
  target,   \* input: the service the Flow names
  heap,     \* every *Service allocated so far
  services, \* clusterTopology.Services
  deps,     \* clusterTopology.ServiceDependencies, one per edge
  stateful, \* statefulServices of UpdateWithFlow
  idx,      \* serviceIdx of its loop
  parents,  \* parents of the service just isolated, still to be moved
  pc

input == <<class, space, vertex, edges, target>>
vars  == <<input, heap, services, deps, stateful, idx, parents, pc>>

IsStateful(i) == class[i] # "stateless"
IsHTTP(i)     == class[i] = "statefulHTTP"

(* Hash leaves the namespace out, so that services of different namespaces *)
(* that are equal in all else have the same.  GetGraph adds a vertex for   *)
(* the first and ignores the error for the others.                         *)
Listed(sp) ==
  sp[1] = 1 /\ \A i \in 2 .. N : sp[i] \in {sp[i - 1], sp[i - 1] + 1}
Hashed(cl, sp, v) ==
  \A i \in Ids :
    /\ v[i] <= i /\ v[v[i]] = v[i] /\ cl[v[i]] = cl[i]
    /\ \A j \in Ids : v[i] = v[j] /\ sp[i] = sp[j] => i = j

(* The base topology's pointers are 1 .. N and they are never written to.  *)
Base(i) == i

Init ==
  /\ class \in [Ids -> Classes]
  /\ space \in {sp \in [Ids -> 1 .. MaxSpaces] : Listed(sp)}
  /\ vertex \in {v \in [Ids -> Ids] : Hashed(class, space, v)}
  /\ edges \in {E \in SUBSET {e \in Ids \X Ids : e[1] # e[2] /\ space[e[1]] = space[e[2]]} :
                  Cardinality(E) <= MaxEdges}
  /\ target \in Ids
  /\ heap = [i \in Ids |-> [id |-> i, version |-> "baseline", managed |-> FALSE]]
  /\ services = <<>> /\ deps = <<>> /\ stateful = {} /\ idx = 0 /\ parents = {}
  /\ pc = "copy"

-----------------------------------------------------------------------------
(* deep.MustCopy keeps the sharing of pointers: the copy's dependencies    *)
(* point at the copy's services.                                           *)
(* Mutation: one place too far. *)
CopiedPast(i) == N + i + 1
Copied(i) == N + i
Copy ==
  /\ pc = "copy"
  /\ heap' = heap \o [i \in Ids |-> heap[Base(i)]]
  /\ services' = [i \in Ids |-> Copied(i)]
  /\ deps' = [e \in edges |-> [service |-> Copied(e[1]), dependsOn |-> Copied(e[2])]]
  /\ pc' = "find"
  /\ UNCHANGED <<input, stateful, idx, parents>>

(* FindAllDownstreamStatefulPaths, and the last vertex of each path, which *)
(* the graph resolves to the first service of that hash.                   *)
Stateful == {i \in Ids : IsStateful(i)}
FoundStateful == Found(Ids, edges, Stateful, vertex, target)
(* Mutation: every stateful service, on a path or not. *)
FindEveryStateful ==
  /\ pc = "find"
  /\ stateful' = {services[i] : i \in Stateful}
  /\ pc' = "target"
  /\ UNCHANGED <<input, heap, services, deps, idx, parents>>
FindStateful ==
  /\ pc = "find"
  /\ stateful' = {services[i] : i \in FoundStateful}
  /\ pc' = "target"
  /\ UNCHANGED <<input, heap, services, deps, idx, parents>>

(* UpdateDependencies: the pointer changes wherever it is compared equal.  *)
(* Mutation: only where it is the dependent. *)
RedirectSource(d, old, new) ==
  [e \in DOMAIN d |-> [d[e] EXCEPT !.service = IF @ = old THEN new ELSE @]]
Redirect(d, old, new) ==
  [e \in DOMAIN d |->
     [service   |-> IF d[e].service = old THEN new ELSE d[e].service,
      dependsOn |-> IF d[e].dependsOn = old THEN new ELSE d[e].dependsOn]]

(* UpdateService: the slice element and the dependencies of service i now  *)
(* point at a new object.                                                  *)
(* Mutation: UpdateDependencies is not called. *)
ReplaceInSlice(i, o) ==
  /\ heap' = Append(heap, o)
  /\ services' = [services EXCEPT ![i] = Len(heap) + 1]
  /\ UNCHANGED deps
Replace(i, o) ==
  /\ heap' = Append(heap, o)
  /\ services' = [services EXCEPT ![i] = Len(heap) + 1]
  /\ deps' = Redirect(deps, services[i], Len(heap) + 1)

UpdateTarget ==
  /\ pc = "target"
  /\ Replace(target, [heap[Base(target)] EXCEPT !.version = "flow", !.managed = TRUE])
  /\ pc' = "visit" /\ idx' = 1
  /\ UNCHANGED <<input, stateful, parents>>

(* One turn of the loop of UpdateWithFlow.  The range reads the element    *)
(* now, not when the loop began: one replaced meanwhile is not found among *)
(* the stateful pointers and is skipped.  FindImmediateParents compares    *)
(* names, so the replacement just made does not hide the parents.          *)
Parents(i) == {deps'[e].service : e \in {f \in edges : heap'[deps'[f].dependsOn].id = i}}

(* Mutation: the range is over a copy of the slice. *)
VisitServiceOfCopy ==
  /\ pc = "visit" /\ idx <= N /\ parents = {}
  /\ IF Copied(idx) \in stateful
       THEN /\ Replace(idx, [heap[Copied(idx)] EXCEPT !.version = "flow", !.managed = TRUE])
            /\ parents' = IF IsHTTP(idx) THEN {} ELSE Parents(idx)
       ELSE UNCHANGED <<heap, services, deps, parents>>
  /\ idx' = idx + 1
  /\ UNCHANGED <<input, stateful, pc>>
VisitService ==
  /\ pc = "visit" /\ idx <= N /\ parents = {}
  /\ IF services[idx] \in stateful
       THEN /\ Replace(idx, [heap[services[idx]] EXCEPT !.version = "flow", !.managed = TRUE])
            /\ parents' = IF IsHTTP(idx) THEN {} ELSE Parents(idx)
       ELSE UNCHANGED <<heap, services, deps, parents>>
  /\ idx' = idx + 1
  /\ UNCHANGED <<input, stateful, pc>>

(* MoveServiceToVersion copies a parent and sets the copy's Version only.  *)
MoveParent(p) ==
  /\ p \in parents
  /\ Replace(heap[p].id, [heap[p] EXCEPT !.version = "flow"])
  /\ parents' = parents \ {p}
  /\ UNCHANGED <<input, stateful, idx, pc>>

EndVisits ==
  /\ pc = "visit" /\ idx > N /\ parents = {}
  /\ pc' = "rebase"
  /\ UNCHANGED <<input, heap, services, deps, stateful, idx, parents>>

(* Reconcile: what is not managed is replaced by the base topology's own   *)
(* service, in Services and in both ends of each dependency.               *)
(* Mutation: nothing is put back. *)
RebasedNever(p) == p
Rebased(p) == IF heap[p].managed THEN p ELSE Base(heap[p].id)

Rebase ==
  /\ pc = "rebase"
  /\ services' = [i \in Ids |-> Rebased(services[i])]
  /\ deps' = [e \in DOMAIN deps |->
                [service |-> Rebased(deps[e].service), dependsOn |-> Rebased(deps[e].dependsOn)]]
  /\ pc' = "done"
  /\ UNCHANGED <<input, heap, stateful, idx, parents>>

Next ==
  \/ Copy \/ FindStateful \/ UpdateTarget \/ VisitService \/ EndVisits \/ Rebase
  \/ \E p \in DOMAIN heap : MoveParent(p)
Spec == Init /\ [][Next]_vars

-----------------------------------------------------------------------------
Pointers == DOMAIN heap
TypeOK ==
  /\ class \in [Ids -> Classes]
  /\ space \in [Ids -> 1 .. MaxSpaces]
  /\ vertex \in [Ids -> Ids]
  /\ edges \subseteq Ids \X Ids
  /\ target \in Ids
  /\ heap \in Seq(Service)
  /\ pc \in {"copy", "find", "target", "visit", "rebase", "done"}
  /\ IF pc = "copy" THEN services = <<>> /\ deps = <<>>
                    ELSE /\ services \in [Ids -> Pointers]
                         /\ deps \in [edges -> [service : Pointers, dependsOn : Pointers]]
  /\ stateful \subseteq Pointers /\ parents \subseteq Pointers
  /\ idx \in 0 .. N + 1

(* The two pointer structures never come apart: a dependency always points *)
(* at the very objects the service slice holds, through every replacement  *)
(* the loop makes while it ranges (UpdateDependencies, topology.go 159).   *)
DepsFollowServices ==
  \A e \in DOMAIN deps :
    /\ deps[e].service = services[e[1]]
    /\ deps[e].dependsOn = services[e[2]]

(* Two flows share base services by pointer, so none may be written to:    *)
(* after the derivation a service is either the base topology's own object *)
(* or one of this flow's, managed and at the flow's version; a parent that *)
(* was moved to the version but is not managed does not survive            *)
(* (reconciler.go 58-66).                                                  *)
BaseOrFlow ==
  pc = "done" =>
    \A i \in Ids :
      \/ services[i] = Base(i)
      \/ heap[services[i]] = [id |-> i, version |-> "flow", managed |-> TRUE]

(* The outcome of the loop that mutates the list it ranges over is exactly *)
(* Isolated, for every graph and every list order: nothing the flow does   *)
(* not reach leaves the baseline, the target always gets its version, and  *)
(* a stateful service is missed, so that the flow writes to the baseline's *)
(* data, only in the case Isolated excludes (topology.go 111-112, 135).    *)
IsolatedExactly ==
  pc = "done" =>
    {i \in Ids : services[i] # Base(i)}
      = Isolated([i \in Ids |-> i], edges, Stateful, {i \in Ids : IsHTTP(i)}, vertex, target)

(* A Flow of one namespace isolates nothing in another one, unless the     *)
(* hash confuses a service of its namespace with an equal one elsewhere    *)
(* (service.go 161-190, topology.go 396-407).                              *)
Unmistakable == \A i \in Ids : space[i] = space[target] <=> space[vertex[i]] = space[target]
StaysInNamespace ==
  pc = "done" /\ Unmistakable =>
    \A i \in Ids : services[i] # Base(i) => space[i] = space[target]

(* topology.go 125 announces versioned parents for stateful services that  *)
(* are not HTTP; MoveServiceToVersion leaves them unmanaged and the pass   *)
(* puts the baseline parents back.                                         *)
VersionedParents ==
  pc = "done" =>
    \A e \in edges :
      e[2] # target /\ class[e[2]] = "statefulTCP" /\ services[e[2]] # Base(e[2])
        => heap[services[e[1]]].version = "flow"

-----------------------------------------------------------------------------
(* Refinement.  A place is isolated once it holds a managed object, hidden *)
(* once it holds another than the copy or is about to; the pointers, the   *)
(* slice that changes under the loop and its order do not show.            *)
Managed(i)  == pc # "copy" /\ heap[services[i]].managed
Replaced(i) == pc # "copy" /\ services[i] \notin {Base(i), Copied(i)} \ parents
Promise ==
  INSTANCE FlowIsolation WITH
    tcp      <- {i \in Ids : ~IsHTTP(i)},
    found    <- FoundStateful,
    isolated <- {i \in Ids : Managed(i)},
    hidden   <- {i \in Ids : ~Managed(i) /\ Replaced(i)},
    done     <- pc = "done"
ImplementsPromise == Promise!Spec

-----------------------------------------------------------------------------
(* The inductive invariant.  What is in memory is never changed: the base  *)
(* services and their copies stay as they were, and whatever is managed    *)
(* has the version.                                                        *)
MemoryKept ==
  /\ N <= Len(heap)
  /\ pc = "copy" => Len(heap) = N
  /\ \A i \in Ids : heap[Base(i)] = [id |-> i, version |-> "baseline", managed |-> FALSE]
  /\ \A p \in Pointers : heap[p].managed => heap[p].version = "flow"
(* Each place of the slice holds an object of that place, so that no two   *)
(* places ever share a pointer.                                            *)
PlacesKept == pc # "copy" => \A i \in Ids : heap[services[i]].id = i
(* Parents are only waiting while the loop runs, which starts at place 1.  *)
LoopShape ==
  /\ parents # {} => pc = "visit"
  /\ pc = "visit" => idx # 0
PointerInv ==
  /\ TypeOK /\ MemoryKept /\ PlacesKept /\ LoopShape
  /\ DepsFollowServices /\ BaseOrFlow

(* What the loop has come to.  c hides i: c was isolated, and the parents  *)
(* it has are replaced.                                                    *)
Hides(c, i) == <<i, c>> \in edges /\ ~IsHTTP(c) /\ c # target /\ Managed(c)
Pristine(i) == services[i] = Copied(i)

InputShape == \A e \in edges : e[1] # e[2] /\ space[e[1]] = space[e[2]]
CopiesKept ==
  pc # "copy" =>
    /\ N + N <= Len(heap)
    /\ \A i \in Ids : ~heap[Copied(i)].managed
StatefulFound ==
  /\ pc \in {"find", "target"} => \A i \in Ids : Pristine(i)
  /\ pc \in {"target", "visit", "rebase"} => stateful = {Copied(i) : i \in FoundStateful}
VisitedSoFar ==
  LET found == FoundStateful IN
  pc \in {"visit", "rebase"} =>
    /\ Managed(target)
    /\ \A i \in Ids :
         /\ ~Pristine(i) => services[i] > N + N
         /\ Managed(i) /\ i # target => i \in found /\ i < idx
         /\ i \in found \ {target} /\ i < idx => ~Pristine(i)
         /\ i \in found /\ ~Pristine(i) /\ ~Managed(i) => \E c \in 1 .. i - 1 : Hides(c, i)
    /\ \A i, c \in Ids :
         Hides(c, i) => /\ ~Pristine(i) \/ services[i] \in parents
                        /\ c < i /\ i # target => ~Managed(i)
ParentsWaiting ==
  /\ pc = "rebase" => idx = N + 1 /\ parents = {}
  /\ \A p \in parents : \E q, c \in Ids : p = services[q] /\ idx = c + 1 /\ Hides(c, q)
Ended ==
  pc = "done" =>
    /\ parents = {}
    /\ \A i \in Ids : Managed(i) <=> services[i] # Base(i)
    /\ Isolates([i \in Ids |-> i], edges, {i \in Ids : IsHTTP(i)}, FoundStateful, target,
                {i \in Ids : Managed(i)})
IInv ==
  /\ PointerInv
  /\ InputShape /\ CopiesKept /\ StatefulFound /\ VisitedSoFar /\ ParentsWaiting /\ Ended
=============================================================================
