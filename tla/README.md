# A TLA+ verification of the Kardinal operator

Models, model checking and machine-checked proofs for the Kubernetes operator
in `src/`. Paths below are relative to `src/`.

## The system

| part | code | state it keeps | operations |
|---|---|---|---|
| Flow controller | `cmd/main.go`, `internal/controller/core/flow_controller.go` | controller-runtime's work queue of Flow keys | one worker calls `Reconcile` per key; errors are logged and swallowed |
| Reconciliation pass | `kardinal/reconciler/reconciler.go` | what it has listed; nothing survives a pass | list, label, plan, apply |
| Listing, labels, apply | `kardinal/resources/` | - | one List per namespace and kind; an Update per object without Istio labels; a Create, Update or Delete per difference |
| Base topology | `kardinal/topology/topology.go` 644-806, `service.go` 125-159 | services, dependencies, ingresses, gateways and routes | built from what was listed, managed services left out |
| Flow topology | `topology.go` 81-169, 396-452, `reconciler.go` 36-89 | a copy of the base topology that shares base services by pointer | `Copy`, `UpdateWithFlow`, `MoveServiceToVersion`, putting the baseline back |
| Merge | `topology.go` 454-494 | one topology with all versions | concatenation, then `UniqBy` |
| Rendering | `topology.go` 171-252, 497-642, `service.go` 37-115, 192-366 | - | Services, Deployments, VirtualServices, DestinationRules, Gateways, HTTPRoutes |
| API server, informers, garbage collector, users | external | objects with resourceVersions; caches that lag | Create, Update, Delete (foreground), sync, collect |

**How they interact.** A Flow event (add, update, delete, periodic resync)
puts a key in the queue. The worker takes one and runs a pass over the *whole*
cluster, whichever Flow it was. The pass reads through informer caches, one per
kind, each behind the server by its own amount; writes go straight to the
server, an Update with the resourceVersion that was listed, a Delete with the
name only. Users and the garbage collector write at any time. The first refused
call ends the pass.

**What is hard.** Listings that mix several moments of the cluster;
objects edited, removed or put in place between the listing and the call; calls
that fail after taking effect; crashes between two writes; errors that are
never retried; events that arrive while their key is served; objects that wait
for deletion; and, within a pass, a loop that edits the slice it ranges over
through shared pointers. `PROJECT.json` lists these hazards line by line.

**What makes each part correct.** The controller: no Flow event is lost, and
whatever fails is made up for. The pass: undisturbed, it leaves the cluster as
planned and a second one changes nothing; disturbed, it harms nothing it does
not own and overwrites nothing it has not read. The flow topology: its
dependencies point at its services, base services are never written to, and
exactly the services the flow should isolate leave the baseline. Base topology,
merge and rendering: the plan is a function of what was listed (not of its
order), complete, and names no object twice.

## The modules

| module | models | lines of TLA+ are organised as |
|---|---|---|
| `ApiServer` | the API server and informer caches, as far as the code relies on them (external) | the effect of each client call on `api`, `rev`, `cache` |
| `Operator` (extends `ApiServer`) | queue, pass, label injection, apply, restart | one action per step of the pass and of its environment |
| `OperatorProofs` (extends `Operator`, `TLAPS`) | theorems about every instance | |
| `AtomicPass` | what a pass promises of the cluster, without queue, caches, versions or single calls | one action per kind of change of the cluster: a whole pass, others' writes, interruption, failure, and the writes of a pass with an old listing |
| `AtomicPassProofs` (extends `OperatorProofs`) | the refinement: `Operator` implements `AtomicPass` | |
| `MCOperator` (extends `Operator`) | small clusters for TLC | keys, specs and plans |
| `Isolation` | which services a Flow gets versions of, as a function | the outcome of `UpdateWithFlow`, which `FlowTopology` is checked against and `Rendering` uses |
| `FlowTopology` (extends `Isolation`) | deriving the topology of one Flow, with the heap of `*Service` | one action per statement group of `UpdateWithFlow` and `Reconcile` |
| `FlowIsolation` | what the derivation promises, without pointers, slices or an order | three actions: `Begin`, `Isolate`, `End` |
| `FlowTopologyProofs` (extends `FlowTopology`, `TLAPS`) | theorems about the pointers, for any number of services | |
| `FlowIsolationProofs` (extends `FlowTopologyProofs`, `IsolationProofs`) | theorems about which services are isolated, and the refinement | |
| `BaseTopology` | building the base topology, and whether what is rendered finds its namespace | one action per way a turn of the loop over namespaces ends |
| `BaseTopologyProofs` (extends `BaseTopology`, `TLAPS`) | theorems for any cluster | |
| `MCBaseTopology` (extends `BaseTopology`) | three namespaces for TLC | kinds of namespaces |
| `Rendering` (extends `Isolation`) | merge and rendering, pure | one function of the listing per kind of object |
| `Passes` (extends `Rendering`) | whole passes one after another | `Pass`, which stops planning, stops applying or applies; `FlowEvent` and what users do to Services and Deployments |
| `IsolationProofs` (extends `Isolation`, `TLAPS`) | lemmas: the equation of `Isolation` has one solution for every list | |
| `RenderingProofs` (extends `Rendering`, `IsolationProofs`) | lemmas: what the functions of `Rendering` return | |
| `PassesProofs` (extends `Passes`, `RenderingProofs`) | theorems about passes | |
| `MCPasses` (extends `Passes`) | a small application for TLC | services, flows, routes |

### ApiServer and Operator

An object is `[managed, labeled, deleting, spec, rv]`: its
`kardinal.dev/managed` label, whether it has both Istio labels, its deletion
timestamp, its `.Spec` as a value that is only ever compared, and its
resourceVersion. `rev[k]` is the last version given out under a key, so that an
object made anew never repeats an old version. `cache` is what the informers
delivered; `SyncCache(kd)` brings one kind up to date (informers of one kind
stay in order, different kinds do not).

| action | code |
|---|---|
| `BeginPass` | the worker takes a key and enters `FlowReconciler.Reconcile`; `order` is the order the namespaces will be listed in (a cached List gives no order) |
| `ListNext` | one `cl.List` of `getNamespaceResources`, from the cache, all objects of that namespace and kind at once |
| `FailList` | a List that fails |
| `InjectLabels(k)` | one `cl.Update` of `InjectIstioLabelsInServicesAndDeployments`, and the listed object's new resourceVersion |
| `PlanPass` | everything from `NewClusterTopologyFromResources` to `GetResources`: pure, so one step; ends in `ok`, `error` (pass over) or `panic` (pass over, key requeued by the controller's recovery) |
| `ApplyCall(k)` | one Create, Update or Delete of `resources.ApplyResources`, in the order kind, namespace, wanted objects before deletions |
| `RefuseCall(k)` | that call refused: AlreadyExists, Conflict, NotFound; the pass is over |
| `FailCall(k)` | that call failing for another reason, with or without effect |
| `FinishPass` | nothing left to do |
| `Restart` | the process dies at any point and comes back with fresh caches and an event per existing Flow |
| `SyncCache`, `Resync`, `CollectGarbage`, `UserWrite` | informers, their periodic resync, the garbage collector, users |

The plan is a parameter: `Desired(view)` gives the spec wanted under each key
and `PlanResult(view)` how planning ends, for a view of the listing that holds
what the code reads (managed label and specs). The theorems hold for every
such function, so they do not depend on what topology, merge and rendering
compute; TLC runs use small plans that behave as the code does for one service
and one Flow (`MCDesired`, `MCPlanResult`): a flow brings a Deployment `a-f`
and a second destination in the VirtualService `a`, its Service has the name of
the users' own (which `ApplyResources` leaves alone), a Flow naming an unknown
service is an error, one whose service lacks a Deployment panics.

`Refers(k, spec)` says which of the operator's own workloads an object routes
to. That a plan never routes to a workload it does not contain is the assumption
`RoutesAssumption`; `SubsetsAreDeployed` of `Passes` shows it of the plan the code
makes, but for a Deployment of the users' under the same name. Kinds are
applied in the order Services, Deployments, VirtualServices, and deletions come
at the end of each kind, so between the deletion of a flow's Deployment and the
update of the VirtualService that still routes to it there is a window;
`DanglingRoutesPending` says that such a route, or the workload, is always still
to be handled by the same pass while nothing disturbs it.

`DefaultedKinds` are the kinds for which `reflect.DeepEqual` never holds between
the stored and the rendered spec, because the server fills in defaults: they are
updated in every pass, and the server recognises an update without effect.

`clean` and `seen` are history variables. `clean` says that no user or collector
has changed the cluster during this pass in a way it could notice and that all
it has listed was current; `seen` is what the last pass to list a Flow found.

### AtomicPass

`AtomicPass` is the abstract specification of the whole control loop. Its state is
`cluster`, what is under each key but for labels and versions, and `basis`, empty or
the one listing that a pass goes on with although it is not the state of the
cluster. What a pass that nothing disturbs does is one action, `Reconcile`: under
every applied key stands what the plan for the cluster *as it is* wants, all at
once, users' objects left alone and what is deleted marked or already collected.
The rest says what may be seen of the single calls when something comes between:

| action | when |
|---|---|
| `Interrupt` | another writer changes the cluster while an undisturbed pass applies: a prefix of its writes is there, and from then on its listing is old |
| `Fail` | a call fails, with or without effect, or the process dies: a prefix, one write of a pass with an old listing, or nothing |
| `Misread` | a pass gets a plan from a listing that is not the cluster's state, or lists an object of its own that waits for deletion and is wanted |
| `WriteStale` | one call of such a pass, which may only create where nothing is, update what is its own and as listed, and delete by name what it listed as its own |
| `Abandon` | such a pass ends or is refused a call |
| `Change` | users and the collector at any other time |

`Misread` asks nothing of the listing but a plan: it may be old in what neither
`cluster` nor a view shows, such as a version (an object removed and made again alike
is refused to the Update all the same). When it may happen is said by the mapping:
`basis` is not empty only when `clean` is false, so a pass that has listed the cluster
as it is, and that nobody disturbs, has `Reconcile` and nothing else to end with.

A prefix (`Prefixes`) holds workloads before routes and, in one namespace and kind,
what is wanted before what is deleted; across namespaces there is no order to
promise, for a listing comes in any.

The mapping is `Promise` in `Operator`. As long as an undisturbed pass applies
(`Unsettled`), `cluster` is what it has listed, whatever calls it has made: the
atomic write has not happened. It happens in `FinishPass`, which gives `cluster` the
server's objects again, or in part in the step that cuts the pass short. `basis` is
the view of the listing while a disturbed pass applies. Label injection, listings,
the queue, caches and resync are stutters, since labels, versions and the queue have
no place in `cluster`.

### FlowTopology

`heap` is the memory of `*Service` values, a pointer an index into it; pointers
`1..N` are the base topology's. `services` is the slice, `deps` the
dependencies, both holding pointers as in the code. `VisitService` is one turn
of `for serviceIdx, service := range clusterTopology.Services`: it reads the
element as it is now, which is what ranging over a slice does, so an element
replaced by `MoveParent` before its turn is no longer found among the stateful
pointers. Parents come in any order. The graph, the classes of the services
(stateless, stateful HTTP, stateful otherwise), the list order and the target are
all chosen freely in `Init`, and so are the namespaces (`space`) and the graph's
vertices (`vertex`): `Hash` leaves the namespace out, so services of two
namespaces that are equal in all else are one vertex, which the graph resolves
to the first. A path may then lead from a service of one namespace into the other.
`StaysInNamespace` says that nothing outside the Flow's namespace is isolated
unless a vertex confuses its services with others.

`Isolated(order, ...)` of `Isolation` says in one definition what the loop
comes to: the target, and each stateful service it reaches, except one that is
a parent of an isolated service that is not HTTP and comes earlier in the list.
The exception is what ranging over an edited slice does; the baseline's copy
of such a service is shared by the flow.

`FlowIsolation` is the abstract specification. Its state is a set of isolated and
one of hidden services; its only rule is that a service that was found is isolated
when nothing isolated before has hidden it. Any order of isolating will do. The
refinement mapping forgets the heap: a place is isolated when it holds a managed
object, and hidden when it holds another object than the copy made at the start
or is among the parents about to be moved. `FindStateful`, `EndVisits`, `MoveParent`
and visits that skip are stutters; `UpdateTarget` is `Begin`, a visit that isolates
is `Isolate`, `Rebase` is `End`.

### BaseTopology

A listing gives each namespace its Services (name, managed, ports, dependency
entries) and its Ingresses, Gateways and HTTPRoutes (annotated or not).
`AddNamespace` is a turn of the loop of `NewClusterTopologyFromResources` that
goes well, `RejectServices` one that ends with an error or panic of
`processServices`, `RejectSecondIngress` the check after it, and `Validate` what
follows the loop. `gatewaysOf` names the namespace whose gateways and routes
stand in `clusterTopologyGatewayAndRoutes`, which line 657 assigns each turn.
`Place` is the part of `GetResources` that sorts what was rendered into an entry
per namespace: entries are made from the namespaces of the services, so routes,
gateways or an ingress of a namespace without services meet a nil pointer
(outcome `stranded`, a panic).

### Rendering and Passes

`Rendering` has no state. For a listing (the services, flows and routes in some
order, and for each service the image of the Deployment found for it) it gives

- the services each flow isolates (`Derived`) and the versions of each service
  after `Merge` (`Versions`): the users' version label, and each flow that isolates
  the service, unless it is named like that label;
- the managed `Deployments` with place in the plan, name, labels and image;
- `VirtualServices` with the matches of their routes and `DestinationRules` with
  their subsets;
- the `References` to backends in the order the loops come to them, which of them
  get a front Service of their own (`Added`: the first of each name), those front
  Services and the version they select, and the `HTTPRoutes` by index and flow,
  with their host and backends;
- how planning ends (`Verdict`).

A name put together from two is `Joined(service, version)`, a parameter: the
instance takes string concatenation, so names run together (`cart` of
`db-baseline` and `cart-db` of `baseline` are `cart-db-baseline`). A host is a
sequence of labels, and `Hostname` is what the regular expression of
`replaceOrAddSubdomain` does to one.

`Passes` keeps the users' Services and Deployments, the Flows, and what is
managed by kind. A `Pass` takes a listing in any order, the Deployment it finds for
a service chosen among all that carry its app label, the operator's own
included, as `GetDeploymentFromName` does. It ends as one of

- `StopPlanning`: nothing is written; a panic leaves the key in the queue;
- `StopApplying`: the Create of a Deployment under a name the plan has used, or an
  Update that would change a selector, is refused by the server (external fact: a
  Deployment's selector is immutable); Services and the Deployments before it are
  written, nothing else;
- `Apply`: what is managed is what `Rendering` makes of the listing, except where
  an object of the users' has the name, which is left alone.

That an undisturbed pass may be one step there is what `ImplementsAtomicPass` says
of `Operator`. Between passes Flows come and go, users add and remove Services, one
of them without a port, another with the name of a front Service, and
Deployments, one of them with the name of a flow's.

## Runs

All runs have deadlock checking off: the operator may have nothing to do once
users and faults have used up their bounds, and a derivation ends.

| run | shows |
|---|---|
| `pass` | `IInv`, the invariant the proofs rest on; `CleanPassConverges`: an undisturbed pass leaves the cluster as wanted; `IdempotentPass`: a pass that finds it so changes nothing; `NoLostWakeup`: with the queue empty and the worker idle, every Flow was listed as last delivered; `DanglingRoutesPending`; `UndisturbedNotRefused`: the calls of one pass do not make each other fail; `ImplementsAtomicPass`: the passes implement `AtomicPass`, with user writes and the collector in mid-pass or a failed call anywhere |
| `race` | `VersionsIdentify`, `ReadBeforeOverwrite`, `UserSpecsKept` while users write to the very Deployment the operator makes |
| `two` | two namespaces in any order: nothing left out (`CleanPassConverges`), routes after workloads (`WorkloadsBeforeRoutes`) |
| `converge` | liveness: once users and failures stop with a Flow in place and a sound plan, the cluster ends up as planned for good (`FlowsConverge`) |
| `flow` | `IInv`, `DepsFollowServices`, `BaseOrFlow`, `IsolatedExactly`: the loop isolates what `Isolated` says in every list order, `StaysInNamespace`, and `ImplementsPromise`: the derivation implements `FlowIsolation` |
| `base` | `IInv`; `AcceptedIffSound` and `BuiltCompletely`: whether a base topology is built, and of what, is decided by the cluster and not by list order; `PanicCauses` and `StrandedCauses`: what a panic may be due to |
| `passes` | `AppliedWhenSound`: all that stops a pass is in the users' hands or a name for two Deployments; and of a pass that is applied: `FlowsServed`, `RoutesReachVersions`, `SubsetsAreDeployed`, `OneReferenceEach`, `HostsApart`: it serves every flow, from the entry points and inside the mesh, and leaves nothing of a flow that is gone; `RoutesFollowTheirList`: of two passes over the same cluster, the second renders the same routes if routes are listed in the same order |
| `user_object`, `removal`, `parents`, `gateways`, `images` | violated: see Findings |

**Bounds.** `MaxUserOps` bounds user writes (3 in `race`: remove the Flow,
remove the Deployment, make another one, the longest story the findings need;
2 in `pass` and `converge`), `MaxFaults` bounds failed calls and restarts (1; a
second fault meets a state that one fault and a stale cache already produce).
One service, one Flow and one route have an object of every role: users' own,
the operator's, a workload, a route, and the trigger; `two` adds what one
namespace cannot show. Specs take two values: all that is ever asked of them is
whether they are equal. `FlowTopology` takes all graphs over four
services with up to `MaxEdges` = 3 dependencies in up to `MaxSpaces` = 2
namespaces: the shortest chain in which a hidden replacement hides another has
three services and as many edges, the fourth is a bystander or the equal of one
of them in the other namespace; the proofs are for any number of each.
`BaseTopology` takes every combination of 42 kinds of namespace over three
namespaces: two that conflict and one before, between or after them. `Passes` has
a front end, a cart and a database, the last two stateful and one not HTTP, two
flows on the front end, one of them named like the baseline and like the front
end's version label (in `images` they name two services), and two routes that
repeat a backend within a route; `MaxChanges` = 1 change to a Service or
Deployment at any moment between the passes, while Flows come and go without
bound. One change is enough for each way a pass can end and for each kind of
leftover a later pass may meet, for what a pass does depends on the users' objects
of that moment and on what is managed, not on how they came about.

**Fairness.** `FairSpec` has weak fairness on the pass as a whole (the worker
goroutine runs), on the informer of each kind (watches deliver), on the
periodic resync (controller-runtime's informers replay their store, every ten
hours by default) and on the collector for each marked object. There is none
on users, failures and restarts, and none on individual calls of a pass.

## Findings

1. `user_object`: `ApplyResources` deletes by name without a precondition
   (`resources.go` 226). README 9: "The operator does not reconcile user
   resources."
2. `removal`: the pass triggered by removing the last Flow can read a
   Deployment cache that does not show yet what the pass before created. It
   ends in success, and no event follows: the leftovers stay. README 11: the
   same operation is performed "each time one of the watched Flow custom
   resources is added or removed".
3. `parents`: the parents of a stateful service that is not HTTP are moved to
   the flow's version (`topology.go` 125-139) and put back to the baseline by
   `reconciler.go` 58-84, because `MoveServiceToVersion` leaves `IsManaged`
   false.
4. `gateways`: `topology.go` 657 assigns the gateways and routes of a namespace
   over those of the one before, while services and dependencies are appended
   (659-660). README 13 has the base topology generated from the gateways.
5. `images`: the Deployment a flow's version is copied from is looked up by app
   label among the operator's Deployments, too (`reconciler.go` 49,
   `topology.go` 706): a service that flow `f` isolates without naming it may
   get the image of flow `g`, and a pass with nothing new may change it. README
   14: "Every operation performed by the operator needs to be idempotent".

## Proofs

`OperatorProofs` proves, for every set of keys, namespaces and specs, every
plan and any number of user writes and faults: `TypeOK`, `VersionsIdentify`,
`CleanPassConverges`, `NoLostWakeup`, `UndisturbedNotRefused`,
`DanglingRoutesPending`, and the action properties `ReadBeforeOverwrite`,
`UserSpecsKept`, `IdempotentPass` and `WorkloadsBeforeRoutes`. The assumptions are
those named in `ApiServer` and `Operator`: sentinels are not objects or specs, nor
what is left of an object in a view or in `AtomicPass` (`ContentAssumption`), kinds
and namespaces of keys are among those listed, the plan yields a spec or none for
each key and is closed under routing.

None of the properties is inductive by itself. `IInv` adds:

- `PassShape`: between passes nothing of one is left, and once labels are
  written everything has been listed. Needed wherever a step uses `snap`.
- `ManagedAreLabeled`: only the operator makes managed objects and it labels
  them, so label injection never touches one. Without it an Update of the
  label phase could change an object the pass is about to find "as wanted".
- `CleanProgress`: in an undisturbed pass, what has not been handled is still as
  listed, and what has been is as wanted or on its way out. It is the loop
  invariant of `ApplyResources`; with nothing pending it gives
  `CleanPassConverges`.
- `WakeupPending`: a Flow whose cached state no pass has seen is in the queue, or
  the running pass has not come to it. With the worker idle it gives
  `NoLostWakeup`.
- `PlanHeld`, `CallsInTurn` and `MarksKept`: a pass that applies has a plan; each call
  it has made was called for, and nothing that comes before it is still pending; what
  an undisturbed pass has deleted is as listed but for the mark. They say how far the
  pass has come, which is what a prefix of the atomic write is.

`UndisturbedNotRefused` is a consequence of `CleanProgress`: what is still pending is as
listed, so it exists or not, in its listed version, as the call needs it.

`AtomicPassProofs` proves `PassesAreAtomic`: `Spec => ImplementsAtomicPass`. What the
keys called so far leave under a key is an outcome of the plan (`CleanOutcome`, and
`WantedOutcome` or `DeletedOutcome` for what is there), what needs no call is its own
outcome (`SettledOutcome`), and the keys called so far are a prefix (`PrefixOfPass`,
from `CallsInTurn`); together, `PartWay`: the server's objects are a partial atomic
write at every moment of an undisturbed pass. With nothing pending that is `Reconcile`
(`FinishPromise`); with a user's or the collector's write on top it is `Interrupt`; with
one more call, or none, `Fail`. An undisturbed pass is never refused
(`UndisturbedNotRefused`), so `RefuseCall` is at most `Abandon`. A call of a disturbed
pass is `WriteStale` by `VersionsIdentify`: an Update that is accepted meets the object
as listed. Labels do not show (`LabelsShowNothing`) because the Update carries what was
listed and meets it unchanged.

`VersionsIdentify` is inductive together with typing: a version is only ever
given out once, hence a cached or listed object under the current version is the
current object. `ReadBeforeOverwrite` follows from it, and so does
`UserSpecsKept`: what is updated was listed as managed under its current version,
so it is managed now.

`BaseTopologyProofs` proves `TypeOK`, `AcceptedIffSound`, `BuiltCompletely` and
`PanicCauses` for any namespaces, names and listings. The invariant is the
loop's: what has been accumulated is exactly what the namespaces handled so far
give, all of those are well formed, and the only one with an ingress is the
remembered one (`LoopInvariant`); once the loop has stopped, the cluster
explains how (`Stopped`). With nothing left to do the first becomes
`BuiltCompletely`, and both give `AcceptedIffSound`.

`BaseTopologyProofs` also proves `StrandedCauses`: once the loop is over, a namespace
has an entry exactly when a service of the users' was listed in it.

`FlowTopologyProofs` proves `TypeOK`, `DepsFollowServices` and `BaseOrFlow` for any
number of services, graph, list order and target. All replacements go through
`UpdateService`, so one lemma (`ReplaceAligned`) carries the argument: the slice
holds at each place an object of that place (`PlacesKept`), hence no two places
share a pointer, hence redirecting by pointer comparison moves the dependencies
of one place only. `MemoryKept` says that objects are added and never changed.

`FlowIsolationProofs` goes on to what is isolated. `Isolates(...)` of module
`Isolation` is an equation: a set is a solution if it has the target and exactly
those services found that no isolated parent-hider earlier in the list hides.
`IsolationProofs` shows that it has one solution, by the least place on which two
would differ (no recursion is needed, so no induction over data), and `Isolated`
chooses it. The loop invariant `VisitedSoFar` says of every place before `idx` that
the equation holds there: what is isolated was found, what was found and is not
isolated is hidden by something earlier, and what hides has hidden. At the end of
the loop it is the equation (`Ended`), hence `IsolatedExactly`, and
`StaysInNamespace` because paths stay in a namespace when vertices do. The same
invariant gives the refinement: each action is a step of `FlowIsolation` or changes
none of its variables (`DerivationImplements`).

`PassesProofs` proves every property the run `passes` checks, for any services,
dependencies, Flows, routes, hosts and lists, in any order, and any number of
changes. The assumptions are those named in `Rendering` and `Passes`: there are
finitely many of everything, and `NameAssumption`: a version's name is not that of
its service and tells it from the service's other versions (the code appends a
dash and the version). Nothing is assumed of names of different services, so all
ways in which they run together are covered. The inductive invariant is small:
the types, and that a managed Deployment has the name of its service and version
(`NamesKept`; without it the Deployment that refuses an Update could not be told
to carry the name that is ambiguous). Only `Apply` establishes what the properties
say of a pass that was applied, so the work is in lemmas about the functions of
`Rendering`:

- `IsolatedIsSolution`: for any list the equation of `Isolation` has a solution,
  built place by place; so what a flow isolates holds the target and is among the
  listed and stateful services.
- `DeploymentsAre`: one Deployment per service and flow that isolates it, told
  apart by place; `UnrefusedUnclashing`: up to the first that is refused, by name.
- `AddedApart` and `FirstIsAdded`: of the references with one name exactly one is
  rewritten, the first in the order of turns, lists and places, which is total
  (`LexicalTotal3`) and has a first in every set (`LexicalFirst`).
- `RoutesAre`: a backend of a rendered route is the users' or the name of such a
  reference. With `FrontServicesAre` it gives `RoutesReachVersions`, with
  `AddedApart` `OneReferenceEach`.
- `SameHost`: what two hosts with one rewritten form have in common.

`RoutesFollowTheirList` compares two passes, so it has an invariant of its own,
`RoutesKept`: the routes are what the list they were rendered from, the services and
the Flows say. `AppliedWhenSound` is about passes that stop: `SoundPlans` says that a
cluster in order gets a plan, `RefusedIsAmbiguous` that what refused a Deployment is
still there afterwards.

**Only model-checked.** `FlowsConverge` (liveness under fairness is out of the
prover's reach) and the violated properties. `AtomicPass` states no fairness: that a
pass is written at all is part of `FlowsConverge`.

## What is taken from outside, and what is left out

From controller-runtime v0.19, by its documented behaviour: one worker per
controller; a queue that holds a key once and takes a key back that was added
while it was served; recovered panics requeue the key; reads come from informer
caches; no order of cached lists. The queue is a set: two keys may be served in
either order. From the API server: fresh resourceVersions; an Update that
changes nothing keeps it; an Update whose body drops the finalizers of an object
marked for deletion removes it. `deep.MustCopy` keeps the sharing of pointers
within one call; `graph.AllPathsBetween` finds a path exactly when there is one.

Namespaces are fixed during a run. Objects the operator renders carry the labels
`app` and `version` when they are Deployments or front services; a flow's own
Service (`GetCoreV1Service`, no `version` label) has the name of the listed user's
Service it derives from, so it is never created. Dependency annotations do not
repeat a dependency or name the service itself.

`Rendering` and `Passes` have one namespace, and users change an object only
between passes there; `Operator` has the changes in mid-pass. A Flow's spec does not
change but by removing and adding the Flow. Hosts carry no scheme or path. Ingress
objects are rendered by the code but never applied (`topology.go` 346 is commented
out), only their front Services are; the Kardinal ingress has one rule. Traffic
policies, rollout strategies, ports and the bodies of Gateways are left out: nothing
tells them apart. A call from one pod to another is not modelled, so what the mesh
does with a call that no route matches is not either (`service.go` 282: the TCP
routes match on the version label of the caller).

Not modelled at all: flags, TLS, metrics and probes of `main` (wiring of
libraries), API types and generated deep copies (data), printing, test helpers
and manifests.

## Plan

Done: everything in the table of modules, with proofs for all of it.

Left:

1. Several namespaces in `Rendering`: front Services made unique by name across
   namespaces (`topology.go` 233) and route indices counted over all namespaces.
