------------------------------ MODULE Operator ------------------------------
(***************************************************************************)
(* The operator's control loop: the controller-runtime work queue of Flow  *)
(* keys, FlowReconciler.Reconcile, and one reconciliation pass step by     *)
(* step, from the listing of the cluster to the last write, against an API *)
(* server that users, the garbage collector and lagging informers share.   *)
(*                                                                         *)
(* What the pass wants the cluster to hold (topology, flows, merge,        *)
(* rendering) is pure: it is the parameter Desired.                        *)
(***************************************************************************)
EXTENDS ApiServer, FiniteSets

CONSTANTS
  Unread,         \* a key this pass has not listed yet
  Namespaces,     \* the namespaces that are not ignored by prefix
  Desired(_),     \* the specs the pass renders from what it listed
  PlanResult(_),  \* how the pure part of the pass ends: see Results
  Refers(_, _),   \* the operator's own workloads that an object of a spec
                  \* routes to
  DefaultedKinds, \* kinds whose stored spec never equals the rendered one,
                  \* because the API server fills in defaults
  MaxUserOps,     \* bound: writes by the users of the cluster
  MaxFaults       \* bound: restarts and failed API calls

(* The kinds in the order a namespace is listed, and in the order applied. *)
ListOrder  == <<"Service", "Deployment", "Ingress", "VirtualService",
                "DestinationRule", "Gateway", "HTTPRoute", "Flow">>
(* Mutation: the routes before the workloads they point to. *)
RoutesFirst == <<"VirtualService", "DestinationRule", "Gateway", "HTTPRoute",
                 "Service", "Deployment">>
ApplyOrder == <<"Service", "Deployment", "VirtualService",
                "DestinationRule", "Gateway", "HTTPRoute">>

Kinds(order)          == {order[i] : i \in DOMAIN order}
Before(order, x, y)   == \E i, j \in DOMAIN order : i < j /\ order[i] = x /\ order[j] = y
WorkloadKinds         == {"Service", "Deployment"}
AppliedKeys           == {k \in Keys : k.kind \in Kinds(ApplyOrder)}

(* ok: the pass goes on.  error: Reconcile returns an error, or nil early. *)
(* panic: a nil or out-of-range dereference unwinds the pass.              *)
Results == {"ok", "error", "panic"}

(* What the pure part of a pass reads of a listing.                        *)
Views == [Keys -> [managed : BOOLEAN, spec : Specs] \cup {Absent}]
View(listing) ==
  [k \in Keys |-> IF listing[k] \in Object
                    THEN [managed |-> listing[k].managed, spec |-> listing[k].spec]
                    ELSE Absent]

ASSUME KeysAssumption ==
  \A k \in Keys : k.kind \in Kinds(ListOrder) /\ k.ns \in Namespaces
ASSUME UnreadAssumption == Unread \notin Slot
ASSUME PlanAssumption ==
  \A v \in Views : /\ Desired(v) \in [Keys -> Specs \cup {NoSpec}]
                   /\ PlanResult(v) \in Results
(* A plan is closed: a route leads only to versions it deploys, which is   *)
(* what Passes checks of the plans the code renders (SubsetsAreDeployed).  *)
ASSUME RoutesAssumption ==
  \A k \in Keys :
    /\ \A s \in Specs : Refers(k, s) \subseteq {d \in AppliedKeys : d.kind \in WorkloadKinds}
    /\ \A v \in Views :
         Desired(v)[k] # NoSpec =>
           \A d \in Refers(k, Desired(v)[k]) : Desired(v)[d] # NoSpec
ASSUME BoundsAssumption == MaxUserOps \in Nat /\ MaxFaults \in Nat

VARIABLES
  queue,   \* Flow keys waiting in the work queue
  item,    \* the Flow key whose event this pass serves
  phase,   \* where the only worker is
  order,   \* the namespaces in the order this pass lists and applies them
  snap,    \* the objects this pass has listed (clusterResources)
  done,    \* the keys whose apply call this pass has made
  clean,   \* history: nothing disturbed this pass and nothing it read was old
  seen,    \* history: each Flow as the last pass to list it found it
  userOps, faults

pass == <<item, phase, order, snap, done, clean, seen>>
vars == <<api, rev, cache, queue, pass, userOps, faults>>

NoPass == [k \in Keys |-> Unread]
Orders == {s \in [1 .. Cardinality(Namespaces) -> Namespaces] :
             \A i, j \in DOMAIN s : s[i] = s[j] => i = j}

TypeOK ==
  /\ ApiTypeOK
  /\ queue \subseteq FlowKeys
  /\ item \in FlowKeys \cup {Absent}
  /\ phase \in {"idle", "list", "inject", "apply"}
  /\ order \in Orders \cup {<<>>}
  /\ snap \in [Keys -> Slot \cup {Unread}]
  /\ done \subseteq Keys
  /\ clean \in BOOLEAN
  /\ seen \in [FlowKeys -> Slot]
  /\ userOps \in 0 .. MaxUserOps
  /\ faults \in 0 .. MaxFaults

Init ==
  /\ ApiInit
  /\ queue = {k \in FlowKeys : Exists(k)}
  /\ item = Absent /\ phase = "idle" /\ order = <<>>
  /\ snap = NoPass /\ done = {} /\ clean = FALSE
  /\ seen = [k \in FlowKeys |-> Absent]
  /\ userOps = 0 /\ faults = 0

-----------------------------------------------------------------------------
(* FlowReconciler.Reconcile reports every outcome as success: an error is  *)
(* logged, the key leaves the queue and no retry is scheduled.             *)
(* Mutation: the listing of one pass is left to the next. *)
EndPassKeepingListing ==
  /\ phase' = "idle" /\ item' = Absent /\ order' = <<>>
  /\ done' = {} /\ clean' = FALSE
  /\ UNCHANGED <<snap, seen>>
EndPass ==
  /\ phase' = "idle" /\ item' = Absent /\ order' = <<>>
  /\ snap' = NoPass /\ done' = {} /\ clean' = FALSE
  /\ UNCHANGED seen
(* Mutation: an event that came in during the pass goes with it. *)
AbortPassForgetting == EndPass /\ queue' = queue \ {item}
AbortPass == EndPass /\ UNCHANGED queue

(* A panic is turned into an error by the controller, which puts the key   *)
(* back.  Mutation: the key is read after it was reset. *)
RequeueTooLate == EndPass /\ queue' = queue \cup {item'}
Requeue == EndPass /\ queue' = queue \cup {item}

BeginPass ==
  /\ phase = "idle"
  /\ \E k \in queue : item' = k /\ queue' = queue \ {k}
  /\ order' \in Orders
  /\ phase' = "list" /\ clean' = TRUE
  /\ UNCHANGED <<api, rev, cache, snap, done, seen, userOps, faults>>

(* getNamespaceResources: one cached List per namespace and kind.  The     *)
(* informers of different kinds do not advance together.                   *)
Unlisted(k) == snap[k] = Unread
ListedBefore(j, k) ==
  \/ Before(order, j.ns, k.ns)
  \/ j.ns = k.ns /\ Before(ListOrder, j.kind, k.kind)

ListNext ==
  /\ phase = "list"
  /\ \E k \in Keys :
       LET group == {j \in Keys : j.ns = k.ns /\ j.kind = k.kind} IN
         /\ Unlisted(k)
         /\ \A j \in Keys : ListedBefore(j, k) => ~Unlisted(j)
         /\ snap' = [j \in Keys |-> IF j \in group THEN cache[j] ELSE snap[j]]
         /\ seen' = [j \in FlowKeys |-> IF j \in group THEN cache[j] ELSE seen[j]]
         /\ clean' = (clean /\ \A j \in group : cache[j] = api[j])
  /\ phase' = IF \E j \in Keys : snap'[j] = Unread THEN "list" ELSE "inject"
  /\ UNCHANGED <<api, rev, cache, queue, item, order, done, userOps, faults>>

(* A List fails when the kind is not served: the pass ends.                *)
FailList ==
  /\ phase = "list" /\ faults < MaxFaults
  /\ faults' = faults + 1
  /\ AbortPass
  /\ UNCHANGED <<api, rev, cache, userOps>>

-----------------------------------------------------------------------------
(* InjectIstioLabelsInServicesAndDeployments: the "app" and "version"      *)
(* labels are written on each listed Service and Deployment that lacks     *)
(* them, namespace by namespace, Services first.                           *)
NeedsLabels(k) ==
  k.kind \in WorkloadKinds /\ snap[k] # Absent /\ ~snap[k].labeled
LabelTurn(k) ==
  phase = "inject" /\ NeedsLabels(k) /\ \A j \in Keys : ListedBefore(j, k) => ~NeedsLabels(j)
Labeled(o) == [o EXCEPT !.labeled = TRUE]

(* Mutation: the labels are set on the listed object, the Update is not sent. *)
InjectLabelsUnsent(k) ==
  /\ LabelTurn(k)
  /\ snap' = [snap EXCEPT ![k] = Labeled(@)]
  /\ UNCHANGED <<api, rev, cache, queue, item, phase, order, done, clean, seen, userOps, faults>>
InjectLabels(k) ==
  /\ LabelTurn(k)
  /\ ApiUpdate(k, Labeled(snap[k]))
  /\ snap' = [snap EXCEPT ![k] = api'[k]]
  /\ UNCHANGED <<cache, queue, item, phase, order, done, clean, seen, userOps, faults>>

(* NewClusterTopologyFromResources, the flows, Merge and GetResources.     *)
Wanted(k)  == Desired(View(snap))[k] # NoSpec
(* Mutation: whatever is listed counts as managed. *)
ManagedAny(k) == snap[k] # Absent
Managed(k) == snap[k] # Absent /\ snap[k].managed

PlanPass ==
  /\ phase = "inject"
  /\ \A k \in Keys : ~NeedsLabels(k)
  /\ CASE PlanResult(View(snap)) = "ok" ->
            /\ phase' = "apply"
            /\ clean' = (clean /\ \A k \in AppliedKeys :
                           Wanted(k) /\ Managed(k) => ~snap[k].deleting)
            /\ UNCHANGED <<queue, item, order, snap, done, seen>>
       [] PlanResult(View(snap)) = "error" -> AbortPass
       [] OTHER -> Requeue
  /\ UNCHANGED <<api, rev, cache, userOps, faults>>

-----------------------------------------------------------------------------
(* ApplyResources: kind by kind, namespace by namespace, what is wanted    *)
(* first and the deletions after.  An object the operator does not manage  *)
(* is left alone.                                                          *)
Creates(k) == Wanted(k) /\ snap[k] = Absent
(* Mutation: the comparison is not negated. *)
UpdatesWhenEqual(k) ==
  /\ Wanted(k) /\ Managed(k)
  /\ snap[k].spec = Desired(View(snap))[k] \/ k.kind \in DefaultedKinds
Updates(k) ==
  /\ Wanted(k) /\ Managed(k)
  /\ snap[k].spec # Desired(View(snap))[k] \/ k.kind \in DefaultedKinds
(* Mutation: a namespace in which nothing is wanted any more is skipped. *)
DeletesWhereWanted(k) ==
  ~Wanted(k) /\ Managed(k) /\ \E j \in Keys : j.ns = k.ns /\ Wanted(j)
Deletes(k) == ~Wanted(k) /\ Managed(k)

(* Mutation: what has been called for is called for again. *)
PendingAgain(k) ==
  k \in AppliedKeys /\ (Creates(k) \/ Updates(k) \/ Deletes(k))
Pending(k) ==
  k \in AppliedKeys /\ k \notin done /\ (Creates(k) \/ Updates(k) \/ Deletes(k))
AppliedBefore(j, k) ==
  \/ Before(ApplyOrder, j.kind, k.kind)
  \/ j.kind = k.kind /\ Before(order, j.ns, k.ns)
  \/ j.kind = k.kind /\ j.ns = k.ns /\ ~Deletes(j) /\ Deletes(k)
ApplyTurn(k) ==
  phase = "apply" /\ Pending(k) /\ \A j \in Keys : AppliedBefore(j, k) => ~Pending(j)

(* What the operator sends: its labels, the rendered spec and, in an       *)
(* Update, the resourceVersion it listed.  No finalizers.                  *)
(* Mutations: no version label; any version may be overwritten. *)
RenderedUnlabeled(k) ==
  [managed |-> TRUE, labeled |-> FALSE, deleting |-> FALSE,
   spec |-> Desired(View(snap))[k],
   rv |-> IF snap[k] = Absent THEN 0 ELSE snap[k].rv]
RenderedUnversioned(k) ==
  [managed |-> TRUE, labeled |-> TRUE, deleting |-> FALSE,
   spec |-> Desired(View(snap))[k],
   rv |-> IF Exists(k) THEN api[k].rv ELSE 0]
Rendered(k) ==
  [managed |-> TRUE, labeled |-> TRUE, deleting |-> FALSE,
   spec |-> Desired(View(snap))[k],
   rv |-> IF snap[k] = Absent THEN 0 ELSE snap[k].rv]

CreateObject(k) == Creates(k) /\ ApiCreate(k, Rendered(k))
UpdateObject(k) == Updates(k) /\ ApiReplace(k, Rendered(k))
DeleteObject(k) == Deletes(k) /\ ApiDelete(k)

ApplyCall(k) ==
  /\ ApplyTurn(k)
  /\ CreateObject(k) \/ UpdateObject(k) \/ DeleteObject(k)
  /\ done' = done \cup {k}
  /\ UNCHANGED <<cache, queue, item, phase, order, snap, clean, seen, userOps, faults>>

FinishPass ==
  /\ phase = "apply" /\ \A k \in Keys : ~Pending(k)
  /\ AbortPass
  /\ UNCHANGED <<api, rev, cache, userOps, faults>>

(* AlreadyExists, Conflict or NotFound: the pass is abandoned at that call *)
(* and what it had still to do is not done.                                *)
Refused(k) ==
  \/ LabelTurn(k) /\ ~Fresh(k, snap[k])
  \/ ApplyTurn(k) /\ Creates(k) /\ Exists(k)
  \/ ApplyTurn(k) /\ Updates(k) /\ ~Fresh(k, snap[k])
  \/ ApplyTurn(k) /\ Deletes(k) /\ ~Exists(k)
RefuseCall(k) ==
  /\ Refused(k)
  /\ AbortPass
  /\ UNCHANGED <<api, rev, cache, userOps, faults>>

(* A call fails for another reason (timeout, quota, webhook); the write    *)
(* may have reached the server all the same.                               *)
Attempt(k) ==
  \/ LabelTurn(k) /\ ApiUpdate(k, Labeled(snap[k]))
  \/ ApplyTurn(k) /\ (CreateObject(k) \/ UpdateObject(k) \/ DeleteObject(k))
FailCall(k) ==
  /\ faults < MaxFaults /\ faults' = faults + 1
  /\ LabelTurn(k) \/ ApplyTurn(k)
  /\ Attempt(k) \/ UNCHANGED <<api, rev>>
  /\ AbortPass
  /\ UNCHANGED <<cache, userOps>>

-----------------------------------------------------------------------------
(* The process dies and comes back: the informers list anew and the        *)
(* controller is handed an event for every Flow that still exists.         *)
Restart ==
  /\ faults < MaxFaults /\ faults' = faults + 1
  /\ cache' = api
  /\ queue' = {k \in FlowKeys : Exists(k)}
  /\ EndPass
  /\ UNCHANGED <<api, rev, userOps>>

(* Only Flow events reach the work queue.                                  *)
SyncCache(kd) ==
  /\ \E k \in Keys : k.kind = kd /\ cache[k] # api[k]
  /\ ApiSync(kd)
  /\ queue' = queue \cup {k \in FlowKeys : k.kind = kd /\ cache[k] # api[k]}
  /\ UNCHANGED <<pass, userOps, faults>>

(* The informer's periodic resync replays the Flows in its cache.          *)
Resync ==
  /\ \E k \in FlowKeys : cache[k] # Absent /\ k \notin queue
  /\ queue' = queue \cup {k \in FlowKeys : cache[k] # Absent}
  /\ UNCHANGED <<api, rev, cache, pass, userOps, faults>>

CollectGarbage(k) ==
  /\ ApiCollect(k)
  /\ clean' = (clean /\ (k \in done \/ Unlisted(k)))
  /\ UNCHANGED <<queue, item, phase, order, snap, done, seen, userOps, faults>>

UserWrite ==
  /\ userOps < MaxUserOps /\ userOps' = userOps + 1
  /\ ApiUserWrite
  /\ clean' = FALSE
  /\ UNCHANGED <<queue, item, phase, order, snap, done, seen, faults>>

PassStep ==
  \/ BeginPass \/ ListNext \/ PlanPass \/ FinishPass
  \/ \E k \in Keys : InjectLabels(k) \/ ApplyCall(k) \/ RefuseCall(k)
Environment ==
  \/ \E kd \in Kinds(ListOrder) : SyncCache(kd)
  \/ Resync
  \/ \E k \in Keys : CollectGarbage(k)
Disturbance ==
  \/ FailList \/ Restart \/ UserWrite
  \/ \E k \in Keys : FailCall(k)

Next == PassStep \/ Environment \/ Disturbance
Spec == Init /\ [][Next]_vars

(* controller-runtime runs the worker, its informers and their resync; the *)
(* cluster runs the garbage collector.  Users and failures owe nothing.    *)
Fairness ==
  /\ WF_vars(PassStep)
  /\ \A kd \in Kinds(ListOrder) : WF_vars(SyncCache(kd))
  /\ WF_vars(Resync)
  /\ \A k \in Keys : WF_vars(CollectGarbage(k))
FairSpec == Spec /\ Fairness

-----------------------------------------------------------------------------
(* Properties *)

(* A resourceVersion identifies one state of an object: what a cache or a  *)
(* listing holds under the current version is the current object.  Every   *)
(* optimistic write of the pass (resources.go 209, 247, 257) leans on it.  *)
VersionsIdentify ==
  \A k \in Keys :
    /\ Exists(k) => api[k].rv <= rev[k]
    /\ \A o \in {cache[k], snap[k]} \cap Object :
         /\ o.rv <= rev[k]
         /\ Exists(k) /\ o.rv = api[k].rv => o = api[k]

(* The pass overwrites only what it has read: whenever a step that is not  *)
(* a user's replaces an object in place, either it only marks it for       *)
(* deletion or the object was still exactly what the pass had listed, so   *)
(* no concurrent edit is lost (SetResourceVersion, resources.go 209).      *)
ReadBeforeOverwrite ==
  [][\A k \in Keys :
       userOps' = userOps /\ Exists(k) /\ Exists(k)' /\ api'[k] # api[k]
         => snap[k] = api[k] \/ api'[k].deleting]_vars

(* Whatever is in flight, no step of the operator changes the spec of an   *)
(* object of the users or takes it over as managed (resources.go 206).     *)
UserSpecsKept ==
  [][\A k \in Keys :
       userOps' = userOps /\ Exists(k) /\ Exists(k)' /\ ~api[k].managed
         => api'[k].spec = api[k].spec /\ ~api'[k].managed]_vars

(* README 9 says the operator does not reconcile user resources: no step   *)
(* but a user's should remove an object the operator does not manage, or   *)
(* mark it for deletion.  The Delete of resources.go 226 names its target  *)
(* only, so it also hits an object a user put in its place meanwhile.      *)
UserObjectsSurvive ==
  [][\A k \in Keys :
       userOps' = userOps /\ Exists(k) /\ ~api[k].managed /\ ~api[k].deleting
         => Exists(k)' /\ ~api'[k].deleting]_vars

(* The cluster holds what is wanted, and nothing managed that is not;      *)
(* an object of the users stands under its key whatever it contains.       *)
Matches(want) ==
  \A k \in AppliedKeys :
    IF want[k] = NoSpec
      THEN Exists(k) => ~api[k].managed \/ api[k].deleting
      ELSE /\ Exists(k)
           /\ api[k].managed => api[k].spec = want[k] /\ ~api[k].deleting

(* A pass that nothing disturbed leaves the cluster as the merged topology *)
(* wants it: creates, updates and deletes of ApplyResources together miss  *)
(* nothing and undo nothing of each other, across kinds and namespaces.    *)
CleanPassConverges ==
  phase = "apply" /\ clean /\ (\A k \in Keys : ~Pending(k))
    => Matches(Desired(View(snap)))

(* Idempotence (README 14): a pass that finds the cluster as wanted calls  *)
(* the API, if at all, without effect; only the collector still moves.     *)
IdempotentPass ==
  [][phase = "apply" /\ clean /\ userOps' = userOps /\ Matches(Desired(View(snap)))
       => \A k \in Keys : api'[k] = api[k] \/ ~Exists(k)']_vars

(* Make before break: an undisturbed pass creates or updates a route only  *)
(* once every workload it wants exists, because ApplyResources (topology.go*)
(* 254) goes Service, Deployment, then the routing kinds.                  *)
WorkloadsBeforeRoutes ==
  [][\A k \in done' \ done :
       clean /\ k.kind \notin WorkloadKinds /\ Wanted(k)
         => \A d \in AppliedKeys :
              d.kind \in WorkloadKinds /\ Wanted(d) => Exists(d)]_vars

(* On removal the order of ApplyResources is the wrong way round: the      *)
(* flow's Deployment goes before the route to it is changed (topology.go   *)
(* 282).  In an undisturbed pass that gap always closes: as long as a      *)
(* managed route leads to a workload that is gone or going, the pass still *)
(* has a call to make for the route or for the workload.                   *)
Gone(d) == Exists(d) => api[d].managed /\ api[d].deleting
DanglingRoutesPending ==
  phase = "apply" /\ clean =>
    \A k \in AppliedKeys :
      Exists(k) /\ api[k].managed /\ ~api[k].deleting =>
        \A d \in Refers(k, api[k].spec) : Gone(d) => Pending(k) \/ Pending(d)

(* The operator does not get in its own way: in an undisturbed pass the    *)
(* server refuses no call, so Creates, Updates with the listed version and *)
(* Deletes of one pass never invalidate one another, and the early returns *)
(* of ApplyResources (resources.go 196-231) are taken for others' sake.    *)
UndisturbedNotRefused == clean => \A k \in Keys : ~Refused(k)

(* A pass that nothing disturbs is one atomic write: see AtomicPass.  Its  *)
(* writes show when it ends, or when something cuts it short; a listing    *)
(* that is not the state of the cluster shows while it is applied.         *)
Content == [managed : BOOLEAN, deleting : BOOLEAN, spec : Specs]
ASSUME ContentAssumption ==
  Absent \notin Content /\ Absent \notin [managed : BOOLEAN, spec : Specs]
ContentOf(o) ==
  IF o = Absent THEN Absent
                ELSE [managed |-> o.managed, deleting |-> o.deleting, spec |-> o.spec]
Contents(objects) == [k \in Keys |-> ContentOf(objects[k])]

Unsettled  == phase = "apply" /\ clean
AsOneWrite == IF Unsettled THEN Contents(snap) ELSE Contents(api)
OldListing == IF phase = "apply" /\ ~clean THEN {View(snap)} ELSE {}
Promise    == INSTANCE AtomicPass WITH cluster <- AsOneWrite, basis <- OldListing
ImplementsAtomicPass == Promise!Spec

(* No lost wake-up: as long as nothing fails, when the worker is idle and  *)
(* the queue is empty some pass has listed every Flow exactly as the       *)
(* informer last delivered it, however events and passes interleave.       *)
NoLostWakeup ==
  faults = 0 /\ phase = "idle" /\ queue = {}
    => \A k \in FlowKeys : seen[k] = cache[k]

(* If from some time on a Flow exists and the plan is sound, then in the   *)
(* end the cluster stays as wanted: resync replays the Flows, so whatever  *)
(* was swallowed (flow_controller.go 60-64) is made up for.                *)
Planned      == PlanResult(View(api)) = "ok"
SomeFlow     == \E k \in FlowKeys : Exists(k)
FlowsConverge ==
  <>[](SomeFlow /\ Planned) => <>[]Matches(Desired(View(api)))

(* README 11 says the operator does the same when a Flow is removed: once  *)
(* all Flows are gone for good, nothing they brought should stay behind.   *)
(* The pass the removal triggers may read a cache older than the writes of *)
(* the pass before it; no later event makes up for it.                     *)
NoLeftovers ==
  \A k \in AppliedKeys :
    Exists(k) /\ api[k].managed /\ ~api[k].deleting
      => Desired(View(api))[k] # NoSpec
RemovalIsApplied ==
  <>[](~SomeFlow /\ Planned) => <>[]NoLeftovers

-----------------------------------------------------------------------------
(* The inductive invariant behind the safety properties, in named parts.   *)

(* Between passes nothing of one is left; once planned, all is listed.     *)
PassShape ==
  /\ phase = "idle" => snap = NoPass
  /\ phase # "idle" => item \in FlowKeys
  /\ phase \in {"inject", "apply"} => \A k \in Keys : ~Unlisted(k)
  /\ phase # "apply" => done = {}

(* Only the operator makes managed objects, and it labels them itself.     *)
ManagedAreLabeled ==
  \A k \in Keys : \A o \in {api[k], cache[k], snap[k]} \cap Object :
    o.managed => o.labeled

(* What an undisturbed pass has done so far, key by key.                   *)
Applied(k) ==
  IF Wanted(k)
    THEN /\ Exists(k) /\ api[k].managed /\ ~api[k].deleting
         /\ api[k].spec = Desired(View(snap))[k]
    ELSE Exists(k) => api[k].deleting
CleanProgress ==
  clean =>
    /\ phase # "idle"
    /\ \A k \in Keys : ~Unlisted(k) /\ k \notin done => api[k] = snap[k]
    /\ \A k \in done : Applied(k)
    /\ phase = "apply" =>
         \A k \in AppliedKeys : Wanted(k) /\ Managed(k) => ~snap[k].deleting

(* A Flow event not yet acted on is in the queue or ahead of the listing.  *)
WakeupPending ==
  faults = 0 =>
    \A k \in FlowKeys :
      seen[k] = cache[k] \/ k \in queue \/ (phase = "list" /\ Unlisted(k))

(* A pass that applies has a plan; each call it has made was called for,   *)
(* in its turn; and what it deleted is as it was, but marked.              *)
PlanHeld == phase = "apply" => PlanResult(View(snap)) = "ok"
CallsInTurn ==
  \A k \in done :
    /\ k \in AppliedKeys /\ (Creates(k) \/ Updates(k) \/ Deletes(k))
    /\ \A j \in Keys : AppliedBefore(j, k) => ~Pending(j)
MarksKept ==
  clean =>
    \A k \in done :
      ~Wanted(k) /\ Exists(k) =>
        /\ api[k].deleting
        /\ api[k].managed = snap[k].managed /\ api[k].spec = snap[k].spec

IInv ==
  /\ TypeOK /\ VersionsIdentify
  /\ PassShape /\ ManagedAreLabeled /\ CleanProgress /\ WakeupPending
  /\ PlanHeld /\ CallsInTurn /\ MarksKept
=============================================================================
