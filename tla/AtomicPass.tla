----------------------------- MODULE AtomicPass -----------------------------
(***************************************************************************)
(* What a reconciliation pass promises of the cluster, without queue,      *)
(* caches, listings, versions or single calls: a pass that nothing         *)
(* disturbs is one write of everything its plan wants.  Operator           *)
(* implements it.                                                          *)
(*                                                                         *)
(* A pass that a failure or another writer cuts short has written the      *)
(* workloads before the routes, and one whose listing is not the cluster's *)
(* state writes key by key under what that listing allows.                 *)
(***************************************************************************)
EXTENDS Naturals

CONSTANTS
  Keys, UserKeys, AppliedKeys, WorkloadKinds,
  Specs, Absent, NoSpec,
  Desired(_), PlanResult(_)

VARIABLES
  cluster,  \* what is under each key, labels and versions left out
  basis,    \* {} or {the listing that a pass goes on with though it is
            \* not, or no longer, the state of the cluster}
  userOps, faults

vars == <<cluster, basis, userOps, faults>>

Content == [managed : BOOLEAN, deleting : BOOLEAN, spec : Specs]
Slot    == Content \cup {Absent}
Views   == [Keys -> [managed : BOOLEAN, spec : Specs] \cup {Absent}]

User(s)      == [managed |-> FALSE, deleting |-> FALSE, spec |-> s]
Own(s)       == [managed |-> TRUE, deleting |-> FALSE, spec |-> s]
Marked(o)    == [managed |-> o.managed, deleting |-> TRUE, spec |-> o.spec]
Edited(o, s) == [managed |-> o.managed, deleting |-> o.deleting, spec |-> s]

Init ==
  /\ cluster \in [Keys -> {User(s) : s \in Specs} \cup {Absent}]
  /\ basis = {}
  /\ userOps = 0 /\ faults = 0

-----------------------------------------------------------------------------
(* The plan for the cluster as it is.                                      *)
View ==
  LET now == cluster IN
  [k \in Keys |-> IF now[k] = Absent
                    THEN Absent
                    ELSE [managed |-> now[k].managed, spec |-> now[k].spec]]

Owned(o) == o # Absent /\ o.managed

(* What it makes of what is under each key.  An object of the users is     *)
(* left alone.  What is deleted is marked until the collector comes.       *)
Outcome(old, want) ==
  CASE want # NoSpec /\ (old = Absent \/ Owned(old)) -> {Own(want)}
    [] want = NoSpec /\ Owned(old) -> {Marked(old), Absent}
    [] OTHER -> {old}
Outcomes ==
  LET now == cluster
      want == Desired(View) IN
  [k \in Keys |-> Outcome(now[k], want[k])]

Plannable ==
  LET now == cluster
      want == Desired(View) IN
  /\ PlanResult(View) = "ok"
  /\ \A k \in AppliedKeys : want[k] # NoSpec /\ Owned(now[k]) => ~now[k].deleting

(* Make before break: workloads before routes, and in one namespace and    *)
(* kind what is wanted before what is deleted.                             *)
Earlier(want, j, k) ==
  \/ j.kind \in WorkloadKinds /\ k.kind \notin WorkloadKinds
  \/ j.kind = k.kind /\ j.ns = k.ns /\ want[j] # NoSpec /\ want[k] = NoSpec

(* The keys that may have been written when a pass is cut short.           *)
Prefixes ==
  LET now == cluster
      want == Desired(View)
      out  == Outcomes
      settled == {j \in AppliedKeys : now[j] \in out[j]} IN
  {S \in SUBSET AppliedKeys :
     \A k \in S, j \in AppliedKeys \ (S \cup settled) : ~Earlier(want, j, k)}

Now(S) ==
  LET now == cluster
      out == Outcomes IN
  [k \in Keys |-> IF k \in S THEN out[k] ELSE {now[k]}]
Written(S, K) ==
  LET then == cluster'
      may == Now(S) IN
  then \in [Keys -> Slot] /\ \A k \in K : then[k] \in may[k]

(* A pass, all of it, if it changes anything.                              *)
Reconcile ==
  /\ UNCHANGED <<basis, userOps, faults>>
  /\ basis = {} /\ cluster' # cluster
  /\ Plannable
  /\ Written(AppliedKeys, Keys)

-----------------------------------------------------------------------------
(* What others do under one key.                                           *)
UserChange(k, old, new) ==
  /\ k \in UserKeys
  /\ \/ old = Absent /\ \E s \in Specs : new = User(s)
     \/ old # Absent /\ \E s \in Specs : s # old.spec /\ new = Edited(old, s)
     \/ old # Absent /\ new = Absent
Collected(old, new) == old # Absent /\ old.deleting /\ new = Absent

Others(k, old, new) ==
  \/ UserChange(k, old, new) /\ userOps' = userOps + 1
  \/ Collected(old, new) /\ UNCHANGED userOps

(* Between passes, or while a pass reads or goes on with an old listing.   *)
Change ==
  /\ UNCHANGED <<basis, faults>>
  /\ \E k \in Keys : /\ Others(k, cluster[k], cluster'[k])
                     /\ cluster' = [cluster EXCEPT ![k] = cluster'[k]]

(* In the midst of a pass: what it has written shows, and from now on its  *)
(* listing is old.                                                         *)
Interrupt ==
  /\ UNCHANGED faults
  /\ basis = {} /\ basis' = {View}
  /\ Plannable
  /\ \E S \in Prefixes, k \in Keys :
       /\ Written(S, Keys \ {k})
       /\ \E old \in Now(S)[k] : Others(k, old, cluster'[k])

(* A pass has listed what is not the state of the cluster.                 *)
Misread ==
  /\ basis = {}
  /\ \E v \in basis' : basis' = {v} /\ v \in Views /\ PlanResult(v) = "ok"
  /\ UNCHANGED <<cluster, userOps, faults>>

(* One write of such a pass.  It creates where nothing is, updates what is *)
(* its own and still as listed (which lets go of what is marked for        *)
(* deletion), and deletes by name.                                         *)
StaleWrite(k, v) ==
  LET want == Desired(v)[k]
      old  == cluster[k]
      new  == cluster'[k] IN
  /\ cluster' = [cluster EXCEPT ![k] = new]
  /\ \/ want # NoSpec /\ v[k] = Absent /\ old = Absent /\ new = Own(want)
     \/ /\ want # NoSpec /\ Owned(old) /\ v[k] = View[k]
        /\ new = IF old.deleting THEN Absent ELSE Own(want)
     \/ want = NoSpec /\ v[k] # Absent /\ v[k].managed /\ old # Absent /\ new = Marked(old)

WriteStale ==
  /\ UNCHANGED <<basis, userOps, faults>>
  /\ \E k \in AppliedKeys, v \in basis : StaleWrite(k, v)

(* It ends, or is refused a call.                                          *)
Abandon ==
  /\ basis # {} /\ basis' = {}
  /\ UNCHANGED <<cluster, userOps, faults>>

(* A call fails, with or without effect, or the process dies.              *)
Fail ==
  /\ faults' = faults + 1 /\ UNCHANGED userOps
  /\ basis' = {}
  /\ \/ UNCHANGED cluster
     \/ \E k \in AppliedKeys, v \in basis : StaleWrite(k, v)
     \/ basis = {} /\ Plannable /\ \E S \in Prefixes : Written(S, Keys)

Next == Reconcile \/ Change \/ Interrupt \/ Misread \/ WriteStale \/ Abandon \/ Fail
Spec == Init /\ [][Next]_vars
=============================================================================
