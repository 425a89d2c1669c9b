----------------------------- MODULE ApiServer -----------------------------
(***************************************************************************)
(* The Kubernetes API server and the informer caches, as the operator uses *)
(* them through controller-runtime's client.Client: reads are answered by  *)
(* a cache that may lag, writes go to the server, an Update carries the    *)
(* resourceVersion of the object it was made from, a Delete carries no     *)
(* precondition and asks for foreground propagation.                       *)
(*                                                                         *)
(* None of this is code of the repository; it is what src/ relies on.      *)
(***************************************************************************)
EXTENDS Naturals, Sequences

CONSTANTS
  Keys,     \* the objects a cluster may hold, as [kind, ns, name] records
  Specs,    \* contents of an object's .Spec, as far as the operator compares it
  Absent,   \* no object under a key
  NoSpec,   \* no object is wanted under a key
  InitSpec, \* what the users have installed before the operator starts
  UserKeys  \* the keys the users of the cluster act on

(***************************************************************************)
(* managed: the label kardinal.dev/managed is "true".  labeled: the labels *)
(* "app" and "version" are set.  deleting: the object has a deletion       *)
(* timestamp and waits for the garbage collector.  rv: resourceVersion.    *)
(***************************************************************************)
Object == [managed  : BOOLEAN,
           labeled  : BOOLEAN,
           deleting : BOOLEAN,
           spec     : Specs,
           rv       : Nat]

Slot == Object \cup {Absent}

FlowKeys == {k \in Keys : k.kind = "Flow"}

ASSUME AbsentAssumption == Absent \notin Object
ASSUME NoSpecAssumption == NoSpec \notin Specs
ASSUME InitAssumption   == InitSpec \in [Keys -> Specs \cup {NoSpec}]
ASSUME UserAssumption   == UserKeys \subseteq Keys

VARIABLES
  api,   \* the objects the API server stores
  rev,   \* the last resourceVersion given out under each key
  cache  \* what the informers have delivered so far

Exists(k) == api[k] # Absent

UserObject(s) ==
  [managed |-> FALSE, labeled |-> FALSE, deleting |-> FALSE, spec |-> s, rv |-> 0]

ApiInit ==
  /\ api   = [k \in Keys |-> IF InitSpec[k] = NoSpec THEN Absent
                                                    ELSE UserObject(InitSpec[k])]
  /\ rev   = [k \in Keys |-> 0]
  /\ cache = api

ApiTypeOK ==
  /\ api   \in [Keys -> Slot]
  /\ rev   \in [Keys -> Nat]
  /\ cache \in [Keys -> Slot]

-----------------------------------------------------------------------------
(* Every write that changes an object gives it a fresh resourceVersion.    *)
Store(k, o) ==
  /\ api' = [api EXCEPT ![k] = [o EXCEPT !.rv = rev[k] + 1]]
  /\ rev' = [rev EXCEPT ![k] = @ + 1]

(* An Update is refused (NotFound, Conflict) unless the object is still    *)
(* the version the caller read.                                            *)
Fresh(k, o) == Exists(k) /\ api[k].rv = o.rv

(* Create fails with AlreadyExists on any object, one being deleted too.   *)
ApiCreate(k, o) == ~Exists(k) /\ Store(k, o)

(* An Update that changes nothing keeps the resourceVersion.               *)
ApiUpdate(k, o) ==
  /\ Fresh(k, o)
  /\ IF o = api[k] THEN UNCHANGED <<api, rev>> ELSE Store(k, o)

(* client.Delete with PropagationPolicy(Foreground) marks the object; it   *)
(* fails with NotFound when there is none, and succeeds again on one that  *)
(* is already marked.                                                      *)
ApiDelete(k) ==
  /\ Exists(k)
  /\ IF api[k].deleting THEN UNCHANGED <<api, rev>>
                        ELSE Store(k, [api[k] EXCEPT !.deleting = TRUE])

(* An Update whose body carries no finalizers drops the finalizer that     *)
(* holds a marked object, so the server removes the object at once.        *)
ApiReplace(k, o) ==
  /\ Fresh(k, o)
  /\ IF api[k].deleting
       THEN api' = [api EXCEPT ![k] = Absent] /\ UNCHANGED rev
       ELSE ApiUpdate(k, o)

(* The garbage collector removes a marked object, at any later time.       *)
ApiCollect(k) ==
  /\ Exists(k) /\ api[k].deleting
  /\ api' = [api EXCEPT ![k] = Absent]
  /\ UNCHANGED <<rev, cache>>

(* The informer of one kind catches up; the other kinds do not.            *)
ApiSync(kd) ==
  /\ cache' = [k \in Keys |-> IF k.kind = kd THEN api[k] ELSE cache[k]]
  /\ UNCHANGED <<api, rev>>

-----------------------------------------------------------------------------
(* What the users of the cluster do: install, edit and remove objects,     *)
(* Flows among them, and also edit or remove objects the operator manages. *)
ApiUserCreate(k, s) == ~Exists(k) /\ Store(k, UserObject(s))

ApiUserEdit(k, s) ==
  /\ Exists(k) /\ api[k].spec # s
  /\ Store(k, [api[k] EXCEPT !.spec = s])

ApiUserDelete(k) ==
  /\ Exists(k)
  /\ api' = [api EXCEPT ![k] = Absent]
  /\ UNCHANGED rev

ApiUserWrite ==
  /\ \E k \in UserKeys :
       \/ \E s \in Specs : ApiUserCreate(k, s) \/ ApiUserEdit(k, s)
       \/ ApiUserDelete(k)
  /\ UNCHANGED cache

=============================================================================
