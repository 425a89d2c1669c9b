--------------------------- MODULE OperatorProofs ---------------------------
(***************************************************************************)
(* Proofs about Operator for every cluster, every number of user writes    *)
(* and failures, and every pure plan Desired of the type PlanAssumption    *)
(* states.                                                                 *)
(***************************************************************************)
EXTENDS Operator, TLAPS

(* What any step may do to the API server's copy of an object: nothing,    *)
(* remove it, or store a version never given out before.                   *)
Moves(k) ==
  \/ api'[k] = api[k] /\ rev'[k] = rev[k]
  \/ api'[k] = Absent /\ rev'[k] = rev[k]
  \/ api'[k] \in Object /\ api'[k].rv = rev[k] + 1 /\ rev'[k] = rev[k] + 1

ApiMoves ==
  /\ api' \in [Keys -> Slot]
  /\ rev' \in [Keys -> Nat]
  /\ \A k \in Keys : Moves(k)

LEMMA StoreMoves ==
  ASSUME ApiTypeOK, NEW k \in Keys, NEW o \in Object, Store(k, o)
  PROVE  ApiMoves /\ api'[k] = [o EXCEPT !.rv = rev[k] + 1]
<1>1. [o EXCEPT !.rv = rev[k] + 1] \in Object /\ [o EXCEPT !.rv = rev[k] + 1].rv = rev[k] + 1
  BY DEF ApiTypeOK, Object
<1>2. api' \in [Keys -> Slot] /\ rev' \in [Keys -> Nat]
  BY <1>1 DEF ApiTypeOK, Store, Slot
<1>3. ASSUME NEW j \in Keys PROVE Moves(j)
  BY <1>1 DEF ApiTypeOK, Store, Moves
<1>4. QED
  BY <1>2, <1>3 DEF ApiMoves, ApiTypeOK, Store

LEMMA StayMoves ==
  ASSUME ApiTypeOK, UNCHANGED <<api, rev>>
  PROVE  ApiMoves
BY DEF ApiTypeOK, ApiMoves, Moves

LEMMA RemoveMoves ==
  ASSUME ApiTypeOK, NEW k \in Keys,
         api' = [api EXCEPT ![k] = Absent], UNCHANGED rev
  PROVE  ApiMoves
BY DEF ApiTypeOK, ApiMoves, Moves, Slot

LEMMA ExistingIsObject ==
  ASSUME ApiTypeOK, NEW k \in Keys, Exists(k)
  PROVE  api[k] \in Object
BY DEF ApiTypeOK, Exists, Slot

LEMMA CreateMoves ==
  ASSUME ApiTypeOK, NEW k \in Keys, NEW o \in Object, ApiCreate(k, o)
  PROVE  ApiMoves
BY StoreMoves DEF ApiCreate

LEMMA UpdateMoves ==
  ASSUME ApiTypeOK, NEW k \in Keys, NEW o \in Object, ApiUpdate(k, o)
  PROVE  ApiMoves /\ Fresh(k, o) /\ api'[k] \in Object
<1>1. CASE o = api[k]
  BY <1>1, StayMoves, ExistingIsObject DEF ApiUpdate, Fresh
<1>2. CASE o # api[k]
  <2>1. Store(k, o)
    BY <1>2 DEF ApiUpdate
  <2>2. [o EXCEPT !.rv = rev[k] + 1] \in Object
    BY DEF ApiTypeOK, Object
  <2>3. QED
    BY <2>1, <2>2, StoreMoves DEF ApiUpdate
<1>3. QED
  BY <1>1, <1>2

LEMMA ReplaceMoves ==
  ASSUME ApiTypeOK, NEW k \in Keys, NEW o \in Object, ApiReplace(k, o)
  PROVE  ApiMoves
BY RemoveMoves, UpdateMoves DEF ApiReplace

LEMMA DeleteMoves ==
  ASSUME ApiTypeOK, NEW k \in Keys, ApiDelete(k)
  PROVE  ApiMoves
<1>1. [api[k] EXCEPT !.deleting = TRUE] \in Object
  BY ExistingIsObject DEF ApiDelete, Object
<1>2. QED
  BY <1>1, StoreMoves, StayMoves DEF ApiDelete

LEMMA UserMoves ==
  ASSUME ApiTypeOK, ApiUserWrite
  PROVE  ApiMoves
<1>1. PICK k \in Keys : \/ \E s \in Specs : ApiUserCreate(k, s) \/ ApiUserEdit(k, s)
                        \/ ApiUserDelete(k)
  BY UserAssumption DEF ApiUserWrite
<1>2. ASSUME NEW s \in Specs, ApiUserCreate(k, s) PROVE ApiMoves
  <2>1. UserObject(s) \in Object
    BY DEF UserObject, Object
  <2>2. QED
    BY <1>2, <2>1, StoreMoves DEF ApiUserCreate
<1>3. ASSUME NEW s \in Specs, ApiUserEdit(k, s) PROVE ApiMoves
  <2>1. [api[k] EXCEPT !.spec = s] \in Object
    BY <1>3, ExistingIsObject DEF ApiUserEdit, Object
  <2>2. QED
    BY <1>3, <2>1, StoreMoves DEF ApiUserEdit
<1>4. CASE ApiUserDelete(k)
  BY <1>4, RemoveMoves DEF ApiUserDelete
<1>5. QED
  BY <1>1, <1>2, <1>3, <1>4

-----------------------------------------------------------------------------
(* What the pass works with is of the right kind.                          *)
LEMMA ViewTyped ==
  ASSUME snap \in [Keys -> Slot \cup {Unread}]
  PROVE  View(snap) \in Views
<1>1. ASSUME NEW k \in Keys
      PROVE  (IF snap[k] \in Object
                THEN [managed |-> snap[k].managed, spec |-> snap[k].spec]
                ELSE Absent) \in [managed : BOOLEAN, spec : Specs] \cup {Absent}
  BY DEF Object
<1>2. QED
  BY <1>1 DEF View, Views

LEMMA DesiredTyped ==
  ASSUME TypeOK, NEW k \in Keys, Wanted(k)
  PROVE  Desired(View(snap))[k] \in Specs
<1>1. Desired(View(snap)) \in [Keys -> Specs \cup {NoSpec}]
  BY ViewTyped, PlanAssumption DEF TypeOK
<1>2. QED
  BY <1>1 DEF Wanted

LEMMA SnapObject ==
  ASSUME TypeOK, PassShape, NEW k \in Keys, phase \in {"inject", "apply"}, snap[k] # Absent
  PROVE  snap[k] \in Object
BY DEF TypeOK, PassShape, Unlisted, Slot

LEMMA LabeledTyped ==
  ASSUME TypeOK, PassShape, NEW k \in Keys, LabelTurn(k)
  PROVE  snap[k] \in Object /\ Labeled(snap[k]) \in Object
<1>1. snap[k] \in Object
  BY SnapObject DEF LabelTurn, NeedsLabels
<1>2. QED
  BY <1>1 DEF Labeled, Object

LEMMA RenderedTyped ==
  ASSUME TypeOK, PassShape, NEW k \in Keys, phase = "apply", Wanted(k)
  PROVE  Rendered(k) \in Object
<1>1. (IF snap[k] = Absent THEN 0 ELSE snap[k].rv) \in Nat
  BY SnapObject DEF Object
<1>2. QED
  BY <1>1, DesiredTyped DEF Rendered, Object

LEMMA AttemptMoves ==
  ASSUME TypeOK, PassShape, NEW k \in Keys, Attempt(k)
  PROVE  ApiMoves
<1>0. ApiTypeOK
  BY DEF TypeOK
<1>1. CASE LabelTurn(k) /\ ApiUpdate(k, Labeled(snap[k]))
  BY <1>0, <1>1, LabeledTyped, UpdateMoves
<1>2. CASE ApplyTurn(k) /\ CreateObject(k)
  <2>1. Rendered(k) \in Object
    BY <1>2, RenderedTyped DEF ApplyTurn, CreateObject, Creates
  <2>2. QED
    BY <1>0, <1>2, <2>1, CreateMoves DEF CreateObject
<1>3. CASE ApplyTurn(k) /\ UpdateObject(k)
  <2>1. Rendered(k) \in Object
    BY <1>3, RenderedTyped DEF ApplyTurn, UpdateObject, Updates
  <2>2. QED
    BY <1>0, <1>3, <2>1, ReplaceMoves DEF UpdateObject
<1>4. CASE ApplyTurn(k) /\ DeleteObject(k)
  BY <1>0, <1>4, DeleteMoves DEF DeleteObject
<1>5. QED
  BY <1>1, <1>2, <1>3, <1>4 DEF Attempt

(* How far one step may move each of the copies of an object.              *)
CopiesMove ==
  /\ ApiMoves
  /\ cache' \in [Keys -> Slot]
  /\ snap' \in [Keys -> Slot \cup {Unread}]
  /\ \A k \in Keys : /\ cache'[k] \in {cache[k], api[k]}
                     /\ snap'[k] \in {snap[k], cache[k], Unread} \/ snap'[k] = api'[k]

LEMMA StepCopies ==
  ASSUME TypeOK, PassShape, [Next]_vars
  PROVE  CopiesMove
<1> USE DEF CopiesMove
<1>0. /\ ApiTypeOK
      /\ cache \in [Keys -> Slot]
      /\ snap \in [Keys -> Slot \cup {Unread}]
      /\ NoPass \in [Keys -> Slot \cup {Unread}]
      /\ \A k \in Keys : NoPass[k] = Unread
  BY DEF TypeOK, ApiTypeOK, NoPass
<1>1. CASE UNCHANGED <<api, rev, cache, snap>>
  BY <1>0, <1>1, StayMoves
<1>2. CASE UNCHANGED <<api, rev, cache>> /\ snap' = NoPass
  BY <1>0, <1>2, StayMoves
<1>3. CASE ListNext
  <2>1. UNCHANGED <<api, rev, cache>>
    BY <1>3 DEF ListNext
  <2>2. PICK k \in Keys :
          snap' = [j \in Keys |-> IF j \in {i \in Keys : i.ns = k.ns /\ i.kind = k.kind}
                                    THEN cache[j] ELSE snap[j]]
    BY <1>3 DEF ListNext
  <2>3. QED
    BY <1>0, <2>1, <2>2, StayMoves
<1>4. ASSUME NEW k \in Keys, InjectLabels(k) PROVE CopiesMove
  <2>1. ApiMoves /\ api'[k] \in Object
    BY <1>0, <1>4, LabeledTyped, UpdateMoves DEF InjectLabels
  <2>2. QED
    BY <1>0, <1>4, <2>1 DEF InjectLabels, Slot
<1>5. ASSUME NEW k \in Keys, ApplyCall(k) PROVE CopiesMove
  <2>1. Attempt(k)
    BY <1>5 DEF ApplyCall, Attempt
  <2>2. QED
    BY <1>0, <1>5, <2>1, AttemptMoves DEF ApplyCall
<1>6. ASSUME NEW k \in Keys, FailCall(k) PROVE CopiesMove
  BY <1>0, <1>6, AttemptMoves, StayMoves DEF FailCall, AbortPass, EndPass
<1>7. CASE Restart
  BY <1>0, <1>7, StayMoves DEF Restart, EndPass, ApiTypeOK
<1>8. ASSUME NEW kd \in Kinds(ListOrder), SyncCache(kd) PROVE CopiesMove
  <2>1. /\ UNCHANGED <<api, rev, snap>>
        /\ cache' = [k \in Keys |-> IF k.kind = kd THEN api[k] ELSE cache[k]]
    BY <1>8 DEF SyncCache, ApiSync, pass
  <2>2. QED
    BY <1>0, <2>1, StayMoves DEF ApiTypeOK
<1>9. ASSUME NEW k \in Keys, CollectGarbage(k) PROVE CopiesMove
  BY <1>0, <1>9, RemoveMoves DEF CollectGarbage, ApiCollect
<1>10. CASE UserWrite
  BY <1>0, <1>10, UserMoves DEF UserWrite, ApiUserWrite
<1>11. CASE BeginPass \/ Resync
  BY <1>1, <1>11 DEF BeginPass, Resync, pass
<1>12. CASE FailList \/ FinishPass \/ \E k \in Keys : RefuseCall(k)
  BY <1>2, <1>12 DEF FailList, FinishPass, RefuseCall, AbortPass, EndPass
<1>13. CASE PlanPass
  BY <1>1, <1>2, <1>13 DEF PlanPass, Requeue, AbortPass, EndPass
<1>14. CASE UNCHANGED vars
  BY <1>1, <1>14 DEF vars, pass
<1>15. QED
  BY <1>3, <1>4, <1>5, <1>6, <1>7, <1>8, <1>9, <1>10, <1>11, <1>12, <1>13, <1>14
     DEF Next, PassStep, Environment, Disturbance

(* Versions keep identifying states, whatever the step.                    *)
LEMMA KeepVersions ==
  ASSUME TypeOK, VersionsIdentify, CopiesMove
  PROVE  VersionsIdentify'
<1> SUFFICES ASSUME NEW k \in Keys
             PROVE  /\ (Exists(k) => api[k].rv <= rev[k])'
                    /\ \A o \in {cache'[k], snap'[k]} \cap Object :
                         /\ o.rv <= rev'[k]
                         /\ Exists(k)' /\ o.rv = api'[k].rv => o = api'[k]
  BY DEF VersionsIdentify
<1>1. /\ api[k] \in Slot /\ rev[k] \in Nat /\ Moves(k)
      /\ cache'[k] \in {cache[k], api[k]}
      /\ snap'[k] \in {snap[k], cache[k], Unread} \/ snap'[k] = api'[k]
  BY DEF TypeOK, ApiTypeOK, CopiesMove, ApiMoves
<1>2. /\ Exists(k) => api[k].rv <= rev[k]
      /\ \A o \in {cache[k], snap[k]} \cap Object :
           o.rv <= rev[k] /\ (Exists(k) /\ o.rv = api[k].rv => o = api[k])
  BY DEF VersionsIdentify
<1>3. Unread \notin Object /\ Absent \notin Object /\ (\A o \in Object : o.rv \in Nat)
  BY UnreadAssumption, AbsentAssumption DEF Slot, Object
<1>4. (Exists(k) => api[k].rv <= rev[k])' /\ rev[k] <= rev'[k]
  BY <1>1, <1>2, <1>3 DEF Moves, Exists, Slot
<1>5. ASSUME NEW o \in {cache[k], snap[k], api[k]} \cap Object
      PROVE  o.rv <= rev'[k] /\ (Exists(k)' /\ o.rv = api'[k].rv => o = api'[k])
  <2>1. o.rv <= rev[k] /\ (Exists(k) /\ o.rv = api[k].rv => o = api[k])
    BY <1>2, <1>3 DEF Exists
  <2>2. QED
    BY <1>1, <1>3, <2>1 DEF Moves, Exists
<1>6. QED
  BY <1>1, <1>3, <1>4, <1>5 DEF Exists

-----------------------------------------------------------------------------
LEMMA KeepType ==
  ASSUME TypeOK, PassShape, [Next]_vars
  PROVE  TypeOK'
<1>0. ApiTypeOK'
  BY StepCopies DEF CopiesMove, ApiMoves, ApiTypeOK
<1>1. snap' \in [Keys -> Slot \cup {Unread}]
  BY StepCopies DEF CopiesMove
<1> USE DEF TypeOK
<1>2. CASE BeginPass
  BY <1>0, <1>1, <1>2 DEF BeginPass
<1>3. CASE ListNext
  <2>1. PICK G \in SUBSET Keys :
          /\ seen' = [j \in FlowKeys |-> IF j \in G THEN cache[j] ELSE seen[j]]
          /\ clean' = (clean /\ \A j \in G : cache[j] = api[j])
    BY <1>3 DEF ListNext
  <2>2. seen' \in [FlowKeys -> Slot]
    BY <2>1 DEF ApiTypeOK, FlowKeys
  <2>3. QED
    BY <1>0, <1>1, <1>3, <2>1, <2>2 DEF ListNext
<1>4. ASSUME NEW k \in Keys, InjectLabels(k) \/ ApplyCall(k) PROVE TypeOK'
  BY <1>0, <1>1, <1>4 DEF InjectLabels, ApplyCall
<1>5. ASSUME EndPass, queue' \subseteq FlowKeys, userOps' \in 0 .. MaxUserOps, faults' \in 0 .. MaxFaults
      PROVE TypeOK'
  BY <1>0, <1>1, <1>5 DEF EndPass
<1>6. CASE FailList \/ Restart \/ \E k \in Keys : FailCall(k)
  <2>1. faults + 1 \in 0 .. MaxFaults
    BY <1>6, BoundsAssumption DEF FailList, Restart, FailCall
  <2>2. {k \in FlowKeys : Exists(k)} \subseteq FlowKeys
    OBVIOUS
  <2>3. QED
    BY <1>5, <1>6, <2>1, <2>2 DEF FailList, Restart, FailCall, AbortPass
<1>7. CASE FinishPass \/ \E k \in Keys : RefuseCall(k)
  BY <1>5, <1>7 DEF FinishPass, RefuseCall, AbortPass
<1>8. CASE PlanPass
  <2>1. CASE EndPass
    BY <1>5, <1>8, <2>1 DEF PlanPass, Requeue, AbortPass, PassShape
  <2>2. CASE phase' = "apply" /\ UNCHANGED <<queue, item, order, snap, done, seen>> /\ clean' \in BOOLEAN
    BY <1>0, <1>1, <1>8, <2>2 DEF PlanPass, Requeue
  <2>3. QED
    BY <1>8, <2>1, <2>2 DEF PlanPass, Requeue, AbortPass
<1>9. CASE Resync \/ \E kd \in Kinds(ListOrder) : SyncCache(kd)
  <2>1. queue' \subseteq FlowKeys /\ UNCHANGED <<pass, userOps, faults>>
    BY <1>9 DEF Resync, SyncCache
  <2>2. QED
    BY <1>0, <1>1, <2>1 DEF pass
<1>10. CASE \E k \in Keys : CollectGarbage(k)
  BY <1>0, <1>1, <1>10 DEF CollectGarbage
<1>11. CASE UserWrite
  <2>1. userOps' \in 0 .. MaxUserOps
    BY <1>11, BoundsAssumption DEF UserWrite
  <2>2. QED
    BY <1>0, <1>1, <1>11, <2>1 DEF UserWrite
<1>12. CASE UNCHANGED vars
  BY <1>0, <1>1, <1>12 DEF vars, pass
<1>13. QED
  BY <1>2, <1>3, <1>4, <1>6, <1>7, <1>8, <1>9, <1>10, <1>11, <1>12
     DEF Next, PassStep, Environment, Disturbance

LEMMA KeepShape ==
  ASSUME TypeOK, PassShape, [Next]_vars
  PROVE  PassShape'
<1> USE DEF PassShape
<1>1. CASE BeginPass
  BY <1>1 DEF BeginPass, TypeOK, Unlisted
<1>2. CASE ListNext
  BY <1>2 DEF ListNext, Unlisted
<1>3. ASSUME NEW k \in Keys, InjectLabels(k) PROVE PassShape'
  <2>1. api'[k] # Unread
    BY <1>3, LabeledTyped, UpdateMoves, UnreadAssumption DEF InjectLabels, TypeOK, Slot
  <2>2. QED
    BY <1>3, <2>1 DEF InjectLabels, LabelTurn, Unlisted, TypeOK
<1>4. ASSUME NEW k \in Keys, ApplyCall(k) PROVE PassShape'
  BY <1>4 DEF ApplyCall, ApplyTurn, Unlisted
<1>5. ASSUME EndPass PROVE PassShape'
  BY <1>5 DEF EndPass
<1>6. CASE FailList \/ Restart \/ FinishPass \/ \E k \in Keys : FailCall(k) \/ RefuseCall(k)
  BY <1>5, <1>6 DEF FailList, Restart, FinishPass, FailCall, RefuseCall, AbortPass
<1>7. CASE PlanPass
  BY <1>5, <1>7 DEF PlanPass, Requeue, AbortPass, Unlisted
<1>8. CASE UNCHANGED <<item, phase, snap, done>>
  BY <1>8 DEF Unlisted
<1>9. CASE Resync \/ UserWrite \/ UNCHANGED vars
           \/ (\E kd \in Kinds(ListOrder) : SyncCache(kd)) \/ (\E k \in Keys : CollectGarbage(k))
  BY <1>8, <1>9 DEF Resync, UserWrite, SyncCache, CollectGarbage, vars, pass
<1>10. QED
  BY <1>1, <1>2, <1>3, <1>4, <1>6, <1>7, <1>9 DEF Next, PassStep, Environment, Disturbance

-----------------------------------------------------------------------------
(* Managed objects stay labeled, in the server and so in every copy.       *)
ApiLabeled ==
  \A k \in Keys : api[k] \in Object /\ api[k].managed => api[k].labeled

LEMMA StoreLabels ==
  ASSUME ApiTypeOK, ApiLabeled, NEW k \in Keys, NEW o \in Object,
         o.managed => o.labeled, Store(k, o)
  PROVE  ApiLabeled'
BY StoreMoves DEF ApiLabeled, ApiTypeOK, Store, Object

LEMMA UpdateLabels ==
  ASSUME ApiTypeOK, ApiLabeled, NEW k \in Keys, NEW o \in Object,
         o.managed => o.labeled, ApiUpdate(k, o)
  PROVE  ApiLabeled'
BY StoreLabels DEF ApiUpdate, ApiLabeled

LEMMA RemoveLabels ==
  ASSUME ApiTypeOK, ApiLabeled, NEW k \in Keys, api' = [api EXCEPT ![k] = Absent]
  PROVE  ApiLabeled'
BY AbsentAssumption DEF ApiLabeled, ApiTypeOK

LEMMA AttemptLabels ==
  ASSUME TypeOK, PassShape, ApiLabeled, NEW k \in Keys, Attempt(k)
  PROVE  ApiLabeled'
<1>0. ApiTypeOK
  BY DEF TypeOK
<1>1. CASE LabelTurn(k) /\ ApiUpdate(k, Labeled(snap[k]))
  <2>1. Labeled(snap[k]) \in Object /\ Labeled(snap[k]).labeled
    BY <1>1, LabeledTyped DEF Labeled, Object
  <2>2. QED
    BY <1>0, <1>1, <2>1, UpdateLabels
<1>2. CASE ApplyTurn(k) /\ (CreateObject(k) \/ UpdateObject(k))
  <2>1. Rendered(k) \in Object /\ Rendered(k).labeled
    <3>1. Rendered(k) \in Object
      BY <1>2, RenderedTyped DEF ApplyTurn, CreateObject, Creates, UpdateObject, Updates
    <3>2. QED
      BY <3>1 DEF Rendered
  <2>2. QED
    BY <1>0, <1>2, <2>1, StoreLabels, UpdateLabels, RemoveLabels
       DEF CreateObject, UpdateObject, ApiCreate, ApiReplace
<1>3. CASE ApplyTurn(k) /\ DeleteObject(k)
  <2>1. api[k] \in Object
    BY <1>0, <1>3, ExistingIsObject DEF DeleteObject, ApiDelete
  <2>2. [api[k] EXCEPT !.deleting = TRUE] \in Object
    BY <2>1 DEF Object
  <2>3. [api[k] EXCEPT !.deleting = TRUE].managed = api[k].managed
        /\ [api[k] EXCEPT !.deleting = TRUE].labeled = api[k].labeled
    BY <2>1 DEF Object
  <2>4. CASE UNCHANGED api
    BY <2>4 DEF ApiLabeled
  <2>5. CASE Store(k, [api[k] EXCEPT !.deleting = TRUE])
    <3>1. api[k].managed => api[k].labeled
      BY <2>1 DEF ApiLabeled
    <3>2. QED
      BY <1>0, <2>2, <2>3, <2>5, <3>1, StoreLabels
  <2>6. QED
    BY <1>3, <2>4, <2>5 DEF DeleteObject, ApiDelete
<1>4. QED
  BY <1>1, <1>2, <1>3 DEF Attempt

LEMMA UserLabels ==
  ASSUME ApiTypeOK, ApiLabeled, ApiUserWrite
  PROVE  ApiLabeled'
<1>1. PICK k \in Keys : \/ \E s \in Specs : ApiUserCreate(k, s) \/ ApiUserEdit(k, s)
                        \/ ApiUserDelete(k)
  BY UserAssumption DEF ApiUserWrite
<1>2. ASSUME NEW s \in Specs, ApiUserCreate(k, s) PROVE ApiLabeled'
  <2>1. UserObject(s) \in Object /\ ~UserObject(s).managed
    BY DEF UserObject, Object
  <2>2. QED
    BY <1>2, <2>1, StoreLabels DEF ApiUserCreate
<1>3. ASSUME NEW s \in Specs, ApiUserEdit(k, s) PROVE ApiLabeled'
  <2>1. api[k] \in Object
    BY <1>3, ExistingIsObject DEF ApiUserEdit
  <2>2. /\ [api[k] EXCEPT !.spec = s] \in Object
        /\ [api[k] EXCEPT !.spec = s].managed = api[k].managed
        /\ [api[k] EXCEPT !.spec = s].labeled = api[k].labeled
    BY <2>1 DEF Object
  <2>3. api[k].managed => api[k].labeled
    BY <2>1 DEF ApiLabeled
  <2>4. QED
    BY <1>3, <2>2, <2>3, StoreLabels DEF ApiUserEdit
<1>4. CASE ApiUserDelete(k)
  BY <1>4, RemoveLabels DEF ApiUserDelete
<1>5. QED
  BY <1>1, <1>2, <1>3, <1>4

LEMMA KeepLabels ==
  ASSUME TypeOK, PassShape, ManagedAreLabeled, [Next]_vars
  PROVE  ManagedAreLabeled'
<1>0. ApiTypeOK /\ ApiLabeled
  BY DEF TypeOK, ManagedAreLabeled, ApiLabeled
<1>1. ApiLabeled'
  <2>1. CASE \E k \in Keys : InjectLabels(k) \/ ApplyCall(k) \/ FailCall(k)
    BY <1>0, <2>1, AttemptLabels DEF InjectLabels, ApplyCall, FailCall, Attempt, ApiLabeled
  <2>2. CASE \E k \in Keys : CollectGarbage(k)
    BY <1>0, <2>2, RemoveLabels DEF CollectGarbage, ApiCollect
  <2>3. CASE UserWrite
    BY <1>0, <2>3, UserLabels DEF UserWrite
  <2>4. CASE UNCHANGED api
    BY <1>0, <2>4 DEF ApiLabeled
  <2>5. CASE \E k \in Keys : RefuseCall(k)
    BY <2>4, <2>5 DEF RefuseCall
  <2>6. CASE \E kd \in Kinds(ListOrder) : SyncCache(kd)
    BY <2>4, <2>6 DEF SyncCache, ApiSync
  <2>7. CASE BeginPass \/ ListNext \/ PlanPass \/ FinishPass \/ FailList \/ Restart \/ Resync
             \/ UNCHANGED vars
    BY <2>4, <2>7 DEF BeginPass, ListNext, PlanPass, Requeue, FinishPass, FailList, Restart, Resync, vars
  <2>8. QED
    BY <2>1, <2>2, <2>3, <2>5, <2>6, <2>7 DEF Next, PassStep, Environment, Disturbance
<1>2. CopiesMove
  BY StepCopies
<1>3. QED
  BY <1>1, <1>2, UnreadAssumption DEF ManagedAreLabeled, ApiLabeled, CopiesMove, Slot

-----------------------------------------------------------------------------
(* No Flow event falls between the queue and the passes.                   *)
LEMMA KeepWakeup ==
  ASSUME TypeOK, PassShape, WakeupPending, [Next]_vars
  PROVE  WakeupPending'
<1> SUFFICES ASSUME faults' = 0, NEW k \in FlowKeys
             PROVE  seen'[k] = cache'[k] \/ k \in queue' \/ (phase' = "list" /\ Unlisted(k)')
  BY DEF WakeupPending
<1>0. k \in Keys /\ faults \in Nat
  BY BoundsAssumption DEF FlowKeys, TypeOK
<1>1. CASE FailList \/ Restart \/ \E j \in Keys : FailCall(j)
  BY <1>0, <1>1 DEF FailList, Restart, FailCall
<1>2. ASSUME faults' = faults
      PROVE  seen[k] = cache[k] \/ k \in queue \/ (phase = "list" /\ Unlisted(k))
  BY <1>2 DEF WakeupPending
<1>3. CASE BeginPass
  <2>1. Unlisted(k)'
    BY <1>0, <1>3 DEF BeginPass, PassShape, NoPass, Unlisted
  <2>2. QED
    BY <1>3, <2>1 DEF BeginPass
<1>4. CASE ListNext
  <2>1. PICK G \in SUBSET Keys :
          /\ snap' = [j \in Keys |-> IF j \in G THEN cache[j] ELSE snap[j]]
          /\ seen' = [j \in FlowKeys |-> IF j \in G THEN cache[j] ELSE seen[j]]
    BY <1>4 DEF ListNext
  <2>2. CASE k \in G
    BY <1>4, <2>1, <2>2 DEF ListNext
  <2>3. CASE k \notin G
    BY <1>0, <1>2, <1>4, <2>1, <2>3 DEF ListNext, Unlisted
  <2>4. QED
    BY <2>2, <2>3
<1>5. CASE PlanPass \/ FinishPass \/ \E j \in Keys : InjectLabels(j) \/ ApplyCall(j) \/ RefuseCall(j)
  <2>1. /\ phase \in {"inject", "apply"}
        /\ queue \subseteq queue' /\ UNCHANGED <<seen, cache, faults>>
    BY <1>5 DEF PlanPass, Requeue, FinishPass, InjectLabels, ApplyCall, RefuseCall, Refused,
                LabelTurn, ApplyTurn, AbortPass, EndPass
  <2>2. QED
    BY <1>2, <2>1
<1>6. CASE \E kd \in Kinds(ListOrder) : SyncCache(kd)
  <2>1. PICK kd \in Kinds(ListOrder) : SyncCache(kd)
    BY <1>6
  <2>2. cache' = [j \in Keys |-> IF j.kind = kd THEN api[j] ELSE cache[j]]
        /\ queue' = queue \cup {j \in FlowKeys : j.kind = kd /\ cache[j] # api[j]}
        /\ UNCHANGED <<pass, faults>>
    BY <2>1 DEF SyncCache, ApiSync
  <2>3. cache'[k] = cache[k] \/ k \in queue'
    BY <1>0, <2>2 DEF TypeOK, ApiTypeOK
  <2>4. QED
    BY <1>2, <2>2, <2>3 DEF pass, Unlisted
<1>7. CASE Resync \/ UserWrite \/ UNCHANGED vars \/ \E j \in Keys : CollectGarbage(j)
  <2>1. queue \subseteq queue' /\ UNCHANGED <<seen, cache, faults, phase, snap>>
    BY <1>7 DEF Resync, UserWrite, ApiUserWrite, CollectGarbage, ApiCollect, vars, pass
  <2>2. QED
    BY <1>2, <2>1 DEF Unlisted
<1>8. QED
  BY <1>1, <1>3, <1>4, <1>5, <1>6, <1>7 DEF Next, PassStep, Environment, Disturbance

-----------------------------------------------------------------------------
(* One apply call of an undisturbed pass brings its key to what is wanted  *)
(* and touches no other.                                                   *)
LEMMA StoreElsewhere ==
  ASSUME ApiTypeOK, NEW k \in Keys, NEW o \in Object, Store(k, o)
  PROVE  /\ \A j \in Keys \ {k} : api'[j] = api[j]
         /\ Exists(k)'
         /\ api'[k].managed = o.managed /\ api'[k].labeled = o.labeled
         /\ api'[k].deleting = o.deleting /\ api'[k].spec = o.spec
<1>1. api' = [api EXCEPT ![k] = [o EXCEPT !.rv = rev[k] + 1]]
  BY DEF Store
<1>2. [o EXCEPT !.rv = rev[k] + 1] \in Object
  BY DEF Object, ApiTypeOK
<1>3. api'[k] = [o EXCEPT !.rv = rev[k] + 1]
  BY <1>1 DEF ApiTypeOK
<1>4. QED
  BY <1>1, <1>2, <1>3, AbsentAssumption DEF Object, ApiTypeOK, Exists

LEMMA CleanCall ==
  ASSUME TypeOK, PassShape, CleanProgress, clean, NEW k \in Keys, ApplyTurn(k),
         CreateObject(k) \/ UpdateObject(k) \/ DeleteObject(k), snap' = snap
  PROVE  Applied(k)' /\ \A j \in Keys \ {k} : api'[j] = api[j]
<1>0. ApiTypeOK
  BY DEF TypeOK
<1>1. phase = "apply" /\ k \in AppliedKeys /\ k \notin done
  BY DEF ApplyTurn, Pending
<1>2. api[k] = snap[k]
  BY <1>1 DEF CleanProgress, PassShape
<1>3. Wanted(k)' = Wanted(k) /\ Desired(View(snap))' = Desired(View(snap))
  BY DEF Wanted
<1>4. CASE Wanted(k)
  <2>1. Rendered(k) \in Object
    BY <1>1, <1>4, RenderedTyped
  <2>2. /\ Rendered(k).managed /\ ~Rendered(k).deleting
        /\ Rendered(k).spec = Desired(View(snap))[k]
    BY DEF Rendered
  <2>3. CASE Store(k, Rendered(k))
    BY <1>0, <1>3, <1>4, <2>1, <2>2, <2>3, StoreElsewhere DEF Applied
  <2>4. CASE UNCHANGED api /\ Rendered(k) = api[k]
    BY <1>3, <1>4, <2>1, <2>2, <2>4, AbsentAssumption DEF Applied, Exists
  <2>5. CASE CreateObject(k)
    BY <2>3, <2>5 DEF CreateObject, ApiCreate
  <2>6. CASE UpdateObject(k)
    <3>1. ~api[k].deleting
      BY <1>1, <1>2, <1>4, <2>6 DEF CleanProgress, UpdateObject, Updates
    <3>2. QED
      BY <2>3, <2>4, <2>6, <3>1 DEF UpdateObject, ApiReplace, ApiUpdate
  <2>7. ~DeleteObject(k)
    BY <1>4 DEF DeleteObject, Deletes
  <2>8. QED
    BY <2>5, <2>6, <2>7
<1>5. CASE ~Wanted(k)
  <2>1. ApiDelete(k)
    BY <1>5 DEF CreateObject, Creates, UpdateObject, Updates, DeleteObject
  <2>2. CASE api[k].deleting
    BY <1>3, <1>5, <2>1, <2>2 DEF ApiDelete, Applied
  <2>3. CASE Store(k, [api[k] EXCEPT !.deleting = TRUE])
    <3>1. api[k] \in Object
      BY <1>0, <2>1, ExistingIsObject DEF ApiDelete
    <3>2. [api[k] EXCEPT !.deleting = TRUE] \in Object /\ [api[k] EXCEPT !.deleting = TRUE].deleting
      BY <3>1 DEF Object
    <3>3. QED
      BY <1>0, <1>3, <1>5, <2>3, <3>2, StoreElsewhere DEF Applied
  <2>4. QED
    BY <2>1, <2>2, <2>3 DEF ApiDelete
<1>6. QED
  BY <1>4, <1>5

LEMMA KeepProgress ==
  ASSUME TypeOK, PassShape, CleanProgress, [Next]_vars
  PROVE  CleanProgress'
<1> SUFFICES ASSUME clean'
             PROVE  /\ phase' # "idle"
                    /\ \A k \in Keys : ~Unlisted(k)' /\ k \notin done' => api'[k] = snap'[k]
                    /\ \A k \in done' : Applied(k)'
                    /\ phase' = "apply" =>
                         \A k \in AppliedKeys :
                           Wanted(k)' /\ Managed(k)' => ~snap'[k].deleting
  BY DEF CleanProgress
<1>0. ApiTypeOK /\ done \subseteq Keys /\ clean \in BOOLEAN
  BY DEF TypeOK
<1>1. ASSUME clean
      PROVE  /\ phase # "idle"
             /\ \A k \in Keys : ~Unlisted(k) /\ k \notin done => api[k] = snap[k]
             /\ \A k \in done : Applied(k)
             /\ phase = "apply" =>
                  \A k \in AppliedKeys : Wanted(k) /\ Managed(k) => ~snap[k].deleting
  BY <1>1 DEF CleanProgress
<1>2. CASE BeginPass
  <2>1. /\ phase' = "list" /\ done' = {}
        /\ \A k \in Keys : Unlisted(k)'
    BY <1>2 DEF BeginPass, PassShape, NoPass, Unlisted
  <2>2. QED
    BY <2>1
<1>3. CASE ListNext
  <2>1. PICK G \in SUBSET Keys :
          /\ snap' = [j \in Keys |-> IF j \in G THEN cache[j] ELSE snap[j]]
          /\ clean' = (clean /\ \A j \in G : cache[j] = api[j])
    BY <1>3 DEF ListNext
  <2>2. done = {} /\ done' = {} /\ api' = api /\ phase' \in {"list", "inject"}
    BY <1>3 DEF ListNext, PassShape
  <2>3. ASSUME NEW k \in Keys, ~Unlisted(k)' PROVE api'[k] = snap'[k]
    BY <1>1, <2>1, <2>2, <2>3 DEF Unlisted
  <2>4. QED
    BY <2>2, <2>3
<1>4. ASSUME NEW k \in Keys, InjectLabels(k) PROVE CleanProgress'
  <2>1. /\ phase = "inject" /\ UNCHANGED <<phase, done, clean>> /\ done = {}
        /\ snap' = [snap EXCEPT ![k] = api'[k]]
    BY <1>4 DEF InjectLabels, LabelTurn, PassShape
  <2>2. \A j \in Keys \ {k} : api'[j] = api[j]
    BY <1>0, <1>4, LabeledTyped, StoreElsewhere DEF InjectLabels, ApiUpdate
  <2>3. QED
    BY <1>1, <2>1, <2>2 DEF CleanProgress, Unlisted, TypeOK
<1>5. CASE PlanPass
  <2>1. /\ phase' = "apply" /\ UNCHANGED <<api, snap, done>> /\ done = {}
        /\ clean
        /\ \A k \in AppliedKeys : Wanted(k) /\ Managed(k) => ~snap[k].deleting
    BY <1>5 DEF PlanPass, Requeue, AbortPass, EndPass, PassShape
  <2>2. QED
    BY <1>1, <2>1 DEF Unlisted, Wanted, Managed
<1>6. ASSUME NEW k \in Keys, ApplyCall(k) PROVE CleanProgress'
  <2>1. /\ clean /\ phase = "apply" /\ k \notin done
        /\ done' = done \cup {k} /\ UNCHANGED <<phase, snap>>
    BY <1>6 DEF ApplyCall, ApplyTurn, Pending
  <2>2. Applied(k)' /\ \A j \in Keys \ {k} : api'[j] = api[j]
    BY <1>6, <2>1, CleanCall DEF ApplyCall
  <2>3. ASSUME NEW j \in done PROVE Applied(j)'
    <3>1. Applied(j) /\ api'[j] = api[j] /\ snap' = snap
      BY <1>0, <1>1, <2>1, <2>2
    <3>2. QED
      BY <3>1 DEF Applied, Wanted, Exists
  <2>4. QED
    BY <1>1, <2>1, <2>2, <2>3 DEF CleanProgress, Unlisted, Wanted, Managed
<1>7. ASSUME NEW k \in Keys, CollectGarbage(k) PROVE CleanProgress'
  <2>1. /\ clean /\ (k \in done \/ Unlisted(k)) /\ UNCHANGED <<phase, snap, done>>
        /\ Exists(k) /\ api[k].deleting /\ api' = [api EXCEPT ![k] = Absent]
    BY <1>7 DEF CollectGarbage, ApiCollect
  <2>2. \A j \in Keys \ {k} : api'[j] = api[j]
    BY <1>0, <2>1 DEF ApiTypeOK
  <2>3. ASSUME NEW j \in done PROVE Applied(j)'
    <3>1. Applied(j) /\ snap' = snap
      BY <1>1, <2>1
    <3>2. CASE j = k
      BY <1>0, <2>1, <3>1, <3>2 DEF Applied, Wanted, Exists, ApiTypeOK
    <3>3. CASE j # k
      BY <1>0, <2>2, <3>1, <3>3 DEF Applied, Wanted, Exists
    <3>4. QED
      BY <3>2, <3>3
  <2>4. QED
    BY <1>1, <2>1, <2>2, <2>3 DEF CleanProgress, Unlisted, Wanted, Managed
<1>8. CASE UNCHANGED <<api, phase, snap, done, clean>>
  BY <1>1, <1>8 DEF Unlisted, Applied, Wanted, Managed, Exists
<1>9. CASE Resync \/ UNCHANGED vars \/ \E kd \in Kinds(ListOrder) : SyncCache(kd)
  BY <1>8, <1>9 DEF Resync, SyncCache, ApiSync, vars, pass
<1>10. CASE UserWrite \/ FailList \/ Restart \/ FinishPass
            \/ \E k \in Keys : RefuseCall(k) \/ FailCall(k)
  BY <1>10 DEF UserWrite, FailList, Restart, FinishPass, RefuseCall, FailCall, AbortPass, EndPass
<1>11. QED
  BY <1>2, <1>3, <1>4, <1>5, <1>6, <1>7, <1>9, <1>10
     DEF Next, PassStep, Environment, Disturbance, CleanProgress

-----------------------------------------------------------------------------
(* While a pass applies, its listing and the order of namespaces stand.    *)
LEMMA PassFrame ==
  ASSUME TypeOK, PassShape, [Next]_vars
  PROVE  \/ phase' # "apply" /\ done' = {}
         \/ PlanPass /\ phase' = "apply" /\ done' = {} /\ UNCHANGED <<order, snap>>
         \/ /\ phase = "apply" /\ UNCHANGED <<phase, order, snap>>
            /\ done' = done \/ \E k \in Keys : ApplyCall(k)
<1> USE DEF PassShape
<1>1. CASE UNCHANGED <<phase, order, snap, done>>
  BY <1>1
<1>2. CASE EndPass
  BY <1>2 DEF EndPass
<1>3. CASE BeginPass \/ ListNext
  BY <1>3 DEF BeginPass, ListNext
<1>4. CASE PlanPass
  BY <1>2, <1>4 DEF PlanPass, Requeue, AbortPass
<1>5. CASE \E k \in Keys : InjectLabels(k) \/ ApplyCall(k)
  BY <1>5 DEF InjectLabels, LabelTurn, ApplyCall, ApplyTurn
<1>6. CASE FailList \/ Restart \/ FinishPass \/ \E k \in Keys : FailCall(k) \/ RefuseCall(k)
  BY <1>2, <1>6 DEF FailList, Restart, FinishPass, FailCall, RefuseCall, AbortPass
<1>7. CASE Resync \/ UserWrite \/ UNCHANGED vars
           \/ (\E kd \in Kinds(ListOrder) : SyncCache(kd)) \/ (\E k \in Keys : CollectGarbage(k))
  BY <1>1, <1>7 DEF Resync, UserWrite, SyncCache, CollectGarbage, vars, pass
<1> QED BY <1>3, <1>4, <1>5, <1>6, <1>7 DEF Next, PassStep, Environment, Disturbance

LEMMA KeepPlan ==
  ASSUME TypeOK, PassShape, PlanHeld, [Next]_vars
  PROVE  PlanHeld'
<1>1. CASE PlanPass /\ phase' = "apply" /\ UNCHANGED snap
  BY <1>1 DEF PlanPass, PlanHeld, AbortPass, Requeue, EndPass
<1> QED BY <1>1, PassFrame DEF PlanHeld

(* What has been handled leaves the turns of all others as they are.       *)
LEMMA KeepTurns ==
  ASSUME TypeOK, PassShape, CallsInTurn, [Next]_vars
  PROVE  CallsInTurn'
<1>1. CASE done' = {}
  BY <1>1 DEF CallsInTurn
<1>2. CASE UNCHANGED <<order, snap, done>>
  BY <1>2 DEF CallsInTurn, Creates, Updates, Deletes, Wanted, Managed, AppliedBefore, Pending
<1>3. ASSUME NEW k \in Keys, ApplyCall(k), UNCHANGED <<order, snap>> PROVE CallsInTurn'
  <2>1. /\ done' = done \cup {k} /\ Pending(k)
        /\ \A j \in Keys : AppliedBefore(j, k) => ~Pending(j)
    BY <1>3 DEF ApplyCall, ApplyTurn
  <2>2. ASSUME NEW i \in done'
        PROVE  /\ i \in AppliedKeys /\ (Creates(i) \/ Updates(i) \/ Deletes(i))
               /\ \A j \in Keys : AppliedBefore(j, i) => ~Pending(j)
    BY <2>1 DEF CallsInTurn, Pending
  <2>3. \A j \in Keys : Pending(j)' => Pending(j)
    BY <1>3, <2>1 DEF Pending, Creates, Updates, Deletes, Wanted, Managed
  <2> QED BY <1>3, <2>2, <2>3
         DEF CallsInTurn, Creates, Updates, Deletes, Wanted, Managed, AppliedBefore
<1> QED BY <1>1, <1>2, <1>3, PassFrame

(* Deleting an object leaves it as it was but for the mark.                *)
LEMMA CleanDelete ==
  ASSUME TypeOK, NEW k \in Keys, ApiDelete(k)
  PROVE  /\ Exists(k)' /\ api'[k].deleting
         /\ api'[k].managed = api[k].managed /\ api'[k].spec = api[k].spec
<1>1. ApiTypeOK /\ api[k] \in Object
  BY ExistingIsObject DEF TypeOK, ApiDelete
<1>2. CASE Store(k, [api[k] EXCEPT !.deleting = TRUE])
  <2>1. /\ [api[k] EXCEPT !.deleting = TRUE] \in Object
        /\ [api[k] EXCEPT !.deleting = TRUE].deleting
        /\ [api[k] EXCEPT !.deleting = TRUE].spec = api[k].spec
        /\ [api[k] EXCEPT !.deleting = TRUE].managed = api[k].managed
    BY <1>1 DEF Object
  <2> QED BY <1>1, <1>2, <2>1, StoreElsewhere
<1>3. CASE UNCHANGED api /\ api[k].deleting
  BY <1>3 DEF ApiDelete, Exists
<1> QED BY <1>2, <1>3 DEF ApiDelete

LEMMA KeepMarks ==
  ASSUME TypeOK, PassShape, CleanProgress, MarksKept, [Next]_vars
  PROVE  MarksKept'
<1> SUFFICES ASSUME clean', NEW k \in done', ~Wanted(k)', Exists(k)'
             PROVE  /\ api'[k].deleting
                    /\ api'[k].managed = snap'[k].managed /\ api'[k].spec = snap'[k].spec
  BY DEF MarksKept
<1>1. /\ phase = "apply" /\ UNCHANGED <<phase, order, snap>>
      /\ done' = done \/ \E j \in Keys : ApplyCall(j)
  BY PassFrame
<1>2. ~Wanted(k) /\ done \subseteq Keys /\ ApiTypeOK
  BY <1>1 DEF Wanted, TypeOK
<1>3. ASSUME clean, k \in done, api'[k] = api[k]
      PROVE  /\ api'[k].deleting
             /\ api'[k].managed = snap'[k].managed /\ api'[k].spec = snap'[k].spec
  BY <1>1, <1>2, <1>3 DEF MarksKept, Exists
<1>4. ASSUME NEW j \in Keys, ApplyCall(j)
      PROVE  /\ api'[k].deleting
             /\ api'[k].managed = snap'[k].managed /\ api'[k].spec = snap'[k].spec
  <2>1. /\ ApplyTurn(j) /\ done' = done \cup {j} /\ clean
        /\ CreateObject(j) \/ UpdateObject(j) \/ DeleteObject(j)
    BY <1>4 DEF ApplyCall
  <2>2. Applied(j)' /\ \A i \in Keys \ {j} : api'[i] = api[i]
    BY <1>1, <2>1, CleanCall
  <2>3. CASE k # j
    BY <1>2, <1>3, <2>1, <2>2, <2>3
  <2>4. CASE k = j
    <3>1. ApiDelete(k) /\ api[k] = snap[k]
      <4>1. ApiDelete(k)
        BY <1>2, <2>1, <2>4
           DEF CreateObject, Creates, UpdateObject, Updates, DeleteObject
      <4>2. k \notin done
        BY <2>1, <2>4 DEF ApplyTurn, Pending
      <4> QED BY <1>1, <2>1, <2>4, <4>1, <4>2 DEF CleanProgress, PassShape
    <3> QED BY <1>1, <2>4, <3>1, CleanDelete
  <2> QED BY <2>3, <2>4
<1>5. ASSUME NEW j \in Keys, CollectGarbage(j)
      PROVE  /\ api'[k].deleting
             /\ api'[k].managed = snap'[k].managed /\ api'[k].spec = snap'[k].spec
  <2>1. clean /\ done' = done /\ api' = [api EXCEPT ![j] = Absent]
    BY <1>5 DEF CollectGarbage, ApiCollect
  <2>2. k # j
    BY <1>2, <2>1 DEF ApiTypeOK, Exists
  <2> QED BY <1>2, <1>3, <2>1, <2>2 DEF ApiTypeOK
<1>6. CASE UNCHANGED <<api, clean, done>>
  BY <1>3, <1>6
<1>7. CASE Resync \/ UNCHANGED vars \/ \E kd \in Kinds(ListOrder) : SyncCache(kd)
  BY <1>6, <1>7 DEF Resync, SyncCache, ApiSync, vars, pass
<1>8. CASE UserWrite \/ FailList \/ Restart \/ FinishPass \/ BeginPass \/ ListNext \/ PlanPass
           \/ \E j \in Keys : RefuseCall(j) \/ FailCall(j) \/ InjectLabels(j)
  BY <1>1, <1>8 DEF UserWrite, FailList, Restart, FinishPass, BeginPass, ListNext, PlanPass,
                    RefuseCall, FailCall, InjectLabels, LabelTurn, AbortPass, EndPass
<1> QED BY <1>4, <1>5, <1>7, <1>8 DEF Next, PassStep, Environment, Disturbance

-----------------------------------------------------------------------------
(* IInv is inductive.                                                      *)
LEMMA InitIInv ==
  ASSUME Init PROVE IInv
<1>1. ASSUME NEW k \in Keys, InitSpec[k] # NoSpec
      PROVE  UserObject(InitSpec[k]) \in Object /\ UserObject(InitSpec[k]).rv = 0
             /\ ~UserObject(InitSpec[k]).managed
  BY <1>1, InitAssumption DEF UserObject, Object
<1>2. \A k \in Keys : api[k] = Absent \/ (api[k] \in Object /\ api[k].rv = 0 /\ ~api[k].managed)
  BY <1>1 DEF Init, ApiInit
<1>3. api \in [Keys -> Slot] /\ cache = api /\ rev = [k \in Keys |-> 0]
  BY <1>1 DEF Init, ApiInit, Slot
<1>4. snap = NoPass /\ NoPass = [k \in Keys |-> Unread] /\ Unread \notin Object
  BY UnreadAssumption DEF Init, NoPass, Slot
<1>5. TypeOK
  <2>1. ApiTypeOK
    BY <1>3 DEF ApiTypeOK
  <2>2. snap \in [Keys -> Slot \cup {Unread}]
    BY <1>4
  <2>3. seen \in [FlowKeys -> Slot]
    BY DEF Init, Slot
  <2>4. userOps \in 0 .. MaxUserOps /\ faults \in 0 .. MaxFaults
    BY BoundsAssumption DEF Init
  <2>5. QED
    BY <2>1, <2>2, <2>3, <2>4 DEF Init, TypeOK
<1>6. VersionsIdentify
  <2>1. ASSUME NEW k \in Keys, api[k] \in Object PROVE api[k].rv <= rev[k]
    BY <1>2, <1>3, <2>1, AbsentAssumption
  <2>2. QED
    BY <1>2, <1>3, <1>4, <2>1, AbsentAssumption DEF VersionsIdentify, Exists
<1>7. PassShape /\ CleanProgress
  BY DEF Init, PassShape, CleanProgress
<1>8. ManagedAreLabeled
  BY <1>2, <1>3, <1>4, AbsentAssumption DEF ManagedAreLabeled
<1>9. WakeupPending
  BY <1>3 DEF Init, WakeupPending, FlowKeys, Exists
<1>10. PlanHeld /\ CallsInTurn /\ MarksKept
  BY DEF Init, PlanHeld, CallsInTurn, MarksKept
<1>11. QED
  BY <1>5, <1>6, <1>7, <1>8, <1>9, <1>10 DEF IInv

LEMMA NextIInv ==
  ASSUME IInv, [Next]_vars PROVE IInv'
BY KeepType, StepCopies, KeepVersions, KeepShape, KeepLabels, KeepProgress, KeepWakeup,
   KeepPlan, KeepTurns, KeepMarks DEF IInv

(* The inductive invariant holds in every reachable state, for every       *)
(* cluster, plan and bound; it contains the type invariant.                *)
THEOREM Invariance == Spec => []IInv
<1>1. IInv /\ [Next]_vars => IInv'
  BY NextIInv
<1>2. QED
  BY <1>1, InitIInv, PTL DEF Spec

(* Every variable keeps its type.                                          *)
THEOREM TypeCorrect == Spec => []TypeOK
<1>1. IInv => TypeOK
  BY DEF IInv
<1>2. QED
  BY <1>1, Invariance, PTL

(* A resourceVersion identifies one state of an object in every copy.      *)
THEOREM VersionsCorrect == Spec => []VersionsIdentify
<1>1. IInv => VersionsIdentify
  BY DEF IInv
<1>2. QED
  BY <1>1, Invariance, PTL

(* An undisturbed pass leaves the cluster as its plan wants it.            *)
THEOREM CleanPassCorrect == Spec => []CleanPassConverges
<1>1. IInv => CleanPassConverges
  <2> SUFFICES ASSUME IInv, phase = "apply", clean, \A k \in Keys : ~Pending(k),
                      NEW k \in AppliedKeys
               PROVE  IF Desired(View(snap))[k] = NoSpec
                        THEN Exists(k) => ~api[k].managed \/ api[k].deleting
                        ELSE /\ Exists(k)
                             /\ api[k].managed => api[k].spec = Desired(View(snap))[k]
                                                   /\ ~api[k].deleting
    BY DEF CleanPassConverges, Matches
  <2>1. k \in Keys /\ ~Pending(k)
    BY DEF AppliedKeys
  <2>2. CASE k \in done
    BY <2>2 DEF IInv, CleanProgress, Applied, Wanted
  <2>3. CASE k \notin done
    <3>1. api[k] = snap[k]
      BY <2>1, <2>3 DEF IInv, CleanProgress, PassShape
    <3>2. ~Creates(k) /\ ~Updates(k) /\ ~Deletes(k)
      BY <2>1, <2>3 DEF Pending
    <3>3. Wanted(k) /\ Managed(k) => ~snap[k].deleting
      BY DEF IInv, CleanProgress
    <3>4. QED
      BY <3>1, <3>2, <3>3 DEF Creates, Updates, Deletes, Wanted, Managed, Exists
  <2>4. QED
    BY <2>2, <2>3
<1>2. QED
  BY <1>1, Invariance, PTL

(* Nothing an undisturbed pass does gets one of its calls refused.         *)
LEMMA NotRefused ==
  ASSUME IInv, clean, NEW k \in Keys
  PROVE  ~Refused(k)
<1>1. TypeOK /\ PassShape
  BY DEF IInv
<1>2. ASSUME LabelTurn(k) \/ ApplyTurn(k) PROVE api[k] = snap[k]
  <2>1. ~Unlisted(k) /\ k \notin done
    BY <1>1, <1>2 DEF PassShape, LabelTurn, ApplyTurn, Pending
  <2> QED BY <2>1 DEF IInv, CleanProgress
<1>3. ~(LabelTurn(k) /\ ~Fresh(k, snap[k]))
  BY <1>2 DEF LabelTurn, NeedsLabels, Fresh, Exists
<1>4. ~(ApplyTurn(k) /\ Creates(k) /\ Exists(k))
  BY <1>2 DEF Creates, Exists
<1>5. ~(ApplyTurn(k) /\ Updates(k) /\ ~Fresh(k, snap[k]))
  BY <1>2 DEF Updates, Managed, Fresh, Exists
<1>6. ~(ApplyTurn(k) /\ Deletes(k) /\ ~Exists(k))
  BY <1>2 DEF Deletes, Managed, Exists
<1> QED BY <1>3, <1>4, <1>5, <1>6 DEF Refused

(* In an undisturbed pass the server refuses no call.                      *)
THEOREM NotRefusedCorrect == Spec => []UndisturbedNotRefused
<1>1. IInv => UndisturbedNotRefused
  BY NotRefused DEF UndisturbedNotRefused
<1> QED BY <1>1, Invariance, PTL

(* Without failures no Flow event is lost between queue and passes.        *)
THEOREM WakeupCorrect == Spec => []NoLostWakeup
<1>1. IInv => NoLostWakeup
  BY DEF IInv, WakeupPending, NoLostWakeup
<1>2. QED
  BY <1>1, Invariance, PTL

-----------------------------------------------------------------------------
(* The steps that change the server's objects, and how.                    *)
LEMMA WritingSteps ==
  ASSUME TypeOK, PassShape, Next, userOps' = userOps
  PROVE  \/ UNCHANGED api
         \/ \E k \in Keys : Attempt(k)
         \/ \E k \in Keys : Exists(k) /\ api[k].deleting /\ api' = [api EXCEPT ![k] = Absent]
<1>1. CASE UserWrite
  BY <1>1 DEF UserWrite, TypeOK
<1>2. CASE \E k \in Keys : InjectLabels(k) \/ ApplyCall(k) \/ FailCall(k)
  BY <1>2 DEF InjectLabels, ApplyCall, FailCall, Attempt
<1>3. CASE \E k \in Keys : CollectGarbage(k)
  BY <1>3 DEF CollectGarbage, ApiCollect
<1>4. CASE \E k \in Keys : RefuseCall(k)
  BY <1>4 DEF RefuseCall
<1>5. CASE \E kd \in Kinds(ListOrder) : SyncCache(kd)
  BY <1>5 DEF SyncCache, ApiSync
<1>6. CASE BeginPass \/ ListNext \/ PlanPass \/ FinishPass \/ FailList \/ Restart \/ Resync
  BY <1>6 DEF BeginPass, ListNext, PlanPass, Requeue, FinishPass, FailList, Restart, Resync
<1>7. QED
  BY <1>1, <1>2, <1>3, <1>4, <1>5, <1>6 DEF Next, PassStep, Environment, Disturbance

(* An accepted Update found the very object the pass had listed.           *)
LEMMA FreshIsListed ==
  ASSUME VersionsIdentify, NEW k \in Keys, snap[k] \in Object, Fresh(k, snap[k])
  PROVE  api[k] = snap[k]
BY DEF VersionsIdentify, Fresh

(* Everything an attempted call can do to the objects of the cluster.      *)
AttemptEffect(k) ==
  /\ \A j \in Keys \ {k} : api'[j] = api[j]
  /\ \/ api'[k] = api[k]
     \/ ~Exists(k)                                                  \* created
     \/ api[k] = snap[k] /\ Exists(k)' /\ api'[k].spec = api[k].spec
        /\ api'[k].managed = api[k].managed /\ phase = "inject"     \* labeled
     \/ api[k] = snap[k] /\ api[k].managed                          \* updated
     \/ Exists(k)' /\ api'[k].deleting /\ api'[k].spec = api[k].spec
        /\ api'[k].managed = api[k].managed                         \* marked

LEMMA AttemptEffects ==
  ASSUME TypeOK, PassShape, VersionsIdentify, NEW k \in Keys, Attempt(k)
  PROVE  AttemptEffect(k)
<1>0. ApiTypeOK
  BY DEF TypeOK
<1>1. CASE LabelTurn(k) /\ ApiUpdate(k, Labeled(snap[k]))
  <2>1. snap[k] \in Object /\ Labeled(snap[k]) \in Object
    BY <1>1, LabeledTyped
  <2>2. /\ Labeled(snap[k]).rv = snap[k].rv /\ Labeled(snap[k]).spec = snap[k].spec
        /\ Labeled(snap[k]).managed = snap[k].managed
    BY <2>1 DEF Labeled, Object
  <2>3. api[k] = snap[k]
    BY <1>1, <2>1, <2>2, FreshIsListed DEF ApiUpdate, Fresh
  <2>4. CASE UNCHANGED api
    BY <2>4 DEF AttemptEffect
  <2>5. CASE Store(k, Labeled(snap[k]))
    BY <1>0, <1>1, <2>1, <2>2, <2>3, <2>5, StoreElsewhere DEF AttemptEffect, LabelTurn
  <2>6. QED
    BY <1>1, <2>4, <2>5 DEF ApiUpdate
<1>2. CASE ApplyTurn(k) /\ CreateObject(k)
  <2>1. Rendered(k) \in Object
    BY <1>2, RenderedTyped DEF ApplyTurn, CreateObject, Creates
  <2>2. QED
    BY <1>0, <1>2, <2>1, StoreElsewhere DEF CreateObject, ApiCreate, AttemptEffect
<1>3. CASE ApplyTurn(k) /\ UpdateObject(k)
  <2>1. Rendered(k) \in Object /\ snap[k] \in Object /\ Managed(k)
    BY <1>3, RenderedTyped, SnapObject DEF ApplyTurn, UpdateObject, Updates, Managed
  <2>2. Rendered(k).rv = snap[k].rv
    BY <2>1, AbsentAssumption DEF Rendered
  <2>3. api[k] = snap[k]
    BY <1>3, <2>1, <2>2, FreshIsListed DEF UpdateObject, ApiReplace, Fresh
  <2>4. \A j \in Keys \ {k} : api'[j] = api[j]
    BY <1>0, <1>3, <2>1, StoreElsewhere DEF UpdateObject, ApiReplace, ApiUpdate, ApiTypeOK
  <2>5. QED
    BY <2>1, <2>3, <2>4 DEF AttemptEffect, Managed
<1>4. CASE ApplyTurn(k) /\ DeleteObject(k)
  <2>1. api[k] \in Object
    BY <1>0, <1>4, ExistingIsObject DEF DeleteObject, ApiDelete
  <2>2. /\ [api[k] EXCEPT !.deleting = TRUE] \in Object
        /\ [api[k] EXCEPT !.deleting = TRUE].deleting
        /\ [api[k] EXCEPT !.deleting = TRUE].spec = api[k].spec
        /\ [api[k] EXCEPT !.deleting = TRUE].managed = api[k].managed
    BY <2>1 DEF Object
  <2>3. CASE UNCHANGED api
    BY <2>3 DEF AttemptEffect
  <2>4. CASE Store(k, [api[k] EXCEPT !.deleting = TRUE])
    BY <1>0, <2>2, <2>4, StoreElsewhere DEF AttemptEffect
  <2>5. QED
    BY <1>4, <2>3, <2>4 DEF DeleteObject, ApiDelete
<1>5. QED
  BY <1>1, <1>2, <1>3, <1>4 DEF Attempt

(* No concurrent edit is overwritten, whatever the cache served.           *)
THEOREM NoLostUpdate == Spec => ReadBeforeOverwrite
<1> DEFINE A == \A k \in Keys :
       userOps' = userOps /\ Exists(k) /\ Exists(k)' /\ api'[k] # api[k]
         => snap[k] = api[k] \/ api'[k].deleting
<1>1. IInv /\ [Next]_vars => [A]_vars
  <2> SUFFICES ASSUME IInv, Next, NEW k \in Keys,
                      userOps' = userOps, Exists(k), Exists(k)', api'[k] # api[k]
               PROVE  snap[k] = api[k] \/ api'[k].deleting
    OBVIOUS
  <2>1. CASE \E j \in Keys : Attempt(j)
    BY <2>1, AttemptEffects DEF IInv, AttemptEffect
  <2>2. CASE \E j \in Keys : api' = [api EXCEPT ![j] = Absent]
    BY <2>2 DEF IInv, TypeOK, ApiTypeOK, Exists
  <2>3. QED
    BY <2>1, <2>2, WritingSteps DEF IInv
<1>2. QED
  BY <1>1, Invariance, PTL DEF Spec, ReadBeforeOverwrite

(* The operator never changes the contents of what it does not manage.     *)
THEOREM UserSpecsCorrect == Spec => UserSpecsKept
<1> DEFINE A == \A k \in Keys :
       userOps' = userOps /\ Exists(k) /\ Exists(k)' /\ ~api[k].managed
         => api'[k].spec = api[k].spec /\ ~api'[k].managed
<1>1. IInv /\ [Next]_vars => [A]_vars
  <2> SUFFICES ASSUME IInv, Next, NEW k \in Keys,
                      userOps' = userOps, Exists(k), Exists(k)', ~api[k].managed
               PROVE  api'[k].spec = api[k].spec /\ ~api'[k].managed
    OBVIOUS
  <2>1. CASE \E j \in Keys : Attempt(j)
    BY <2>1, AttemptEffects DEF IInv, AttemptEffect
  <2>2. CASE \E j \in Keys : api' = [api EXCEPT ![j] = Absent]
    BY <2>2 DEF IInv, TypeOK, ApiTypeOK, Exists
  <2>3. QED
    BY <2>1, <2>2, WritingSteps DEF IInv
<1>2. QED
  BY <1>1, Invariance, PTL DEF Spec, UserSpecsKept

(* A pass that finds the cluster as it should be changes nothing.          *)
LEMMA MatchedCall ==
  ASSUME IInv, phase = "apply", clean, Matches(Desired(View(snap))),
         NEW k \in Keys, Attempt(k)
  PROVE  UNCHANGED api
<1>1. ApplyTurn(k) /\ (CreateObject(k) \/ UpdateObject(k) \/ DeleteObject(k))
  BY DEF Attempt, LabelTurn
<1>2. k \in AppliedKeys /\ k \notin done /\ TypeOK /\ PassShape
  BY <1>1 DEF ApplyTurn, Pending, IInv
<1>3. api[k] = snap[k]
  BY <1>2 DEF IInv, CleanProgress, PassShape
<1>4. IF Desired(View(snap))[k] = NoSpec
        THEN Exists(k) => ~api[k].managed \/ api[k].deleting
        ELSE Exists(k) /\ (api[k].managed => api[k].spec = Desired(View(snap))[k]
                                              /\ ~api[k].deleting)
  BY <1>2 DEF Matches
<1>5. ~CreateObject(k)
  BY <1>3, <1>4 DEF CreateObject, Creates, Wanted, Exists
<1>6. CASE UpdateObject(k)
  <2>1. Wanted(k) /\ Managed(k)
    BY <1>6 DEF UpdateObject, Updates
  <2>2. api[k] \in Object /\ api[k].managed /\ ~api[k].deleting /\ api[k].labeled
        /\ api[k].spec = Desired(View(snap))[k]
    BY <1>2, <1>3, <1>4, <2>1, ExistingIsObject
       DEF Wanted, Managed, IInv, ManagedAreLabeled, TypeOK
  <2>3. Rendered(k) = api[k]
    <3>1. snap[k] # Absent
      BY <2>1 DEF Managed
    <3>2. Rendered(k) = [managed |-> TRUE, labeled |-> TRUE, deleting |-> FALSE,
                         spec |-> api[k].spec, rv |-> api[k].rv]
      BY <1>3, <2>2, <3>1 DEF Rendered
    <3>3. QED
      BY <2>2, <3>2 DEF Object
  <2>4. QED
    BY <1>6, <2>2, <2>3 DEF UpdateObject, ApiReplace, ApiUpdate
<1>7. CASE DeleteObject(k)
  BY <1>3, <1>4, <1>7 DEF DeleteObject, Deletes, Wanted, Managed, ApiDelete
<1>8. QED
  BY <1>1, <1>5, <1>6, <1>7

THEOREM IdempotentPassCorrect == Spec => IdempotentPass
<1> DEFINE A == phase = "apply" /\ clean /\ userOps' = userOps /\ Matches(Desired(View(snap)))
                  => \A k \in Keys : api'[k] = api[k] \/ ~Exists(k)'
<1>1. IInv /\ [Next]_vars => [A]_vars
  <2> SUFFICES ASSUME IInv, Next, phase = "apply", clean, userOps' = userOps,
                      Matches(Desired(View(snap))), NEW k \in Keys
               PROVE  api'[k] = api[k] \/ ~Exists(k)'
    OBVIOUS
  <2>1. CASE \E j \in Keys : Attempt(j)
    BY <2>1, MatchedCall
  <2>2. CASE \E j \in Keys : api' = [api EXCEPT ![j] = Absent]
    BY <2>2 DEF IInv, TypeOK, ApiTypeOK, Exists
  <2>3. QED
    BY <2>1, <2>2, WritingSteps DEF IInv
<1>2. QED
  BY <1>1, Invariance, PTL DEF Spec, IdempotentPass

(* An undisturbed pass writes no route before the workloads it wants.      *)
LEMMA WorkloadsFirst ==
  ASSUME NEW d \in AppliedKeys, NEW k \in AppliedKeys,
         d.kind \in WorkloadKinds, k.kind \notin WorkloadKinds
  PROVE  AppliedBefore(d, k)
<1>1. \A x \in Kinds(ApplyOrder) :
        \/ x = "Service" /\ ApplyOrder[1] = x
        \/ x = "Deployment" /\ ApplyOrder[2] = x
        \/ \E n \in 3 .. 6 : ApplyOrder[n] = x
  BY DEF Kinds, ApplyOrder
<1>2. PICK m \in {1, 2} : ApplyOrder[m] = d.kind
  BY <1>1 DEF AppliedKeys, WorkloadKinds, ApplyOrder
<1>3. PICK n \in 3 .. 6 : ApplyOrder[n] = k.kind
  BY <1>1 DEF AppliedKeys, WorkloadKinds
<1>4. DOMAIN ApplyOrder = 1 .. 6
  BY DEF ApplyOrder
<1>5. QED
  BY <1>2, <1>3, <1>4 DEF AppliedBefore, Before

THEOREM WorkloadsBeforeRoutesCorrect == Spec => WorkloadsBeforeRoutes
<1> DEFINE A == \A k \in done' \ done :
       clean /\ k.kind \notin WorkloadKinds /\ Wanted(k)
         => \A d \in AppliedKeys : d.kind \in WorkloadKinds /\ Wanted(d) => Exists(d)
<1>1. IInv /\ [Next]_vars => [A]_vars
  <2> SUFFICES ASSUME IInv, Next, NEW k \in done' \ done, clean,
                      k.kind \notin WorkloadKinds, Wanted(k),
                      NEW d \in AppliedKeys, d.kind \in WorkloadKinds, Wanted(d)
               PROVE  Exists(d)
    OBVIOUS
  <2>1. ApplyTurn(k) /\ k \in Keys
    <3>1. CASE \E j \in Keys : ApplyCall(j)
      BY <3>1 DEF ApplyCall
    <3>2. CASE done' \subseteq done
      BY <3>2
    <3>3. CASE BeginPass \/ ListNext \/ PlanPass \/ FinishPass \/ FailList \/ Restart
               \/ Resync \/ UserWrite
      BY <3>2, <3>3 DEF BeginPass, ListNext, PlanPass, Requeue, FinishPass, FailList, Restart, Resync,
                        UserWrite, AbortPass, EndPass, pass
    <3>4. CASE \E j \in Keys : InjectLabels(j) \/ RefuseCall(j) \/ FailCall(j) \/ CollectGarbage(j)
      BY <3>2, <3>4 DEF InjectLabels, RefuseCall, FailCall, CollectGarbage, AbortPass, EndPass
    <3>5. CASE \E kd \in Kinds(ListOrder) : SyncCache(kd)
      BY <3>2, <3>5 DEF SyncCache, pass
    <3>6. QED
      BY <3>1, <3>3, <3>4, <3>5 DEF Next, PassStep, Environment, Disturbance
  <2>2. d \in Keys /\ phase = "apply" /\ ~Pending(d)
    BY <2>1, WorkloadsFirst DEF ApplyTurn, Pending, AppliedKeys
  <2>3. CASE d \in done
    BY <2>3 DEF IInv, CleanProgress, Applied
  <2>4. CASE d \notin done
    <3>1. api[d] = snap[d] /\ ~Creates(d)
      BY <2>2, <2>4 DEF IInv, CleanProgress, PassShape, Pending
    <3>2. QED
      BY <3>1 DEF Creates, Exists
  <2>5. QED
    BY <2>3, <2>4
<1>2. QED
  BY <1>1, Invariance, PTL DEF Spec, WorkloadsBeforeRoutes

(* Whatever an undisturbed pass has done so far, a route that leads to a   *)
(* workload that is gone still has its turn, or the workload has, because  *)
(* plans are closed under routing.                                         *)
THEOREM DanglingRoutesCorrect == Spec => []DanglingRoutesPending
<1>1. ASSUME IInv PROVE DanglingRoutesPending
  <2>1. SUFFICES ASSUME phase = "apply", clean, NEW k \in AppliedKeys, Exists(k),
                        api[k].managed, ~api[k].deleting, ~Pending(k),
                        NEW d \in Refers(k, api[k].spec), Gone(d)
                 PROVE  Pending(d)
    BY DEF DanglingRoutesPending
  <2>2. k \in Keys /\ View(snap) \in Views /\ api[k].spec \in Specs
    <3>1. ApiTypeOK /\ snap \in [Keys -> Slot \cup {Unread}]
      BY <1>1 DEF IInv, TypeOK
    <3>2. k \in Keys
      BY DEF AppliedKeys
    <3>3. api[k] \in Object
      BY <2>1, <3>1, <3>2, ExistingIsObject
    <3> QED BY <3>1, <3>2, <3>3, ViewTyped DEF Object
  <2>3. d \in AppliedKeys /\ d \in Keys
    BY <2>1, <2>2, RoutesAssumption DEF AppliedKeys
  <2>4. /\ \A j \in Keys : j \notin done => api[j] = snap[j]
        /\ \A j \in done : Applied(j)
        /\ \A j \in AppliedKeys : Wanted(j) /\ Managed(j) => ~snap[j].deleting
    BY <1>1, <2>1 DEF IInv, CleanProgress, PassShape
  <2>5. Wanted(k) /\ api[k].spec = Desired(View(snap))[k]
    <3>1. CASE k \in done
      BY <2>1, <2>4, <3>1 DEF Applied
    <3>2. CASE k \notin done
      <4>1. Managed(k) /\ snap[k] = api[k]
        BY <2>1, <2>2, <2>4, <3>2 DEF Managed, Exists
      <4>2. ~Updates(k) /\ ~Deletes(k)
        BY <2>1, <3>2 DEF Pending
      <4> QED BY <4>1, <4>2 DEF Updates, Deletes
    <3> QED BY <3>1, <3>2
  <2>6. Wanted(d)
    BY <2>1, <2>2, <2>5, RoutesAssumption DEF Wanted
  <2>7. CASE d \in done
    BY <2>1, <2>4, <2>6, <2>7 DEF Applied, Gone
  <2>8. CASE d \notin done
    <3>1. ~Exists(d)
      BY <2>1, <2>3, <2>4, <2>6, <2>8 DEF Gone, Managed, Exists
    <3>2. Creates(d)
      BY <2>3, <2>4, <2>6, <2>8, <3>1 DEF Creates, Exists
    <3> QED BY <2>3, <2>8, <3>2 DEF Pending
  <2> QED BY <2>7, <2>8
<1> QED BY <1>1, Invariance, PTL
=============================================================================
