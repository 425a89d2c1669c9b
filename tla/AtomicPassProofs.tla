-------------------------- MODULE AtomicPassProofs --------------------------
(***************************************************************************)
(* Operator implements AtomicPass: however many calls, resourceVersions    *)
(* and caches there are, a pass that nothing disturbs is one write of its  *)
(* plan.  While such a pass applies, the atomic write has not happened     *)
(* yet; it happens when the pass ends, or happens in part when a failure   *)
(* or another writer comes between.                                        *)
(***************************************************************************)
EXTENDS OperatorProofs

(* What the mapping keeps of an object.                                    *)
LEMMA ContentTyped ==
  ASSUME NEW o \in Slot
  PROVE  /\ ContentOf(o) \in Promise!Slot
         /\ ContentOf(o) = Absent <=> o = Absent
         /\ o # Absent => /\ ContentOf(o) \in Content
                          /\ ContentOf(o).managed = o.managed
                          /\ ContentOf(o).deleting = o.deleting
                          /\ ContentOf(o).spec = o.spec
<1>1. CASE o = Absent
  BY <1>1 DEF ContentOf, Promise!Slot
<1>2. CASE o # Absent
  <2>1. o \in Object
    BY <1>2 DEF Slot
  <2>2. ContentOf(o) = [managed |-> o.managed, deleting |-> o.deleting, spec |-> o.spec]
    BY <1>2 DEF ContentOf
  <2>3. ContentOf(o) \in Content
    BY <2>1, <2>2 DEF Object, Content
  <2> QED BY <1>2, <2>2, <2>3, ContentAssumption DEF Promise!Slot, Promise!Content, Content
<1> QED BY <1>1, <1>2

LEMMA ContentsTyped ==
  ASSUME NEW objects \in [Keys -> Slot]
  PROVE  Contents(objects) \in [Keys -> Promise!Slot]
BY ContentTyped DEF Contents

(* A view of the contents is the view of the objects.                      *)
LEMMA ViewOfContent ==
  ASSUME NEW objects, NEW k \in Keys, objects[k] \in Slot
  PROVE  View(objects)[k] = IF ContentOf(objects[k]) = Absent
                              THEN Absent
                              ELSE [managed |-> ContentOf(objects[k]).managed,
                                    spec |-> ContentOf(objects[k]).spec]
<1>1. CASE objects[k] = Absent
  BY <1>1, AbsentAssumption DEF View, ContentOf
<1>2. CASE objects[k] # Absent
  BY <1>2, ContentTyped DEF View, Slot
<1> QED BY <1>1, <1>2

-----------------------------------------------------------------------------
(* Between the plan and the end of an undisturbed pass the mapped cluster  *)
(* is what was listed, so the atomic write has the plan of this pass.      *)
LEMMA ListedSlot ==
  ASSUME IInv, phase \in {"inject", "apply"}
  PROVE  snap \in [Keys -> Slot]
BY DEF IInv, TypeOK, PassShape, Unlisted

LEMMA UnsettledView ==
  ASSUME IInv, Unsettled
  PROVE  Promise!View = View(snap)
<1>1. snap \in [Keys -> Slot] /\ AsOneWrite = Contents(snap)
  BY ListedSlot DEF Unsettled, AsOneWrite
<1>2. ASSUME NEW k \in Keys
      PROVE  (IF Contents(snap)[k] = Absent
                THEN Absent
                ELSE [managed |-> Contents(snap)[k].managed, spec |-> Contents(snap)[k].spec])
             = View(snap)[k]
  BY <1>1, ViewOfContent DEF Contents
<1>3. View(snap) = [k \in Keys |-> View(snap)[k]]
  BY DEF View
<1> QED BY <1>1, <1>2, <1>3 DEF Promise!View

OutcomeOf(k) == Promise!Outcome(ContentOf(snap[k]), Desired(View(snap))[k])

LEMMA UnsettledOutcomes ==
  ASSUME IInv, Unsettled
  PROVE  /\ Promise!Outcomes = [k \in Keys |-> OutcomeOf(k)]
         /\ \A S : Promise!Now(S) = [k \in Keys |-> IF k \in S THEN OutcomeOf(k)
                                                              ELSE {ContentOf(snap[k])}]
<1>1. AsOneWrite = Contents(snap)
  BY DEF Unsettled, AsOneWrite
<1>2. Promise!Outcomes = [k \in Keys |-> OutcomeOf(k)]
  BY <1>1, UnsettledView DEF Promise!Outcomes, OutcomeOf, Contents
<1> QED BY <1>1, <1>2 DEF Promise!Now, Contents

(* Whatever is written for a key is the outcome of the atomic write there, *)
(* and what needs no call is its own outcome.                              *)
LEMMA WantedOutcome ==
  ASSUME IInv, Unsettled, NEW k \in Keys, Creates(k) \/ Updates(k), NEW o \in Object,
         o.managed, ~o.deleting, o.spec = Desired(View(snap))[k]
  PROVE  ContentOf(o) \in OutcomeOf(k)
<1>1. snap[k] \in Slot /\ o # Absent /\ Desired(View(snap))[k] # NoSpec
  BY ListedSlot, AbsentAssumption DEF Unsettled, Creates, Updates, Wanted
<1>2. ContentOf(o) = Promise!Own(Desired(View(snap))[k])
  BY <1>1 DEF ContentOf, Promise!Own, Object
<1>3. ContentOf(snap[k]) = Absent \/ Promise!Owned(ContentOf(snap[k]))
  BY <1>1, ContentTyped DEF Creates, Updates, Managed, Promise!Owned
<1> QED BY <1>1, <1>2, <1>3 DEF OutcomeOf, Promise!Outcome

LEMMA DeletedOutcome ==
  ASSUME IInv, Unsettled, NEW k \in Keys, Deletes(k), NEW o \in Slot,
         o # Absent => o.deleting /\ o.managed = snap[k].managed /\ o.spec = snap[k].spec
  PROVE  ContentOf(o) \in OutcomeOf(k)
<1>1. /\ snap[k] \in Object /\ snap[k] # Absent /\ snap[k].managed
      /\ Desired(View(snap))[k] = NoSpec
  BY ListedSlot DEF Unsettled, Deletes, Wanted, Managed, Slot
<1>2. /\ ContentOf(snap[k]) = [managed |-> snap[k].managed, deleting |-> snap[k].deleting,
                               spec |-> snap[k].spec]
      /\ ContentOf(snap[k]) # Absent
  BY <1>1, ContentTyped DEF ContentOf, Slot
<1>3. OutcomeOf(k) = {Promise!Marked(ContentOf(snap[k])), Absent}
  BY <1>1, <1>2 DEF OutcomeOf, Promise!Outcome, Promise!Owned
<1>4. CASE o # Absent
  <2>1. ContentOf(o) = [managed |-> snap[k].managed, deleting |-> TRUE, spec |-> snap[k].spec]
    BY <1>4 DEF ContentOf, Slot, Object
  <2>2. Promise!Marked(ContentOf(snap[k])) = ContentOf(o)
    BY <1>2, <2>1 DEF Promise!Marked
  <2> QED BY <1>3, <2>2
<1>5. CASE o = Absent
  BY <1>3, <1>5 DEF ContentOf
<1> QED BY <1>4, <1>5

LEMMA SettledOutcome ==
  ASSUME IInv, Unsettled, NEW k \in AppliedKeys, ~Creates(k), ~Updates(k), ~Deletes(k)
  PROVE  ContentOf(snap[k]) \in OutcomeOf(k)
<1>1. k \in Keys /\ snap[k] \in Slot
  BY ListedSlot DEF Unsettled, AppliedKeys
<1>2. Wanted(k) /\ Managed(k) => ~snap[k].deleting /\ snap[k].spec = Desired(View(snap))[k]
  BY DEF IInv, CleanProgress, Unsettled, Updates
<1>3. CASE Managed(k)
  <2>1. snap[k] # Absent /\ snap[k] \in Object /\ Wanted(k) /\ snap[k].managed
    BY <1>1, <1>3 DEF Managed, Deletes, Slot
  <2>2. ContentOf(snap[k]) = Promise!Own(Desired(View(snap))[k])
    BY <1>2, <1>3, <2>1 DEF ContentOf, Promise!Own, Object
  <2>3. Promise!Owned(ContentOf(snap[k]))
    BY <1>1, <2>1, ContentTyped DEF Promise!Owned
  <2> QED BY <2>1, <2>2, <2>3 DEF OutcomeOf, Promise!Outcome, Wanted
<1>4. CASE ~Managed(k)
  <2>1. ~Promise!Owned(ContentOf(snap[k]))
    BY <1>1, <1>4, ContentTyped DEF Managed, Promise!Owned
  <2>2. ~(Desired(View(snap))[k] # NoSpec /\ ContentOf(snap[k]) = Absent)
    BY <1>1, ContentTyped DEF Creates, Wanted
  <2> QED BY <2>1, <2>2 DEF OutcomeOf, Promise!Outcome
<1> QED BY <1>3, <1>4

-----------------------------------------------------------------------------
(* How far an undisturbed pass has come: workloads first, and each key     *)
(* either as listed or as the atomic write leaves it.                      *)
LEMMA PrefixOfPass ==
  ASSUME IInv, Unsettled, NEW S \in SUBSET AppliedKeys, done \subseteq S,
         \A k \in S : /\ Creates(k) \/ Updates(k) \/ Deletes(k)
                      /\ \A j \in Keys : AppliedBefore(j, k) => ~Pending(j)
  PROVE  S \in Promise!Prefixes
<1> DEFINE want == Desired(View(snap))
<1>1. ASSUME NEW k \in S, NEW j \in AppliedKeys, j \notin S, Promise!Earlier(want, j, k)
      PROVE  ContentOf(snap[j]) \in OutcomeOf(j)
  <2>1. AppliedBefore(j, k) /\ j \in Keys
    <3>1. CASE j.kind \in WorkloadKinds /\ k.kind \notin WorkloadKinds
      BY <3>1, WorkloadsFirst DEF AppliedKeys
    <3>2. CASE j.kind = k.kind /\ j.ns = k.ns /\ Wanted(j) /\ ~Wanted(k)
      BY <3>2 DEF AppliedBefore, Deletes, Creates, Updates, AppliedKeys
    <3> QED BY <1>1, <3>1, <3>2 DEF Promise!Earlier, Wanted
  <2>2. ~Creates(j) /\ ~Updates(j) /\ ~Deletes(j)
    BY <1>1, <2>1 DEF Pending
  <2> QED BY <2>2, SettledOutcome
<1>2. /\ AsOneWrite = Contents(snap) /\ Promise!View = View(snap)
      /\ Promise!Outcomes = [k \in Keys |-> OutcomeOf(k)]
  BY UnsettledView, UnsettledOutcomes DEF Unsettled, AsOneWrite
<1>3. {j \in AppliedKeys : AsOneWrite[j] \in Promise!Outcomes[j]}
      = {j \in AppliedKeys : ContentOf(snap[j]) \in OutcomeOf(j)}
  BY <1>2 DEF Contents, AppliedKeys
<1> QED BY <1>1, <1>2, <1>3 DEF Promise!Prefixes

LEMMA PartWay ==
  ASSUME IInv, Unsettled
  PROVE  /\ Promise!Plannable
         /\ done \in Promise!Prefixes
         /\ \A k \in Keys : ContentOf(api[k]) \in Promise!Now(done)[k]
<1>0. /\ snap \in [Keys -> Slot] /\ api \in [Keys -> Slot] /\ done \subseteq Keys
      /\ phase = "apply" /\ clean
  BY ListedSlot DEF Unsettled, IInv, TypeOK, ApiTypeOK
<1>1. Promise!Plannable
  <2>1. PlanResult(View(snap)) = "ok" /\ Promise!View = View(snap) /\ AsOneWrite = Contents(snap)
    BY UnsettledView DEF Unsettled, AsOneWrite, IInv, PlanHeld
  <2>2. ASSUME NEW k \in AppliedKeys, Desired(View(snap))[k] # NoSpec,
               Promise!Owned(Contents(snap)[k])
        PROVE  ~Contents(snap)[k].deleting
    <3>1. Contents(snap)[k] = ContentOf(snap[k]) /\ snap[k] \in Slot
      BY <1>0 DEF Contents, AppliedKeys
    <3>2. Wanted(k) /\ Managed(k) /\ snap[k] # Absent
      BY <2>2, <3>1, ContentTyped DEF Promise!Owned, Wanted, Managed
    <3>3. ~snap[k].deleting
      BY <1>0, <3>2 DEF IInv, CleanProgress
    <3> QED BY <3>1, <3>2, <3>3, ContentTyped
  <2> QED BY <2>1, <2>2 DEF Promise!Plannable
<1>2. done \in Promise!Prefixes
  BY PrefixOfPass DEF IInv, CallsInTurn
<1>3. ASSUME NEW k \in Keys PROVE ContentOf(api[k]) \in Promise!Now(done)[k]
  <2>1. CASE k \notin done
    <3>1. api[k] = snap[k]
      BY <1>0, <2>1 DEF IInv, CleanProgress, PassShape
    <3> QED BY <2>1, <3>1, UnsettledOutcomes
  <2>2. CASE k \in done
    <3>1. Applied(k) /\ (Creates(k) \/ Updates(k) \/ Deletes(k))
      BY <1>0, <2>2 DEF IInv, CleanProgress, CallsInTurn
    <3>2. CASE Wanted(k)
      <4>1. /\ Creates(k) \/ Updates(k)
            /\ api[k] \in Object /\ api[k].managed /\ ~api[k].deleting
            /\ api[k].spec = Desired(View(snap))[k]
        BY <1>0, <3>1, <3>2, ExistingIsObject DEF Applied, Deletes, IInv, TypeOK
      <4>2. ContentOf(api[k]) \in OutcomeOf(k)
        BY <4>1, WantedOutcome
      <4> QED BY <2>2, <4>2, UnsettledOutcomes
    <3>3. CASE ~Wanted(k)
      <4>1. /\ Deletes(k) /\ api[k] \in Slot
            /\ api[k] # Absent => /\ api[k].deleting
                                 /\ api[k].managed = snap[k].managed /\ api[k].spec = snap[k].spec
        BY <1>0, <2>2, <3>1, <3>3 DEF Creates, Updates, IInv, MarksKept, Exists
      <4>2. ContentOf(api[k]) \in OutcomeOf(k)
        BY <4>1, DeletedOutcome
      <4> QED BY <2>2, <4>2, UnsettledOutcomes
    <3> QED BY <3>2, <3>3
  <2> QED BY <2>1, <2>2
<1> QED BY <1>1, <1>2, <1>3

-----------------------------------------------------------------------------
(* What a single call leaves under its key.                                *)
LEMMA RenderedCall ==
  ASSUME TypeOK, PassShape, NEW k \in Keys, ApplyTurn(k), CreateObject(k) \/ UpdateObject(k)
  PROVE  IF Exists(k) /\ api[k].deleting
           THEN api'[k] = Absent
           ELSE /\ api'[k] \in Object /\ api'[k].managed /\ ~api'[k].deleting
                /\ api'[k].spec = Desired(View(snap))[k]
<1>1. ApiTypeOK /\ Rendered(k) \in Object
  BY RenderedTyped DEF TypeOK, ApplyTurn, CreateObject, Creates, UpdateObject, Updates
<1>2. /\ Rendered(k).managed /\ ~Rendered(k).deleting
      /\ Rendered(k).spec = Desired(View(snap))[k]
  BY DEF Rendered
<1>3. CASE Store(k, Rendered(k)) /\ ~(Exists(k) /\ api[k].deleting)
  <2>1. api'[k] \in Object
    BY <1>1, <1>3, StoreMoves DEF ApiMoves, Moves, Object, Store, ApiTypeOK
  <2> QED BY <1>1, <1>2, <1>3, <2>1, StoreElsewhere
<1>4. CASE UNCHANGED api /\ Rendered(k) = api[k] /\ ~api[k].deleting
  BY <1>1, <1>2, <1>4
<1>5. CASE Exists(k) /\ api[k].deleting /\ api' = [api EXCEPT ![k] = Absent]
  BY <1>1, <1>5 DEF ApiTypeOK
<1> QED BY <1>3, <1>4, <1>5 DEF CreateObject, ApiCreate, UpdateObject, ApiReplace, ApiUpdate, Fresh

LEMMA CallAt ==
  ASSUME IInv, NEW k \in Keys, Attempt(k)
  PROVE  /\ api \in [Keys -> Slot] /\ api' \in [Keys -> Slot]
         /\ \A j \in Keys \ {k} : api'[j] = api[j]
BY AttemptMoves, AttemptEffects DEF IInv, TypeOK, ApiTypeOK, ApiMoves, AttemptEffect

LEMMA CleanOutcome ==
  ASSUME IInv, Unsettled, NEW k \in Keys, Attempt(k)
  PROVE  /\ ContentOf(api'[k]) \in OutcomeOf(k)
         /\ done \cup {k} \in Promise!Prefixes
<1>1. /\ ApplyTurn(k) /\ (CreateObject(k) \/ UpdateObject(k) \/ DeleteObject(k))
      /\ phase = "apply" /\ clean
  BY DEF Attempt, LabelTurn, Unsettled
<1>2. /\ k \in AppliedKeys /\ k \notin done /\ (Creates(k) \/ Updates(k) \/ Deletes(k))
      /\ \A j \in Keys : AppliedBefore(j, k) => ~Pending(j)
  BY <1>1 DEF ApplyTurn, Pending
<1>3. /\ TypeOK /\ PassShape /\ api[k] = snap[k] /\ api'[k] \in Slot
  BY <1>1, <1>2, CallAt DEF IInv, CleanProgress, PassShape
<1>4. CASE CreateObject(k) \/ UpdateObject(k)
  <2>1. Creates(k) \/ Updates(k)
    BY <1>4 DEF CreateObject, UpdateObject
  <2>2. ~(Exists(k) /\ api[k].deleting)
    BY <1>1, <1>2, <1>3, <2>1 DEF IInv, CleanProgress, Creates, Updates, Exists
  <2> QED BY <1>1, <1>2, <1>3, <1>4, <2>1, <2>2, RenderedCall, WantedOutcome, PrefixOfPass
         DEF IInv, CallsInTurn
<1>5. CASE DeleteObject(k)
  <2>1. Deletes(k) /\ ApiDelete(k)
    BY <1>5 DEF DeleteObject
  <2>2. ContentOf(api'[k]) \in OutcomeOf(k)
    BY <1>3, <2>1, CleanDelete, DeletedOutcome
  <2> QED BY <1>2, <2>2, PrefixOfPass DEF IInv, CallsInTurn
<1> QED BY <1>1, <1>4, <1>5

(* Labels are no content: writing them does not show.                      *)
LEMMA LabelsShowNothing ==
  ASSUME IInv, NEW k \in Keys, LabelTurn(k), ApiUpdate(k, Labeled(snap[k]))
  PROVE  Contents(api)' = Contents(api)
<1>1. /\ snap[k] \in Object /\ Labeled(snap[k]) \in Object
      /\ TypeOK /\ PassShape /\ VersionsIdentify /\ ApiTypeOK
  BY LabeledTyped DEF IInv, TypeOK
<1>2. /\ Labeled(snap[k]).rv = snap[k].rv /\ Labeled(snap[k]).spec = snap[k].spec
      /\ Labeled(snap[k]).managed = snap[k].managed
      /\ Labeled(snap[k]).deleting = snap[k].deleting
  BY <1>1 DEF Labeled, Object
<1>3. api[k] = snap[k] /\ api[k] # Absent
  BY <1>1, <1>2, FreshIsListed, AbsentAssumption DEF ApiUpdate, Fresh
<1>4. CASE UNCHANGED api
  BY <1>4 DEF Contents
<1>5. CASE Store(k, Labeled(snap[k]))
  <2>1. /\ \A j \in Keys \ {k} : api'[j] = api[j]
        /\ api'[k] # Absent /\ api'[k].managed = api[k].managed
        /\ api'[k].deleting = api[k].deleting /\ api'[k].spec = api[k].spec
    BY <1>1, <1>2, <1>3, <1>5, StoreElsewhere DEF Exists
  <2>2. \A j \in Keys : ContentOf(api'[j]) = ContentOf(api[j])
    BY <1>3, <2>1 DEF ContentOf
  <2> QED BY <2>2 DEF Contents
<1> QED BY <1>4, <1>5 DEF ApiUpdate

(* A call of a pass whose listing is old.                                  *)
LEMMA StaleCall ==
  ASSUME IInv, phase = "apply", ~clean, NEW k \in Keys, Attempt(k), AsOneWrite' = Contents(api)'
  PROVE  k \in AppliedKeys /\ Promise!StaleWrite(k, View(snap))
<1>1. /\ ApplyTurn(k) /\ (CreateObject(k) \/ UpdateObject(k) \/ DeleteObject(k))
      /\ k \in AppliedKeys /\ TypeOK /\ PassShape /\ VersionsIdentify
  BY DEF Attempt, LabelTurn, ApplyTurn, Pending, IInv
<1>2. /\ snap \in [Keys -> Slot] /\ api \in [Keys -> Slot] /\ api' \in [Keys -> Slot]
      /\ \A j \in Keys \ {k} : api'[j] = api[j]
  BY ListedSlot, CallAt
<1>3. AsOneWrite = Contents(api)
  BY DEF AsOneWrite, Unsettled
<1>4. AsOneWrite[k] = ContentOf(api[k]) /\ AsOneWrite'[k] = ContentOf(api'[k])
  BY <1>3 DEF Contents
<1>5. AsOneWrite' = [AsOneWrite EXCEPT ![k] = AsOneWrite'[k]]
  BY <1>2, <1>3 DEF Contents
<1>6. View(snap)[k] = Absent <=> snap[k] = Absent
  BY <1>2, AbsentAssumption, ContentAssumption DEF View, Slot, Object
<1>7. CASE CreateObject(k)
  <2>1. /\ Desired(View(snap))[k] # NoSpec /\ snap[k] = Absent /\ api[k] = Absent
    BY <1>7 DEF CreateObject, Creates, Wanted, ApiCreate, Exists
  <2>2. ContentOf(api'[k]) = Promise!Own(Desired(View(snap))[k])
    BY <1>1, <1>7, <2>1, RenderedCall, AbsentAssumption
       DEF Exists, ContentOf, Promise!Own, Object
  <2>3. ContentOf(api[k]) = Absent
    BY <2>1 DEF ContentOf
  <2> QED BY <1>1, <1>4, <1>5, <1>6, <2>1, <2>2, <2>3 DEF Promise!StaleWrite
<1>8. CASE UpdateObject(k)
  <2>1. /\ Desired(View(snap))[k] # NoSpec /\ snap[k] # Absent /\ snap[k].managed
        /\ snap[k] \in Object
    BY <1>2, <1>8 DEF UpdateObject, Updates, Wanted, Managed, Slot
  <2>2. api[k] = snap[k] /\ Exists(k)
    BY <1>1, <1>8, <2>1, FreshIsListed DEF UpdateObject, ApiReplace, Fresh, Rendered
  <2>3. /\ Promise!Owned(ContentOf(api[k]))
        /\ ContentOf(api[k]).deleting = api[k].deleting
    BY <1>2, <2>1, <2>2, ContentTyped DEF Promise!Owned
  <2>4. View(snap)[k] = Promise!View[k]
    <3>1. View(snap)[k] = View(api)[k]
      BY <2>2 DEF View
    <3>2. Promise!View[k] = View(api)[k]
      BY <1>2, <1>4, ViewOfContent DEF Promise!View
    <3> QED BY <3>1, <3>2
  <2>5. ContentOf(api'[k]) = IF ContentOf(api[k]).deleting
                               THEN Absent ELSE Promise!Own(Desired(View(snap))[k])
    BY <1>1, <1>8, <2>2, <2>3, RenderedCall, AbsentAssumption
       DEF Exists, ContentOf, Promise!Own, Object
  <2> QED BY <1>1, <1>4, <1>5, <2>1, <2>3, <2>4, <2>5 DEF Promise!StaleWrite
<1>9. CASE DeleteObject(k)
  <2>1. /\ Desired(View(snap))[k] = NoSpec /\ snap[k] # Absent /\ snap[k].managed
        /\ snap[k] \in Object /\ ApiDelete(k) /\ api[k] # Absent
    BY <1>2, <1>9 DEF DeleteObject, Deletes, Wanted, Managed, Slot, ApiDelete, Exists
  <2>2. /\ api'[k] # Absent /\ api'[k].deleting
        /\ api'[k].managed = api[k].managed /\ api'[k].spec = api[k].spec
    BY <1>1, <2>1, CleanDelete DEF Exists
  <2>3. api'[k] \in Object /\ api[k] \in Object
    BY <1>2, <2>1, <2>2 DEF Slot
  <2>4. ContentOf(api'[k]) = Promise!Marked(ContentOf(api[k])) /\ ContentOf(api[k]) # Absent
    BY <1>2, <2>1, <2>2, <2>3, ContentTyped DEF ContentOf, Promise!Marked, Object
  <2>5. View(snap)[k] # Absent /\ View(snap)[k].managed
    BY <1>6, <2>1 DEF View
  <2> QED BY <1>1, <1>4, <1>5, <2>1, <2>4, <2>5 DEF Promise!StaleWrite
<1> QED BY <1>1, <1>7, <1>8, <1>9

-----------------------------------------------------------------------------
(* What users and the collector do, to one key at a time.                  *)
OthersChange(k) ==
  /\ api' \in [Keys -> Slot]
  /\ \A j \in Keys \ {k} : api'[j] = api[j]
  /\ Promise!Others(k, ContentOf(api[k]), ContentOf(api'[k]))

LEMMA UserChanges ==
  ASSUME ApiTypeOK, UserWrite
  PROVE  \E k \in Keys : OthersChange(k)
<1>1. PICK k \in UserKeys : \/ \E s \in Specs : ApiUserCreate(k, s) \/ ApiUserEdit(k, s)
                            \/ ApiUserDelete(k)
  BY DEF UserWrite, ApiUserWrite
<1>2. k \in Keys /\ api[k] \in Slot /\ api' \in [Keys -> Slot] /\ userOps' = userOps + 1
  BY UserAssumption, UserMoves DEF UserWrite, ApiTypeOK, ApiMoves
<1>3. ASSUME NEW s \in Specs, ApiUserCreate(k, s) PROVE OthersChange(k)
  <2>1. UserObject(s) \in Object /\ Store(k, UserObject(s)) /\ ~Exists(k)
    BY <1>3 DEF UserObject, Object, ApiUserCreate
  <2>2. /\ \A j \in Keys \ {k} : api'[j] = api[j]
        /\ api'[k] = [UserObject(s) EXCEPT !.rv = rev[k] + 1]
    BY <1>2, <2>1, StoreElsewhere, StoreMoves
  <2>3. /\ api'[k] # Absent /\ api'[k].spec = s
        /\ api'[k].managed = FALSE /\ api'[k].deleting = FALSE
    BY <1>2, <2>1, <2>2, StoreElsewhere DEF UserObject, Exists
  <2>4. ContentOf(api'[k]) = Promise!User(s) /\ ContentOf(api[k]) = Absent
    BY <2>1, <2>3 DEF ContentOf, Promise!User, Exists
  <2> QED BY <1>2, <2>2, <2>4 DEF OthersChange, Promise!Others, Promise!UserChange
<1>4. ASSUME NEW s \in Specs, ApiUserEdit(k, s) PROVE OthersChange(k)
  <2>1. api[k] \in Object /\ api[k] # Absent /\ api[k].spec # s
    BY <1>2, <1>4 DEF ApiUserEdit, Exists, Slot
  <2>2. /\ [api[k] EXCEPT !.spec = s] \in Object
        /\ [api[k] EXCEPT !.spec = s].managed = api[k].managed
        /\ [api[k] EXCEPT !.spec = s].deleting = api[k].deleting
        /\ [api[k] EXCEPT !.spec = s].spec = s
    BY <2>1 DEF Object
  <2>3. /\ \A j \in Keys \ {k} : api'[j] = api[j]
        /\ api'[k] # Absent /\ api'[k].spec = s
        /\ api'[k].managed = api[k].managed /\ api'[k].deleting = api[k].deleting
    BY <1>2, <1>4, <2>2, StoreElsewhere DEF ApiUserEdit, Exists
  <2>4. /\ ContentOf(api'[k]) = Promise!Edited(ContentOf(api[k]), s)
        /\ ContentOf(api[k]) # Absent /\ ContentOf(api[k]).spec # s
    BY <1>2, <2>1, <2>3, ContentTyped DEF ContentOf, Promise!Edited
  <2> QED BY <1>2, <2>3, <2>4 DEF OthersChange, Promise!Others, Promise!UserChange
<1>5. CASE ApiUserDelete(k)
  <2>1. api' = [api EXCEPT ![k] = Absent] /\ api[k] # Absent
    BY <1>5 DEF ApiUserDelete, Exists
  <2>2. api'[k] = Absent /\ \A j \in Keys \ {k} : api'[j] = api[j]
    BY <1>2, <2>1 DEF ApiTypeOK
  <2>3. ContentOf(api'[k]) = Absent /\ ContentOf(api[k]) # Absent
    BY <1>2, <2>1, <2>2, ContentTyped DEF ContentOf
  <2> QED BY <1>2, <2>2, <2>3 DEF OthersChange, Promise!Others, Promise!UserChange
<1> QED BY <1>1, <1>2, <1>3, <1>4, <1>5

LEMMA CollectorChanges ==
  ASSUME ApiTypeOK, NEW k \in Keys, CollectGarbage(k)
  PROVE  OthersChange(k)
<1>1. /\ api' = [api EXCEPT ![k] = Absent] /\ api[k] # Absent /\ api[k].deleting
      /\ api[k] \in Slot /\ userOps' = userOps
  BY DEF CollectGarbage, ApiCollect, Exists, ApiTypeOK
<1>2. /\ api' \in [Keys -> Slot]
      /\ api'[k] = Absent /\ \A j \in Keys \ {k} : api'[j] = api[j]
  BY <1>1 DEF ApiTypeOK, Slot
<1>3. Promise!Collected(ContentOf(api[k]), ContentOf(api'[k]))
  BY <1>1, <1>2, ContentTyped DEF Promise!Collected, ContentOf
<1> QED BY <1>1, <1>2, <1>3 DEF OthersChange, Promise!Others

LEMMA InterruptPromise ==
  ASSUME IInv, Unsettled, phase' = "apply", ~clean', snap' = snap, faults' = faults,
         NEW k \in Keys, OthersChange(k)
  PROVE  Promise!Interrupt
<1>1. /\ AsOneWrite' = Contents(api)' /\ OldListing = {}
      /\ OldListing' = {Promise!View}
  <2>1. View(snap)' = View(snap)
    BY DEF View
  <2> QED BY <2>1, UnsettledView DEF AsOneWrite, OldListing, Unsettled
<1>2. AsOneWrite' \in [Keys -> Promise!Slot] /\ \A j \in Keys : AsOneWrite'[j] = ContentOf(api'[j])
  BY <1>1, ContentTyped DEF OthersChange, Contents
<1>3. /\ done \in Promise!Prefixes /\ Promise!Plannable
      /\ \A j \in Keys : ContentOf(api[j]) \in Promise!Now(done)[j]
  BY PartWay
<1>4. Promise!Written(done, Keys \ {k})
  BY <1>2, <1>3 DEF Promise!Written, OthersChange
<1>5. \E old \in Promise!Now(done)[k] : Promise!Others(k, old, AsOneWrite'[k])
  BY <1>2, <1>3 DEF OthersChange
<1> QED BY <1>1, <1>3, <1>4, <1>5 DEF Promise!Interrupt

LEMMA ChangePromise ==
  ASSUME IInv, ~Unsettled, ~Unsettled', OldListing' = OldListing, faults' = faults,
         NEW k \in Keys, OthersChange(k)
  PROVE  Promise!Change
<1>1. AsOneWrite = Contents(api) /\ AsOneWrite' = Contents(api)'
  BY DEF AsOneWrite
<1>2. /\ AsOneWrite[k] = ContentOf(api[k]) /\ AsOneWrite'[k] = ContentOf(api'[k])
      /\ AsOneWrite' = [AsOneWrite EXCEPT ![k] = AsOneWrite'[k]]
  BY <1>1 DEF Contents, OthersChange
<1> QED BY <1>2 DEF Promise!Change, OthersChange

-----------------------------------------------------------------------------
(* The steps of the pass.                                                  *)
LEMMA PlanPromise ==
  ASSUME IInv, IInv', PlanPass
  PROVE  Promise!Misread \/ UNCHANGED Promise!vars
<1>1. /\ phase = "inject" /\ UNCHANGED <<api, userOps, faults>>
      /\ AsOneWrite = Contents(api) /\ OldListing = {}
  BY DEF PlanPass, AsOneWrite, OldListing, Unsettled
<1>2. CASE phase' # "apply"
  <2>1. AsOneWrite' = AsOneWrite /\ OldListing' = OldListing
    BY <1>1, <1>2 DEF AsOneWrite, OldListing, Unsettled, Contents
  <2> QED BY <1>1, <2>1 DEF Promise!vars
<1>3. phase' = "apply" => PlanResult(View(snap)) = "ok" /\ UNCHANGED <<snap, done>> /\ (clean' => clean)
  BY DEF PlanPass, AbortPass, Requeue, EndPass
<1>4. CASE phase' = "apply" /\ clean'
  <2>1. \A k \in Keys : api[k] = snap[k]
    BY <1>1, <1>3, <1>4 DEF IInv, CleanProgress, PassShape
  <2>2. AsOneWrite' = Contents(api)
    BY <1>3, <1>4, <2>1 DEF AsOneWrite, Unsettled, Contents
  <2> QED BY <1>1, <1>4, <2>2 DEF OldListing, Promise!vars
<1>5. CASE phase' = "apply" /\ ~clean'
  <2>1. AsOneWrite' = AsOneWrite /\ OldListing' = {View(snap)}
    BY <1>1, <1>3, <1>5 DEF AsOneWrite, OldListing, Unsettled, Contents, View
  <2>2. View(snap) \in Promise!Views
    <3>1. View(snap) \in Views
      BY ViewTyped DEF IInv, TypeOK
    <3> QED BY <3>1 DEF Views, Promise!Views
  <2> QED BY <1>1, <1>3, <1>5, <2>1, <2>2 DEF Promise!Misread
<1> QED BY <1>2, <1>4, <1>5

LEMMA ApplyPromise ==
  ASSUME IInv, NEW k \in Keys, ApplyCall(k)
  PROVE  Promise!WriteStale \/ UNCHANGED Promise!vars
<1>1. /\ Attempt(k) /\ phase = "apply" /\ UNCHANGED <<phase, clean, snap, userOps, faults>>
  BY DEF ApplyCall, Attempt, ApplyTurn
<1>2. OldListing' = OldListing
  BY <1>1 DEF OldListing, View
<1>3. CASE clean
  BY <1>1, <1>2, <1>3 DEF AsOneWrite, Unsettled, Contents, Promise!vars
<1>4. CASE ~clean
  <2>1. AsOneWrite' = Contents(api)' /\ OldListing = {View(snap)}
    BY <1>1, <1>4 DEF AsOneWrite, OldListing, Unsettled
  <2>2. k \in AppliedKeys /\ Promise!StaleWrite(k, View(snap))
    BY <1>1, <1>4, <2>1, StaleCall
  <2> QED BY <1>1, <1>2, <2>1, <2>2 DEF Promise!WriteStale
<1> QED BY <1>3, <1>4

(* The end of an undisturbed pass is the atomic write.                     *)
LEMMA FinishPromise ==
  ASSUME IInv, FinishPass
  PROVE  Promise!Reconcile \/ Promise!Abandon \/ UNCHANGED Promise!vars
<1>1. /\ phase = "apply" /\ (\A k \in Keys : ~Pending(k)) /\ phase' = "idle"
      /\ UNCHANGED <<api, userOps, faults>>
  BY DEF FinishPass, AbortPass, EndPass
<1>2. AsOneWrite' = Contents(api) /\ OldListing' = {}
  BY <1>1 DEF AsOneWrite, OldListing, Unsettled, Contents
<1>3. CASE ~clean
  BY <1>1, <1>2, <1>3 DEF AsOneWrite, OldListing, Unsettled, Promise!Abandon
<1>4. CASE clean
  <2>1. Unsettled /\ OldListing = {}
    BY <1>1, <1>4 DEF Unsettled, OldListing
  <2>2. Contents(api) \in [Keys -> Promise!Slot]
    BY ContentsTyped DEF IInv, TypeOK, ApiTypeOK
  <2>3. ASSUME NEW k \in Keys PROVE AsOneWrite'[k] \in Promise!Now(AppliedKeys)[k]
    <3>1. AsOneWrite'[k] = ContentOf(api[k]) /\ ContentOf(api[k]) \in Promise!Now(done)[k]
      BY <1>2, <2>1, PartWay DEF Contents
    <3>2. CASE k \in done
      BY <2>1, <3>1, <3>2, UnsettledOutcomes DEF IInv, CallsInTurn
    <3>3. CASE k \notin done
      <4>1. api[k] = snap[k]
        BY <1>1, <1>4, <3>3 DEF IInv, CleanProgress, PassShape
      <4>2. CASE k \in AppliedKeys
        <5>1. ~Creates(k) /\ ~Updates(k) /\ ~Deletes(k)
          BY <1>1, <3>3, <4>2 DEF Pending
        <5> QED BY <2>1, <3>1, <4>1, <4>2, <5>1, SettledOutcome, UnsettledOutcomes
      <4>3. CASE k \notin AppliedKeys
        BY <2>1, <3>1, <4>1, <4>3, UnsettledOutcomes
      <4> QED BY <4>2, <4>3
    <3> QED BY <3>2, <3>3
  <2>4. Promise!Written(AppliedKeys, Keys)
    BY <1>2, <2>2, <2>3 DEF Promise!Written
  <2> QED BY <1>1, <1>2, <2>1, <2>4, PartWay DEF Promise!Reconcile, Promise!vars
<1> QED BY <1>3, <1>4

(* A failure leaves a prefix of an undisturbed pass behind, or one write   *)
(* of a disturbed one.                                                     *)
LEMMA FailPromise ==
  ASSUME IInv, EndPass, faults' = faults + 1, userOps' = userOps,
         UNCHANGED api \/ \E k \in Keys : Attempt(k)
  PROVE  Promise!Fail
<1>1. AsOneWrite' = Contents(api)' /\ OldListing' = {}
  BY DEF EndPass, AsOneWrite, OldListing, Unsettled
<1>2. SUFFICES \/ UNCHANGED AsOneWrite
               \/ \E k \in AppliedKeys, v \in OldListing : Promise!StaleWrite(k, v)
               \/ /\ OldListing = {} /\ Promise!Plannable
                  /\ \E S \in Promise!Prefixes : Promise!Written(S, Keys)
  BY <1>1 DEF Promise!Fail
<1>3. CASE Unsettled
  <2>1. OldListing = {} /\ Promise!Plannable /\ done \in Promise!Prefixes
    BY <1>3, PartWay DEF OldListing, Unsettled
  <2>2. CASE UNCHANGED api
    <3>1. AsOneWrite' = Contents(api) /\ Contents(api) \in [Keys -> Promise!Slot]
      BY <1>1, <2>2, ContentsTyped DEF Contents, IInv, TypeOK, ApiTypeOK
    <3>2. Promise!Written(done, Keys)
      BY <1>3, <3>1, PartWay DEF Promise!Written, Contents
    <3> QED BY <2>1, <3>2
  <2>3. ASSUME NEW k \in Keys, Attempt(k)
        PROVE  \E S \in Promise!Prefixes : Promise!Written(S, Keys)
    <3>1. /\ ContentOf(api'[k]) \in OutcomeOf(k) /\ done \cup {k} \in Promise!Prefixes
          /\ api' \in [Keys -> Slot] /\ \A j \in Keys \ {k} : api'[j] = api[j]
      BY <1>3, <2>3, CleanOutcome, CallAt
    <3>2. AsOneWrite' \in [Keys -> Promise!Slot] /\ \A j \in Keys : AsOneWrite'[j] = ContentOf(api'[j])
      BY <1>1, <3>1, ContentTyped DEF Contents
    <3>3. ASSUME NEW j \in Keys PROVE AsOneWrite'[j] \in Promise!Now(done \cup {k})[j]
      <4>1. CASE j = k
        BY <1>3, <3>1, <3>2, <4>1, UnsettledOutcomes
      <4>2. CASE j # k
        BY <1>3, <3>1, <3>2, <4>2, UnsettledOutcomes, PartWay
      <4> QED BY <4>1, <4>2
    <3>4. Promise!Written(done \cup {k}, Keys)
      BY <3>2, <3>3 DEF Promise!Written
    <3> QED BY <3>1, <3>4
  <2> QED BY <2>1, <2>2, <2>3
<1>4. CASE ~Unsettled
  <2>1. AsOneWrite = Contents(api)
    BY <1>4 DEF AsOneWrite
  <2>2. CASE UNCHANGED api
    BY <1>1, <2>1, <2>2 DEF Contents
  <2>3. ASSUME NEW k \in Keys, Attempt(k), phase = "apply"
        PROVE  \E j \in AppliedKeys, v \in OldListing : Promise!StaleWrite(j, v)
    <3>1. ~clean /\ OldListing = {View(snap)}
      BY <1>4, <2>3 DEF Unsettled, OldListing
    <3> QED BY <1>1, <2>3, <3>1, StaleCall
  <2>4. ASSUME NEW k \in Keys, Attempt(k), phase # "apply"
        PROVE  UNCHANGED AsOneWrite
    <3>1. Contents(api)' = Contents(api)
      BY <2>4, LabelsShowNothing DEF ApplyTurn, Attempt
    <3> QED BY <1>1, <2>1, <3>1
  <2> QED BY <2>2, <2>3, <2>4
<1> QED BY <1>3, <1>4

(* A refused call ends a pass whose listing is old; no other is refused.   *)
LEMMA RefusePromise ==
  ASSUME IInv, NEW k \in Keys, RefuseCall(k)
  PROVE  Promise!Abandon \/ UNCHANGED Promise!vars
<1>1. /\ Refused(k) /\ phase' = "idle" /\ UNCHANGED <<api, userOps, faults>>
      /\ phase \in {"inject", "apply"}
  BY DEF RefuseCall, Refused, LabelTurn, ApplyTurn, AbortPass, EndPass
<1>2. ~clean
  BY <1>1, NotRefused DEF UndisturbedNotRefused
<1>3. /\ AsOneWrite = Contents(api) /\ AsOneWrite' = Contents(api)
      /\ OldListing' = {}
      /\ OldListing = IF phase = "apply" THEN {View(snap)} ELSE {}
  BY <1>1, <1>2 DEF AsOneWrite, OldListing, Unsettled, Contents
<1> QED BY <1>1, <1>3 DEF Promise!Abandon, Promise!vars

(* The collector removes what an undisturbed pass has deleted, which does  *)
(* not show, or it changes the cluster under the pass.                     *)
LEMMA CollectPromise ==
  ASSUME IInv, NEW k \in Keys, CollectGarbage(k)
  PROVE  Promise!Interrupt \/ Promise!Change \/ UNCHANGED Promise!vars
<1>1. /\ UNCHANGED <<phase, snap, done, userOps, faults>>
      /\ clean' = (clean /\ (k \in done \/ Unlisted(k)))
      /\ View(snap)' = View(snap) /\ Contents(snap)' = Contents(snap)
  BY DEF CollectGarbage, View, Contents
<1>2. OthersChange(k)
  BY CollectorChanges DEF IInv, TypeOK
<1>3. CASE Unsettled /\ k \in done
  BY <1>1, <1>3 DEF AsOneWrite, OldListing, Unsettled, Promise!vars
<1>4. CASE Unsettled /\ k \notin done
  <2>1. ~clean' /\ phase' = "apply"
    BY <1>1, <1>4 DEF IInv, PassShape, Unsettled
  <2> QED BY <1>1, <1>2, <1>4, <2>1, InterruptPromise
<1>5. CASE ~Unsettled
  <2>1. ~Unsettled' /\ OldListing' = OldListing
    BY <1>1, <1>5 DEF OldListing, Unsettled
  <2> QED BY <1>1, <1>2, <1>5, <2>1, ChangePromise
<1> QED BY <1>3, <1>4, <1>5

LEMMA UserPromise ==
  ASSUME IInv, UserWrite
  PROVE  Promise!Interrupt \/ Promise!Change
<1>1. /\ UNCHANGED <<phase, snap, faults>> /\ ~clean'
      /\ View(snap)' = View(snap)
  BY DEF UserWrite, View
<1>2. PICK k \in Keys : OthersChange(k)
  BY UserChanges DEF IInv, TypeOK
<1>3. CASE Unsettled
  BY <1>1, <1>2, <1>3, InterruptPromise DEF Unsettled
<1>4. CASE ~Unsettled
  <2>1. ~Unsettled' /\ OldListing' = OldListing
    BY <1>1, <1>4 DEF OldListing, Unsettled
  <2> QED BY <1>1, <1>2, <1>4, <2>1, ChangePromise
<1> QED BY <1>3, <1>4

(* Until the plan is made nothing shows, and queue and caches never do.    *)
LEMMA ReadingPromise ==
  ASSUME IInv, BeginPass \/ ListNext \/ \E k \in Keys : InjectLabels(k)
  PROVE  UNCHANGED Promise!vars
<1>1. phase # "apply" /\ phase' # "apply" /\ UNCHANGED <<userOps, faults>>
  BY DEF BeginPass, ListNext, InjectLabels, LabelTurn
<1>2. /\ AsOneWrite = Contents(api) /\ AsOneWrite' = Contents(api)'
      /\ OldListing = {} /\ OldListing' = {}
  BY <1>1 DEF AsOneWrite, OldListing, Unsettled
<1>3. Contents(api)' = Contents(api)
  <2>1. CASE BeginPass \/ ListNext
    BY <2>1 DEF BeginPass, ListNext, Contents
  <2>2. ASSUME NEW k \in Keys, InjectLabels(k) PROVE Contents(api)' = Contents(api)
    BY <2>2, LabelsShowNothing DEF InjectLabels
  <2> QED BY <2>1, <2>2
<1> QED BY <1>1, <1>2, <1>3 DEF Promise!vars

LEMMA SilentPromise ==
  ASSUME (\E kd \in Kinds(ListOrder) : SyncCache(kd)) \/ Resync \/ UNCHANGED vars
  PROVE  UNCHANGED Promise!vars
<1>1. UNCHANGED <<api, phase, clean, snap, userOps, faults>>
  BY DEF SyncCache, ApiSync, Resync, vars, pass
<1> QED BY <1>1 DEF AsOneWrite, OldListing, Unsettled, Contents, View, Promise!vars

LEMMA InitPromise == Init => Promise!Init
<1>1. SUFFICES ASSUME Init PROVE Promise!Init
  OBVIOUS
<1>2. /\ AsOneWrite = Contents(api) /\ OldListing = {} /\ userOps = 0 /\ faults = 0
  BY <1>1 DEF Init, AsOneWrite, OldListing, Unsettled
<1>3. ASSUME NEW k \in Keys
      PROVE  ContentOf(api[k]) \in {Promise!User(s) : s \in Specs} \cup {Absent}
  <2>1. api[k] = IF InitSpec[k] = NoSpec THEN Absent ELSE UserObject(InitSpec[k])
    BY <1>1 DEF Init, ApiInit
  <2>2. CASE InitSpec[k] = NoSpec
    BY <2>1, <2>2 DEF ContentOf
  <2>3. CASE InitSpec[k] # NoSpec
    <3>1. InitSpec[k] \in Specs
      BY <2>3, InitAssumption
    <3>2. UserObject(InitSpec[k]) # Absent
      <4>1. UserObject(InitSpec[k]) \in Object
        BY <3>1 DEF UserObject, Object
      <4> QED BY <4>1, AbsentAssumption
    <3>3. ContentOf(api[k]) = Promise!User(InitSpec[k])
      BY <2>1, <2>3, <3>2 DEF ContentOf, UserObject, Promise!User
    <3> QED BY <3>1, <3>3
  <2> QED BY <2>2, <2>3
<1> QED BY <1>2, <1>3 DEF Contents, Promise!Init

(* Every behaviour of the operator is one of AtomicPass: a pass that       *)
(* nothing disturbs does what one write of its whole plan would do, and    *)
(* one that is cut short leaves a prefix of that write in the order of     *)
(* ApplyResources (topology.go 254-313, resources.go 191-231).             *)
THEOREM PassesAreAtomic == Spec => ImplementsAtomicPass
<1>1. ASSUME IInv, IInv', [Next]_vars PROVE [Promise!Next]_(Promise!vars)
  <2>1. CASE BeginPass \/ ListNext \/ \E k \in Keys : InjectLabels(k)
    BY <1>1, <2>1, ReadingPromise
  <2>2. CASE PlanPass
    BY <1>1, <2>2, PlanPromise DEF Promise!Next
  <2>3. ASSUME NEW k \in Keys, ApplyCall(k) PROVE [Promise!Next]_(Promise!vars)
    BY <1>1, <2>3, ApplyPromise DEF Promise!Next
  <2>4. CASE FinishPass
    BY <1>1, <2>4, FinishPromise DEF Promise!Next
  <2>5. ASSUME NEW k \in Keys, RefuseCall(k) PROVE [Promise!Next]_(Promise!vars)
    BY <1>1, <2>5, RefusePromise DEF Promise!Next
  <2>6. ASSUME NEW k \in Keys, CollectGarbage(k) PROVE [Promise!Next]_(Promise!vars)
    BY <1>1, <2>6, CollectPromise DEF Promise!Next
  <2>7. CASE UserWrite
    BY <1>1, <2>7, UserPromise DEF Promise!Next
  <2>8. CASE FailList
    <3>1. EndPass /\ faults' = faults + 1 /\ userOps' = userOps /\ UNCHANGED api
      BY <2>8 DEF FailList, AbortPass
    <3> QED BY <1>1, <3>1, FailPromise DEF Promise!Next
  <2>9. CASE Restart
    <3>1. EndPass /\ faults' = faults + 1 /\ userOps' = userOps /\ UNCHANGED api
      BY <2>9 DEF Restart
    <3> QED BY <1>1, <3>1, FailPromise DEF Promise!Next
  <2>10. ASSUME NEW k \in Keys, FailCall(k) PROVE [Promise!Next]_(Promise!vars)
    <3>1. /\ EndPass /\ faults' = faults + 1 /\ userOps' = userOps
          /\ UNCHANGED api \/ Attempt(k)
      BY <2>10 DEF FailCall, AbortPass
    <3> QED BY <1>1, <3>1, FailPromise DEF Promise!Next
  <2>11. CASE (\E kd \in Kinds(ListOrder) : SyncCache(kd)) \/ Resync \/ UNCHANGED vars
    BY <2>11, SilentPromise
  <2> QED BY <1>1, <2>1, <2>2, <2>3, <2>4, <2>5, <2>6, <2>7, <2>8, <2>9, <2>10, <2>11
      DEF Next, PassStep, Environment, Disturbance
<1> QED BY <1>1, InitPromise, Invariance, PTL DEF Spec, ImplementsAtomicPass, Promise!Spec
=============================================================================
