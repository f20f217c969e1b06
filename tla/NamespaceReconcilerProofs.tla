--------------------- MODULE NamespaceReconcilerProofs ---------------------
(***************************************************************************)
(* Proofs about NamespaceReconciler, for every value of its constants.     *)
(***************************************************************************)
EXTENDS NamespaceReconciler, TLAPS

\* A pass that stands at one of its steps has all the fields of one.
LEMMA PassIsBusy ==
    ASSUME TypeOK, pass # IdlePass
    PROVE  pass \in BusyPass
BY DEF TypeOK

LEMMA StepIsBusy ==
    ASSUME TypeOK, pass.pc \in Steps
    PROVE  pass \in BusyPass /\ pass # IdlePass
<1>1. IdlePass.pc = "idle"
  BY DEF IdlePass
<1>2. "idle" \notin Steps
  BY DEF Steps
<1> QED BY <1>1, <1>2 DEF TypeOK

LEMMA PlaceType ==
    ASSUME NEW n \in Namespace, NEW o \in Object
    PROVE  PlaceOf(n, o) \in Place
BY DEF Place

LEMMA TargetType ==
    ASSUME NEW t \in Template
    PROVE  RefOf[t] \in Ref /\ Target(t) \in Object
BY TemplatesAssumption DEF Target

LEMMA NsWriteType ==
    ASSUME TypeOK, NEW n \in Namespace, NEW x \in NamespaceVersion, NsWrite(n, x)
    PROVE  /\ nsObj' \in [Namespace -> NamespaceVersion]
           /\ nsWatch' \in [Namespace -> Seq(NamespaceVersion)]
<1> DEFINE y == [x EXCEPT !.rv = nsObj[n].rv + 1]
<1>1. nsObj[n].rv + 1 \in Nat
  BY DEF TypeOK, NamespaceVersion
<1>2. y \in NamespaceVersion
  BY <1>1 DEF NamespaceVersion
<1>3. nsObj' = [nsObj EXCEPT ![n] = y] /\ nsWatch' = [nsWatch EXCEPT ![n] = Append(@, y)]
  BY DEF NsWrite
<1> HIDE DEF y
<1> QED BY <1>2, <1>3 DEF TypeOK

LEMMA ObjWriteType ==
    ASSUME TypeOK, NEW n \in Namespace, NEW o \in Object,
           NEW v \in Template \cup {Absent, Tampered},
           ObjWrite(PlaceOf(n, o), v)
    PROVE  /\ obj' \in [Place -> Template \cup {Absent, Tampered}]
           /\ childEvents' \subseteq Namespace
<1>1. PlaceOf(n, o) \in Place
  BY PlaceType
<1>2. PlaceOf(n, o)[2] = o
  BY DEF PlaceOf
<1>3. o \in Watched => PlaceOf(n, o)[1] = n
  BY TemplatesAssumption DEF PlaceOf
<1> QED BY <1>1, <1>2, <1>3 DEF ObjWrite, TypeOK

LEMMA RequeueType ==
    ASSUME TypeOK, pass # IdlePass, Requeue
    PROVE  pass' \in {IdlePass} \cup BusyPass /\ delayed' \subseteq Namespace
BY PassIsBusy DEF Requeue, TypeOK, BusyPass

\* An update of the version x, after which the pass is p.
LEMMA UpdateNsType ==
    ASSUME TypeOK, pass # IdlePass, NEW x \in NamespaceVersion, NEW p,
           Fresh(x) => p \in {IdlePass} \cup BusyPass,
           UpdateNs(x, p)
    PROVE  /\ nsObj' \in [Namespace -> NamespaceVersion]
           /\ nsWatch' \in [Namespace -> Seq(NamespaceVersion)]
           /\ pass' \in {IdlePass} \cup BusyPass
           /\ delayed' \subseteq Namespace
<1>1. pass.n \in Namespace
  BY PassIsBusy DEF BusyPass
<1>2. CASE Fresh(x) /\ StoreNs(x) /\ pass' = p /\ UNCHANGED delayed
  <2>1. CASE UNCHANGED <<nsObj, nsWatch>>
    BY <1>2, <2>1 DEF TypeOK
  <2>2. CASE NsWrite(pass.n, x)
    BY <1>1, <1>2, <2>2, NsWriteType DEF TypeOK
  <2> QED BY <1>2, <2>1, <2>2 DEF StoreNs
<1>3. CASE Requeue /\ UNCHANGED <<nsObj, nsWatch>>
  BY <1>3, RequeueType DEF TypeOK
<1> QED BY <1>2, <1>3 DEF UpdateNs

LEMMA StoredType ==
    ASSUME TypeOK, NEW x \in NamespaceVersion
    PROVE  Stored(x) \in NamespaceVersion
BY DEF Stored, NamespaceVersion

-----------------------------------------------------------------------------
\* Type correctness, action by action.

LEMMA TypeInit == Init => TypeOK
<1> SUFFICES ASSUME Init PROVE TypeOK
  OBVIOUS
<1>1. \A l \in MaybeClass : NewNamespace(l, 1) \in NamespaceVersion
  BY DEF NewNamespace, NamespaceVersion, MaybeClass
<1>2. NoClass \in MaybeClass
  BY DEF MaybeClass
<1>3. NoInventory \in Inventory
  BY DEF Inventory
<1>4. IdlePass.pc # "getClass"
  BY DEF IdlePass
<1> QED BY <1>1, <1>2, <1>3, <1>4, BoundsAssumption DEF Init, TypeOK

LEMMA TypeTake ==
    ASSUME TypeOK, NEW n \in Namespace, Take(n)
    PROVE  TypeOK'
<1>1. StartPass(n, nsCache[n]) \in BusyPass
  BY DEF TypeOK, StartPass, BusyPass, Steps
<1>2. StartPass(n, nsCache[n]).pc = "getClass" =>
         StartPass(n, nsCache[n]).copy.label # NoClass
  BY DEF StartPass
<1>3. IdlePass.pc # "getClass"
  BY DEF IdlePass
<1> QED BY <1>1, <1>2, <1>3 DEF Take, TypeOK, server, caches, events, bounds

LEMMA TypeHoldCleared ==
    ASSUME NEW x \in NamespaceVersion
    PROVE  HoldCleared(x) \in NamespaceVersion
BY DEF HoldCleared, NamespaceVersion

LEMMA TypeGetNamespaceClassSpec ==
    ASSUME TypeOK, GetNamespaceClassSpec
    PROVE  TypeOK'
<1>1. pass \in BusyPass
  BY StepIsBusy DEF GetNamespaceClassSpec, Steps
<1>2. HoldCleared(pass.copy) \in NamespaceVersion
  BY <1>1, TypeHoldCleared DEF BusyPass
<1>3. Absent \notin ClassContents
  BY NamesAssumption
<1>4. class[pass.copy.label] \in ClassContents \cup {Absent}
  BY <1>1 DEF GetNamespaceClassSpec, TypeOK, BusyPass, NamespaceVersion, MaybeClass
<1>5. pass' \in BusyPass /\ pass'.pc # "getClass"
  <2> DEFINE x == class[pass.copy.label]
  <2> HIDE DEF x
  <2>1. CASE x = Absent /\ pass' = [pass EXCEPT !.pc = "apply"]
    BY <1>1, <2>1 DEF BusyPass, Steps
  <2>2. CASE x # Absent /\ pass' = [pass EXCEPT !.spec = x, !.pc = "drift"]
    BY <1>1, <1>4, <2>2 DEF BusyPass, Steps, x
  <2>3. CASE x # Absent /\ pass' = [pass EXCEPT !.spec = x, !.copy = HoldCleared(@),
                                                !.pc = "heldFalse"]
    BY <1>1, <1>2, <1>4, <2>3 DEF BusyPass, Steps, x
  <2> QED BY <2>1, <2>2, <2>3 DEF GetNamespaceClassSpec, Goto, x
<1> QED BY <1>5 DEF GetNamespaceClassSpec, TypeOK, server, caches, events, bounds

LEMMA TypeHasTemplateDrift ==
    ASSUME TypeOK, HasTemplateDrift
    PROVE  TypeOK'
<1>1. pass \in BusyPass
  BY StepIsBusy DEF HasTemplateDrift, Steps
<1>2. \/ pass' = [pass EXCEPT !.i = 1, !.pc = "hold"]
      \/ pass' = [pass EXCEPT !.i = @ + 1]
  BY DEF HasTemplateDrift
<1>3. pass.pc = "drift"
  BY DEF HasTemplateDrift
<1>4. pass' \in BusyPass /\ pass'.pc # "getClass"
  <2>1. pass.i + 1 \in Nat \ {0} /\ 1 \in Nat \ {0}
    BY <1>1 DEF BusyPass
  <2>2. \A i \in Nat \ {0}, pc \in Steps :
           /\ [pass EXCEPT !.i = i, !.pc = pc] \in BusyPass
           /\ [pass EXCEPT !.i = i] \in BusyPass
    BY <1>1 DEF BusyPass
  <2>3. pass' \in BusyPass
    BY <1>2, <2>1, <2>2 DEF Steps
  <2>4. pass'.pc # "getClass"
    BY <1>1, <1>2, <1>3 DEF BusyPass
  <2> QED BY <2>3, <2>4
<1> QED BY <1>4 DEF HasTemplateDrift, TypeOK, server, caches, events, bounds

LEMMA TypeClearHold ==
    ASSUME TypeOK, ClearHold
    PROVE  TypeOK'
<1> DEFINE x == HoldCleared(pass.copy)
           p == [pass EXCEPT !.copy = Stored(x), !.i = 1, !.pc = "heldFalse"]
<1>1. pass \in BusyPass /\ pass # IdlePass
  BY StepIsBusy DEF ClearHold, Steps
<1>2. x \in NamespaceVersion
  BY <1>1, TypeHoldCleared DEF BusyPass
<1> HIDE DEF x
<1>3. p \in BusyPass /\ p.pc # "getClass"
  <2>1. Stored(x) \in NamespaceVersion /\ "heldFalse" \in Steps
    BY <1>2, StoredType DEF Steps
  <2>2. p \in BusyPass
    <3>1. \A y \in NamespaceVersion, i \in Nat \ {0}, pc \in Steps :
             [pass EXCEPT !.copy = y, !.i = i, !.pc = pc] \in BusyPass
      BY <1>1 DEF BusyPass
    <3>2. 1 \in Nat \ {0}
      OBVIOUS
    <3> QED BY <2>1, <3>1, <3>2
  <2>3. p.pc = "heldFalse"
    BY <1>1 DEF BusyPass
  <2> QED BY <2>2, <2>3
<1>4. UpdateNs(x, p)
  BY DEF ClearHold, x
<1> HIDE DEF p
<1>5. pass'.pc # "getClass"
  BY <1>3, <1>4 DEF UpdateNs, Requeue, IdlePass
<1>6. /\ nsObj' \in [Namespace -> NamespaceVersion]
      /\ nsWatch' \in [Namespace -> Seq(NamespaceVersion)]
      /\ pass' \in {IdlePass} \cup BusyPass
      /\ delayed' \subseteq Namespace
  BY <1>1, <1>2, <1>3, <1>4, UpdateNsType
<1> QED BY <1>5, <1>6 DEF ClearHold, TypeOK, events, bounds

LEMMA TypeStartHold ==
    ASSUME TypeOK, StartHold
    PROVE  TypeOK'
<1> DEFINE x == [pass.copy EXCEPT !.until = pass.copy.rv + 1, !.used = TRUE]
           p == [pass EXCEPT !.copy = Stored(x), !.pc = "heldTrue"]
<1>1. pass \in BusyPass /\ pass # IdlePass
  BY StepIsBusy DEF StartHold, Steps
<1>2. x \in NamespaceVersion
  <2>1. pass.copy \in NamespaceVersion /\ pass.copy.rv + 1 \in Nat
    BY <1>1 DEF BusyPass, NamespaceVersion
  <2> QED BY <2>1 DEF NamespaceVersion
<1> HIDE DEF x
<1>3. p \in BusyPass /\ p.pc # "getClass"
  BY <1>1, <1>2, StoredType DEF BusyPass, Steps
<1>4. UpdateNs(x, p)
  BY DEF StartHold, x
<1> HIDE DEF p
<1>5. pass'.pc # "getClass"
  BY <1>3, <1>4 DEF UpdateNs, Requeue, IdlePass
<1>6. /\ open' \in [Namespace -> SUBSET Nat]
      /\ marked' \in [Namespace -> MaybeClass]
  <2>1. x.until \in Nat /\ x.label \in MaybeClass
    BY <1>2 DEF NamespaceVersion
  <2>2. \/ /\ open' = [open EXCEPT ![pass.n] = @ \cup {x.until}]
           /\ marked' = [marked EXCEPT ![pass.n] = x.label]
        \/ UNCHANGED <<open, marked>>
    BY DEF StartHold, x
  <2>3. CASE UNCHANGED <<open, marked>>
    BY <2>3 DEF TypeOK
  <2>4. CASE /\ open' = [open EXCEPT ![pass.n] = @ \cup {x.until}]
             /\ marked' = [marked EXCEPT ![pass.n] = x.label]
    <3>1. pass.n \in Namespace
      BY <1>1 DEF BusyPass
    <3> QED BY <2>1, <2>4, <3>1 DEF TypeOK
  <2> QED BY <2>2, <2>3, <2>4
<1>7. /\ nsObj' \in [Namespace -> NamespaceVersion]
      /\ nsWatch' \in [Namespace -> Seq(NamespaceVersion)]
      /\ pass' \in {IdlePass} \cup BusyPass
      /\ delayed' \subseteq Namespace
  BY <1>1, <1>2, <1>3, <1>4, UpdateNsType
<1> QED BY <1>5, <1>6, <1>7 DEF StartHold, TypeOK, events, bounds

LEMMA TypeKeepOrEndHold ==
    ASSUME TypeOK, KeepOrEndHold
    PROVE  TypeOK'
<1>1. pass \in BusyPass
  BY StepIsBusy DEF KeepOrEndHold, Steps
<1>2. pass' \in BusyPass /\ pass'.pc # "getClass"
  BY <1>1 DEF KeepOrEndHold, Goto, BusyPass, Steps
<1> QED BY <1>2 DEF KeepOrEndHold, TypeOK, server, caches, events, bounds

LEMMA TypeSetCondition ==
    ASSUME TypeOK, SetClassAutoHealHeldCondition
    PROVE  TypeOK'
<1>1. pass \in BusyPass
  BY StepIsBusy DEF SetClassAutoHealHeldCondition, Steps
<1>2. pass' \in BusyPass /\ pass'.pc # "getClass"
  BY <1>1 DEF SetClassAutoHealHeldCondition, Goto, BusyPass, Steps
<1>3. heldCond' \in [Class -> {"Unset", "True", "False"}]
  BY DEF SetClassAutoHealHeldCondition, TypeOK
<1> QED BY <1>2, <1>3 DEF SetClassAutoHealHeldCondition, TypeOK, caches, events, bounds

\* The loop over resources stands at one of its templates.
LEMMA ThisTemplateType ==
    ASSUME TypeOK, pass \in BusyPass, ~AllDone
    PROVE  ThisTemplate \in Template
<1>1. pass.spec.res \in Seq(Template)
  <2>1. NoContents.res \in Seq(Template)
    BY DEF NoContents
  <2>2. pass.spec \in ClassContents => pass.spec.res \in Seq(Template)
    BY ContentsAssumption
  <2> QED BY <2>1, <2>2 DEF BusyPass
<1>2. pass.i \in 1..Len(pass.spec.res)
  BY <1>1 DEF BusyPass, AllDone
<1> QED BY <1>1, <1>2 DEF ThisTemplate

LEMMA TypeApplyClassResource ==
    ASSUME TypeOK, ApplyClassResource
    PROVE  TypeOK'
<1>1. pass \in BusyPass /\ pass # IdlePass
  BY StepIsBusy DEF ApplyClassResource, Steps
<1>2. ThisTemplate \in Template
  BY <1>1, ThisTemplateType DEF ApplyClassResource
<1>3. RefOf[ThisTemplate] \in Ref /\ Target(ThisTemplate) \in Object
  BY <1>2, TargetType
<1>4. CASE Requeue /\ UNCHANGED <<obj, childEvents>>
  <2>1. pass'.pc # "getClass"
    BY <1>4 DEF Requeue, IdlePass
  <2> QED BY <1>1, <1>4, <2>1, RequeueType DEF ApplyClassResource, TypeOK, caches, bounds
<1>5. CASE /\ ObjWrite(PlaceOf(pass.n, Target(ThisTemplate)), ThisTemplate)
           /\ pass' = [pass EXCEPT !.refs = @ \cup {RefOf[ThisTemplate]}, !.i = @ + 1]
           /\ UNCHANGED delayed
  <2>1. /\ obj' \in [Place -> Template \cup {Absent, Tampered}]
        /\ childEvents' \subseteq Namespace
    BY <1>1, <1>2, <1>3, <1>5, ObjWriteType DEF BusyPass
  <2>2. pass' \in BusyPass /\ pass'.pc # "getClass"
    <3>1. pass.pc = "apply"
      BY DEF ApplyClassResource
    <3>2. RefOf[ThisTemplate] \in Ref
      BY <1>3
    <3>3. pass.i + 1 \in Nat \ {0} /\ pass.refs \cup {RefOf[ThisTemplate]} \in SUBSET Ref
      BY <1>1, <3>2 DEF BusyPass
    <3>4. \A i \in Nat \ {0}, R \in SUBSET Ref :
             [pass EXCEPT !.refs = R, !.i = i] \in BusyPass
      BY <1>1 DEF BusyPass
    <3>5. pass' = [pass EXCEPT !.refs = pass.refs \cup {RefOf[ThisTemplate]},
                               !.i = pass.i + 1]
      BY <1>5
    <3>6. pass' \in BusyPass
      BY <3>3, <3>4, <3>5
    <3>7. pass'.pc # "getClass"
      BY <1>1, <3>1, <3>5 DEF BusyPass
    <3> QED BY <3>6, <3>7
  <2> QED BY <1>5, <2>1, <2>2 DEF ApplyClassResource, TypeOK, caches, bounds
<1> QED BY <1>4, <1>5 DEF ApplyClassResource

LEMMA TypeReadInventory ==
    ASSUME TypeOK, ReadInventory
    PROVE  TypeOK'
<1>1. pass \in BusyPass
  BY StepIsBusy DEF ReadInventory, Steps
<1>2. Listed(invCache[pass.n]) \in SUBSET Ref
  BY <1>1 DEF Listed, TypeOK, BusyPass, Inventory
<1>3. pass' \in BusyPass /\ pass'.pc # "getClass"
  BY <1>1, <1>2 DEF ReadInventory, BusyPass, Steps
<1> QED BY <1>3 DEF ReadInventory, TypeOK, server, caches, events, bounds

LEMMA TypeDeleteRemovedResource ==
    ASSUME TypeOK, NEW r \in Ref, DeleteRemovedResource(r)
    PROVE  TypeOK'
<1>1. pass \in BusyPass
  BY StepIsBusy DEF DeleteRemovedResource, Steps
<1>2. ObjectOf[r] \in Object
  BY TemplatesAssumption
<1>3. /\ obj' \in [Place -> Template \cup {Absent, Tampered}]
      /\ childEvents' \subseteq Namespace
  BY <1>1, <1>2, ObjWriteType DEF BusyPass, DeleteRemovedResource
<1>4. pass' \in BusyPass /\ pass'.pc # "getClass"
  BY <1>1 DEF DeleteRemovedResource, BusyPass
<1> QED BY <1>3, <1>4 DEF DeleteRemovedResource, TypeOK, caches, bounds

LEMMA TypeWriteInventory ==
    ASSUME TypeOK, WriteInventory
    PROVE  TypeOK'
<1>1. pass \in BusyPass /\ pass # IdlePass
  BY StepIsBusy DEF WriteInventory, Steps
<1>2. CASE Requeue /\ UNCHANGED <<inv, invWatch>>
  <2>1. pass'.pc # "getClass"
    BY <1>2 DEF Requeue, IdlePass
  <2> QED BY <1>1, <1>2, <2>1, RequeueType DEF WriteInventory, TypeOK, events, bounds
<1>3. CASE /\ inv' = [inv EXCEPT ![pass.n] = pass.refs]
           /\ invWatch' = IF inv[pass.n] = pass.refs THEN invWatch
                            ELSE [invWatch EXCEPT ![pass.n] = <<pass.refs>>]
           /\ Goto("switch")
           /\ UNCHANGED delayed
  <2>1. pass.n \in Namespace /\ pass.refs \in Inventory /\ <<pass.refs>> \in Seq(Inventory)
    BY <1>1 DEF BusyPass, Inventory
  <2>2. inv' \in [Namespace -> Inventory] /\ invWatch' \in [Namespace -> Seq(Inventory)]
    BY <1>3, <2>1 DEF TypeOK
  <2>3. pass' \in BusyPass /\ pass'.pc # "getClass"
    BY <1>1, <1>3 DEF Goto, BusyPass, Steps
  <2> QED BY <1>3, <2>2, <2>3 DEF WriteInventory, TypeOK, events, bounds
<1> QED BY <1>2, <1>3 DEF WriteInventory

LEMMA TypeSwitched ==
    ASSUME NEW x \in NamespaceVersion
    PROVE  Switched(x) \in NamespaceVersion
BY DEF Switched, NamespaceVersion

LEMMA TypeUpdateSwitchAnnotations ==
    ASSUME TypeOK, UpdateSwitchAnnotations
    PROVE  TypeOK'
<1>1. pass \in BusyPass /\ pass # IdlePass
  BY StepIsBusy DEF UpdateSwitchAnnotations, Steps
<1>2. IdlePass.pc # "getClass"
  BY DEF IdlePass
<1>3. CASE pass' = IdlePass /\ UNCHANGED <<nsObj, nsWatch, delayed>>
  BY <1>2, <1>3 DEF UpdateSwitchAnnotations, TypeOK, events, bounds
<1>4. CASE UpdateNs(Switched(pass.copy), IdlePass)
  <2>1. Switched(pass.copy) \in NamespaceVersion
    BY <1>1, TypeSwitched DEF BusyPass
  <2>2. /\ nsObj' \in [Namespace -> NamespaceVersion]
        /\ nsWatch' \in [Namespace -> Seq(NamespaceVersion)]
        /\ pass' \in {IdlePass} \cup BusyPass
        /\ delayed' \subseteq Namespace
    BY <1>1, <1>4, <2>1, UpdateNsType
  <2>3. pass' = IdlePass
    BY <1>4 DEF UpdateNs, Requeue
  <2> QED BY <1>2, <2>2, <2>3 DEF UpdateSwitchAnnotations, TypeOK, events, bounds
<1> QED BY <1>3, <1>4 DEF UpdateSwitchAnnotations

LEMMA TypeUpdateSwitchAnnotationsHeld ==
    ASSUME TypeOK, UpdateSwitchAnnotationsHeld
    PROVE  TypeOK'
<1>1. pass \in BusyPass /\ pass # IdlePass
  BY StepIsBusy DEF UpdateSwitchAnnotationsHeld, Steps
<1>2. pass' = IdlePass /\ IdlePass.pc # "getClass" /\ delayed' \subseteq Namespace
  BY <1>1, RequeueType DEF UpdateSwitchAnnotationsHeld, RequeueAfter, Requeue, IdlePass
<1>3. Switched(pass.copy) \in NamespaceVersion /\ pass.n \in Namespace
  BY <1>1, TypeSwitched DEF BusyPass
<1>4. \/ UNCHANGED <<nsObj, nsWatch>>
      \/ NsWrite(pass.n, Switched(pass.copy))
  BY DEF UpdateSwitchAnnotationsHeld, StoreNs
<1>5. /\ nsObj' \in [Namespace -> NamespaceVersion]
      /\ nsWatch' \in [Namespace -> Seq(NamespaceVersion)]
  BY <1>3, <1>4, NsWriteType DEF TypeOK
<1> QED BY <1>2, <1>5 DEF UpdateSwitchAnnotationsHeld, TypeOK, events, bounds

\* Faults and edits stay within their bounds.
LEMMA FaultType ==
    ASSUME TypeOK, NEW kind, Fault(kind)
    PROVE  faults' \in 0..MaxFaults
BY BoundsAssumption DEF Fault, TypeOK

LEMMA EditType ==
    ASSUME TypeOK, Edit
    PROVE  edits' \in 0..MaxEdits
BY BoundsAssumption DEF Edit, TypeOK

LEMMA TypeReconcile == TypeOK /\ Reconcile => TypeOK'
BY TypeGetNamespaceClassSpec, TypeHasTemplateDrift, TypeClearHold, TypeStartHold,
   TypeKeepOrEndHold, TypeSetCondition, TypeApplyClassResource, TypeReadInventory,
   TypeDeleteRemovedResource, TypeWriteInventory, TypeUpdateSwitchAnnotations,
   TypeUpdateSwitchAnnotationsHeld
   DEF Reconcile

LEMMA TypeFailure == TypeOK /\ Failure => TypeOK'
<1> SUFFICES ASSUME TypeOK, Failure PROVE TypeOK'
  OBVIOUS
<1>1. CASE ApiFails
  <2>1. pass \in BusyPass /\ pass # IdlePass
    BY <1>1, StepIsBusy DEF ApiFails, CallPending, Steps
  <2>2. pass' = IdlePass /\ IdlePass.pc # "getClass" /\ delayed' \subseteq Namespace
    BY <1>1, <2>1, RequeueType DEF ApiFails, Requeue, IdlePass
  <2>3. faults' \in 0..MaxFaults
    BY <1>1, FaultType DEF ApiFails
  <2> QED BY <1>1, <2>2, <2>3 DEF ApiFails, TypeOK, server, caches, events
<1>2. CASE ConditionFails
  <2>1. pass \in BusyPass
    BY <1>2, StepIsBusy DEF ConditionFails, Steps
  <2>2. pass' \in BusyPass /\ pass'.pc # "getClass"
    BY <1>2, <2>1 DEF ConditionFails, Goto, BusyPass, Steps
  <2>3. faults' \in 0..MaxFaults
    BY <1>2, FaultType DEF ConditionFails
  <2> QED BY <1>2, <2>2, <2>3 DEF ConditionFails, TypeOK, server, caches, events
<1>3. CASE Restart
  <2>1. faults' \in 0..MaxFaults
    BY <1>3, FaultType DEF Restart
  <2>2. /\ nsWatch' \in [Namespace -> Seq(NamespaceVersion)]
        /\ invWatch' \in [Namespace -> Seq(Inventory)]
    BY <1>3 DEF Restart
  <2>3. pass' = IdlePass /\ IdlePass.pc # "getClass"
    BY <1>3 DEF Restart, IdlePass
  <2> QED BY <1>3, <2>1, <2>2, <2>3 DEF Restart, TypeOK, server
<1>4. ASSUME NEW r \in Ref, SkipUnmappedResource(r) PROVE TypeOK'
  <2>1. pass \in BusyPass
    BY <1>4, StepIsBusy DEF SkipUnmappedResource, Steps
  <2>2. pass' \in BusyPass /\ pass'.pc # "getClass"
    BY <1>4, <2>1 DEF SkipUnmappedResource, BusyPass
  <2>3. faults' \in 0..MaxFaults
    BY <1>4, FaultType DEF SkipUnmappedResource
  <2> QED BY <1>4, <2>2, <2>3 DEF SkipUnmappedResource, TypeOK, server, caches, events
<1> QED BY <1>1, <1>2, <1>3, <1>4 DEF Failure

LEMMA TypeDeliver == TypeOK /\ Deliver => TypeOK'
<1> SUFFICES ASSUME TypeOK, Deliver PROVE TypeOK'
  OBVIOUS
<1>1. ASSUME NEW n \in Namespace, DeliverNamespace(n) PROVE TypeOK'
  <2>1. Head(nsWatch[n]) \in NamespaceVersion /\ Tail(nsWatch[n]) \in Seq(NamespaceVersion)
    BY <1>1 DEF DeliverNamespace, TypeOK
  <2>2. /\ nsCache' \in [Namespace -> NamespaceVersion]
        /\ nsWatch' \in [Namespace -> Seq(NamespaceVersion)]
        /\ queue' \subseteq Namespace
    BY <1>1, <2>1 DEF DeliverNamespace, Enqueue, TypeOK
  <2> QED BY <1>1, <2>2 DEF DeliverNamespace, TypeOK, server, events, bounds
<1>2. ASSUME NEW n \in Namespace, DeliverInventory(n) PROVE TypeOK'
  <2>1. Head(invWatch[n]) \in Inventory /\ Tail(invWatch[n]) \in Seq(Inventory)
    BY <1>2 DEF DeliverInventory, TypeOK
  <2>2. /\ invCache' \in [Namespace -> Inventory]
        /\ invWatch' \in [Namespace -> Seq(Inventory)]
    BY <1>2, <2>1 DEF DeliverInventory, TypeOK
  <2> QED BY <1>2, <2>2 DEF DeliverInventory, TypeOK, server, events, bounds
<1>3. ASSUME NEW n \in Namespace, DeliverChild(n) \/ RetryFires(n) \/ Resync(n) PROVE TypeOK'
  BY <1>3 DEF DeliverChild, RetryFires, Resync, Enqueue, TypeOK, server, caches, events, bounds
<1>4. ASSUME NEW n \in Namespace, NEW k \in open[n], WindowElapses(n, k) PROVE TypeOK'
  <2>1. open' \in [Namespace -> SUBSET Nat]
    BY <1>4 DEF WindowElapses, TypeOK
  <2> QED BY <1>4, <2>1 DEF WindowElapses, TypeOK, caches, events, bounds
<1>5. ASSUME NEW c \in Class, DeliverClass(c) PROVE TypeOK'
  BY <1>5 DEF DeliverClass, MapClassToNamespaces, Enqueue, TypeOK, server, caches, bounds
<1> QED BY <1>1, <1>2, <1>3, <1>4, <1>5 DEF Deliver

LEMMA TypeUsers == TypeOK /\ Users => TypeOK'
<1> SUFFICES ASSUME TypeOK, Users PROVE TypeOK'
  OBVIOUS
<1>1. ASSUME NEW n \in Namespace, NEW l \in MaybeClass, Relabel(n, l) PROVE TypeOK'
  <2> DEFINE x == [nsObj[n] EXCEPT !.label = l]
  <2>1. x \in NamespaceVersion
    <3>1. nsObj[n] \in NamespaceVersion
      BY DEF TypeOK
    <3> QED BY <3>1 DEF NamespaceVersion, MaybeClass
  <2>2. Edit /\ NsWrite(n, x)
    BY <1>1 DEF Relabel
  <2> HIDE DEF x
  <2>3. /\ nsObj' \in [Namespace -> NamespaceVersion]
        /\ nsWatch' \in [Namespace -> Seq(NamespaceVersion)]
        /\ edits' \in 0..MaxEdits
    BY <2>1, <2>2, NsWriteType, EditType
  <2> QED BY <1>1, <2>3 DEF Relabel, TypeOK, events
<1>2. ASSUME NEW n \in Namespace, NEW l \in MaybeClass, CreateNamespace(n, l) PROVE TypeOK'
  <2>1. NewNamespace(l, nsObj[n].rv) \in NamespaceVersion
    BY DEF TypeOK, NamespaceVersion, NewNamespace, MaybeClass
  <2>2. /\ nsObj' \in [Namespace -> NamespaceVersion]
        /\ nsWatch' \in [Namespace -> Seq(NamespaceVersion)]
        /\ edits' \in 0..MaxEdits
    BY <1>2, <2>1, NsWriteType, EditType DEF CreateNamespace
  <2> QED BY <1>2, <2>2 DEF CreateNamespace, TypeOK, events
<1>3. ASSUME NEW n \in Namespace, RollBackSwitch(n) PROVE TypeOK'
  <2> DEFINE x == [nsObj[n] EXCEPT !.label = nsObj[n].prev, !.last = nsObj[n].prev,
                                    !.prev = NoClass]
  <2>1. x \in NamespaceVersion
    <3>1. nsObj[n] \in NamespaceVersion
      BY DEF TypeOK
    <3> QED BY <3>1 DEF NamespaceVersion, MaybeClass
  <2>2. Edit /\ NsWrite(n, x)
    BY <1>3 DEF RollBackSwitch
  <2> HIDE DEF x
  <2>3. /\ nsObj' \in [Namespace -> NamespaceVersion]
        /\ nsWatch' \in [Namespace -> Seq(NamespaceVersion)]
        /\ edits' \in 0..MaxEdits
    BY <2>1, <2>2, NsWriteType, EditType
  <2> QED BY <1>3, <2>3 DEF RollBackSwitch, TypeOK, events
<1>4. ASSUME NEW n \in Namespace, DeleteNamespace(n) PROVE TypeOK'
  <2>1. NoNamespace(nsObj[n].rv) \in NamespaceVersion
    BY DEF TypeOK, NamespaceVersion, NoNamespace, NewNamespace, MaybeClass
  <2>2. /\ nsObj' \in [Namespace -> NamespaceVersion]
        /\ nsWatch' \in [Namespace -> Seq(NamespaceVersion)]
        /\ edits' \in 0..MaxEdits
    BY <1>4, <2>1, NsWriteType, EditType DEF DeleteNamespace
  <2>3. NoInventory \in Inventory
    BY DEF Inventory
  <2>4. /\ inv' \in [Namespace -> Inventory]
        /\ invWatch' \in [Namespace -> Seq(Inventory)]
    BY <1>4, <2>3 DEF DeleteNamespace, TypeOK
  <2>5. /\ obj' \in [Place -> Template \cup {Absent, Tampered}]
        /\ childEvents' \subseteq Namespace
    BY <1>4 DEF DeleteNamespace, TypeOK
  <2> QED BY <1>4, <2>2, <2>4, <2>5 DEF DeleteNamespace, TypeOK
<1>5. ASSUME NEW c \in Class, NEW x \in ClassContents \cup {Absent}, EditClass(c, x)
      PROVE  TypeOK'
  <2>1. /\ class' \in [Class -> ClassContents \cup {Absent}]
        /\ heldCond' \in [Class -> {"Unset", "True", "False"}]
        /\ classEvents' \subseteq Class
        /\ edits' \in 0..MaxEdits
    BY <1>5, EditType DEF EditClass, TypeOK
  <2> QED BY <1>5, <2>1 DEF EditClass, TypeOK, caches
<1>6. ASSUME NEW p \in Place, NEW v \in {Absent, Tampered}, DriftObject(p, v)
      PROVE  TypeOK'
  <2>1. PICK n \in Namespace, o \in Object : p = PlaceOf(n, o)
    BY DEF Place
  <2>2. /\ obj' \in [Place -> Template \cup {Absent, Tampered}]
        /\ childEvents' \subseteq Namespace
    BY <1>6, <2>1, ObjWriteType DEF DriftObject
  <2>3. edits' \in 0..MaxEdits
    BY <1>6, EditType DEF DriftObject
  <2> QED BY <1>6, <2>2, <2>3 DEF DriftObject, TypeOK, caches
<1> QED BY <1>1, <1>2, <1>3, <1>4, <1>5, <1>6 DEF Users

LEMMA TypeStep == TypeOK /\ [Next]_vars => TypeOK'
<1>1. TypeOK /\ UNCHANGED vars => TypeOK'
  BY DEF TypeOK, vars
<1> QED BY <1>1, TypeTake, TypeReconcile, TypeFailure, TypeDeliver, TypeUsers
        DEF Next, Controller

\* Every reachable state has the declared types; in particular a pass reads a
\* class only for a Namespace that names one (the guard of Reconcile on
\* desiredClass).
THEOREM TypeCorrect == Spec => []TypeOK
BY TypeInit, TypeStep, PTL DEF Spec

-----------------------------------------------------------------------------
\* Versions.  The inductive invariant behind optimistic concurrency: every
\* version the controller holds is one the server had, so a version with the
\* number of the server's is the server's.

Older(x, y) == x.rv <= y.rv /\ (x.rv = y.rv => x = y)

CacheVersions ==
    \A n \in Namespace :
        /\ Older(nsCache[n], nsObj[n])
        /\ \A i \in 1..Len(nsWatch[n]) : Older(nsWatch[n][i], nsObj[n])

\* The copy of a pass, on which a pass of a class without a hold may have
\* cleared the hold annotations without writing them back.
CopyVersion ==
    pass # IdlePass =>
        /\ pass.copy.rv <= nsObj[pass.n].rv
        /\ pass.copy.rv = nsObj[pass.n].rv =>
              \/ pass.copy = nsObj[pass.n]
              \/ /\ pass.copy = HoldCleared(nsObj[pass.n])
                 /\ ~pass.spec.hold
                 /\ pass.pc \in {"heldFalse", "apply", "delete", "switch"}

Versions == CacheVersions /\ CopyVersion

LEMMA NsWriteFacts ==
    ASSUME TypeOK, NEW n \in Namespace, NEW x \in NamespaceVersion, NsWrite(n, x)
    PROVE  /\ nsObj'[n] = [x EXCEPT !.rv = nsObj[n].rv + 1]
           /\ nsObj'[n].rv = nsObj[n].rv + 1
           /\ nsObj'[n].label = x.label
           /\ nsObj'[n].last = x.last
           /\ nsObj'[n].prev = x.prev
           /\ nsObj'[n].until = x.until
           /\ nsObj'[n].used = x.used
           /\ nsObj'[n].exists = x.exists
           /\ \A m \in Namespace \ {n} : nsObj'[m] = nsObj[m]
           /\ nsWatch'[n] = Append(nsWatch[n], nsObj'[n])
           /\ \A m \in Namespace \ {n} : nsWatch'[m] = nsWatch[m]
<1> DEFINE y == [x EXCEPT !.rv = nsObj[n].rv + 1]
<1>1. /\ y.rv = nsObj[n].rv + 1
      /\ y.label = x.label
      /\ y.last = x.last
      /\ y.prev = x.prev
      /\ y.until = x.until
      /\ y.used = x.used
      /\ y.exists = x.exists
  BY DEF NamespaceVersion
<1>2. nsObj' = [nsObj EXCEPT ![n] = y] /\ nsWatch' = [nsWatch EXCEPT ![n] = Append(@, y)]
  BY DEF NsWrite
<1>3. nsObj'[n] = y
  BY <1>2 DEF TypeOK
<1> HIDE DEF y
<1>4. /\ nsWatch'[n] = Append(nsWatch[n], y)
      /\ \A m \in Namespace \ {n} : nsObj'[m] = nsObj[m] /\ nsWatch'[m] = nsWatch[m]
  BY <1>2 DEF TypeOK
<1> QED BY <1>1, <1>3, <1>4 DEF y

LEMMA NsWriteCache ==
    ASSUME TypeOK, CacheVersions, NEW n \in Namespace, NEW x \in NamespaceVersion,
           NsWrite(n, x), UNCHANGED nsCache
    PROVE  CacheVersions'
<1> SUFFICES ASSUME NEW m \in Namespace
             PROVE  /\ Older(nsCache[m], nsObj'[m])
                    /\ \A i \in 1..Len(nsWatch'[m]) : Older(nsWatch'[m][i], nsObj'[m])
  BY DEF CacheVersions, Older
<1>1. CASE m # n
  <2>1. nsObj'[m] = nsObj[m] /\ nsWatch'[m] = nsWatch[m]
    BY <1>1, NsWriteFacts
  <2> QED BY <2>1 DEF CacheVersions, Older
<1>2. CASE m = n
  <2>1. nsObj'[n].rv = nsObj[n].rv + 1 /\ nsWatch'[n] = Append(nsWatch[n], nsObj'[n])
    BY NsWriteFacts
  <2>2. nsWatch[n] \in Seq(NamespaceVersion) /\ nsObj[n].rv \in Nat /\ nsCache[n].rv \in Nat
    BY DEF TypeOK, NamespaceVersion
  <2>3. ASSUME NEW z, z.rv \in Nat, Older(z, nsObj[n])
        PROVE  Older(z, nsObj'[n])
    BY <2>1, <2>2, <2>3 DEF Older
  <2>4. Older(nsCache[n], nsObj'[n])
    BY <2>2, <2>3 DEF CacheVersions
  <2>5. ASSUME NEW i \in 1..Len(nsWatch'[n])
        PROVE  Older(nsWatch'[n][i], nsObj'[n])
    <3>1. CASE i \in 1..Len(nsWatch[n])
      <4>1. nsWatch'[n][i] = nsWatch[n][i] /\ nsWatch[n][i] \in NamespaceVersion
        BY <2>1, <2>2, <3>1
      <4>2. nsWatch[n][i].rv \in Nat
        BY <4>1 DEF NamespaceVersion
      <4>3. Older(nsWatch[n][i], nsObj[n])
        BY <3>1 DEF CacheVersions
      <4> QED BY <2>3, <4>1, <4>2, <4>3
    <3>2. CASE i = Len(nsWatch[n]) + 1
      <4>1. nsWatch'[n][i] = nsObj'[n]
        BY <2>1, <2>2, <3>2
      <4> QED BY <2>1, <2>2, <4>1 DEF Older
    <3> QED BY <2>1, <2>2, <2>5, <3>1, <3>2
  <2> QED BY <1>2, <2>4, <2>5
<1> QED BY <1>1, <1>2

LEMMA NsWriteCopy ==
    ASSUME TypeOK, CopyVersion, NEW n \in Namespace, NEW x \in NamespaceVersion,
           NsWrite(n, x), UNCHANGED pass
    PROVE  CopyVersion'
<1> SUFFICES ASSUME pass # IdlePass PROVE CopyVersion'
  BY DEF CopyVersion
<1>1. pass.n \in Namespace /\ pass.copy.rv \in Nat /\ nsObj[pass.n].rv \in Nat
  BY PassIsBusy DEF BusyPass, NamespaceVersion, TypeOK
<1>2. CASE pass.n = n
  <2>1. nsObj'[n].rv = nsObj[n].rv + 1
    BY NsWriteFacts
  <2> QED BY <1>1, <1>2, <2>1 DEF CopyVersion
<1>3. CASE pass.n # n
  <2>1. nsObj'[pass.n] = nsObj[pass.n]
    BY <1>1, <1>3, NsWriteFacts
  <2> QED BY <2>1 DEF CopyVersion, HoldCleared
<1> QED BY <1>2, <1>3

\* An update that the server accepts leaves a version that is x but for its
\* number, and Stored(x) is that version.
LEMMA StoreNsFacts ==
    ASSUME TypeOK, pass # IdlePass, NEW x \in NamespaceVersion, Fresh(x), StoreNs(x)
    PROVE  /\ nsObj'[pass.n] = Stored(x)
           /\ nsObj'[pass.n].exists = x.exists
           /\ nsObj'[pass.n].label = x.label
           /\ nsObj'[pass.n].last = x.last
           /\ nsObj'[pass.n].prev = x.prev
           /\ nsObj'[pass.n].until = x.until
           /\ nsObj'[pass.n].used = x.used
           /\ \A m \in Namespace \ {pass.n} : nsObj'[m] = nsObj[m]
<1>1. pass.n \in Namespace
  BY PassIsBusy DEF BusyPass
<1>2. CASE x = nsObj[pass.n]
  BY <1>1, <1>2 DEF StoreNs, Stored
<1>3. CASE x # nsObj[pass.n]
  <2>1. NsWrite(pass.n, x)
    BY <1>3 DEF StoreNs
  <2>2. x.rv = nsObj[pass.n].rv
    BY DEF Fresh
  <2>3. Stored(x) = [x EXCEPT !.rv = nsObj[pass.n].rv + 1]
    BY <1>3, <2>2 DEF Stored
  <2> QED BY <1>1, <2>1, <2>3, NsWriteFacts
<1> QED BY <1>2, <1>3

LEMMA StoreNsCache ==
    ASSUME TypeOK, CacheVersions, pass # IdlePass, NEW x \in NamespaceVersion,
           StoreNs(x), UNCHANGED nsCache
    PROVE  CacheVersions'
<1>1. pass.n \in Namespace
  BY PassIsBusy DEF BusyPass
<1>2. CASE UNCHANGED <<nsObj, nsWatch>>
  BY <1>2 DEF CacheVersions, Older
<1>3. CASE NsWrite(pass.n, x)
  BY <1>1, <1>3, NsWriteCache
<1> QED BY <1>2, <1>3 DEF StoreNs

LEMMA UnchangedCache ==
    ASSUME CacheVersions, UNCHANGED <<nsObj, nsCache, nsWatch>>
    PROVE  CacheVersions'
BY DEF CacheVersions, Older

LEMMA IdleCopy == ASSUME pass' = IdlePass PROVE CopyVersion'
BY DEF CopyVersion

\* A step of the pass that leaves its copy and the server's Namespaces alone.
LEMMA UnchangedCopy ==
    ASSUME CopyVersion, pass # IdlePass, UNCHANGED nsObj,
           pass'.n = pass.n, pass'.copy = pass.copy, pass'.spec = pass.spec,
           pass'.pc \in {"heldFalse", "apply", "delete", "switch"}
              \/ pass.pc \notin {"heldFalse", "apply", "delete", "switch"}
    PROVE  CopyVersion'
BY DEF CopyVersion, HoldCleared

\* After an accepted update the copy is the version on the server.
LEMMA StoredCopy ==
    ASSUME TypeOK, pass # IdlePass, NEW x \in NamespaceVersion, Fresh(x), StoreNs(x),
           pass'.n = pass.n, pass'.copy = Stored(x)
    PROVE  CopyVersion'
<1>1. nsObj'[pass.n] = Stored(x)
  BY StoreNsFacts
<1>2. Stored(x).rv \in Nat
  BY StoredType DEF NamespaceVersion
<1> QED BY <1>1, <1>2 DEF CopyVersion

LEMMA VersionsTake ==
    ASSUME TypeOK, Versions, NEW n \in Namespace, Take(n)
    PROVE  Versions'
<1>1. CacheVersions'
  BY UnchangedCache DEF Versions, Take, server, caches
<1>2. CASE pass' = IdlePass
  BY <1>1, <1>2, IdleCopy DEF Versions
<1>3. CASE pass' = StartPass(n, nsCache[n])
  <2>1. pass'.n = n /\ pass'.copy = nsCache[n]
    BY <1>3 DEF StartPass
  <2>2. Older(nsCache[n], nsObj'[n])
    BY DEF Versions, CacheVersions, Take, server
  <2>3. CopyVersion'
    BY <2>1, <2>2 DEF CopyVersion, Older
  <2> QED BY <1>1, <2>3 DEF Versions
<1> QED BY <1>2, <1>3 DEF Take

LEMMA VersionsGetNamespaceClassSpec ==
    ASSUME TypeOK, Versions, GetNamespaceClassSpec
    PROVE  Versions'
<1>1. pass \in BusyPass /\ pass # IdlePass /\ pass.pc = "getClass"
  BY StepIsBusy DEF GetNamespaceClassSpec, Steps
<1>2. CacheVersions' /\ UNCHANGED nsObj
  BY UnchangedCache DEF Versions, GetNamespaceClassSpec, server, caches
<1>3. pass.copy.rv = nsObj[pass.n].rv => pass.copy = nsObj[pass.n]
  BY <1>1 DEF Versions, CopyVersion
<1>4. pass.copy.rv <= nsObj[pass.n].rv
  BY <1>1 DEF Versions, CopyVersion
<1> DEFINE x == class[pass.copy.label]
<1>5. CASE pass' = [pass EXCEPT !.pc = "apply"]
  <2>1. pass'.n = pass.n /\ pass'.copy = pass.copy
    BY <1>1, <1>5 DEF BusyPass
  <2> QED BY <1>2, <1>3, <1>4, <2>1 DEF Versions, CopyVersion
<1>6. CASE pass' = [pass EXCEPT !.spec = x, !.pc = "drift"]
  <2>1. pass'.n = pass.n /\ pass'.copy = pass.copy
    BY <1>1, <1>6 DEF BusyPass
  <2> QED BY <1>2, <1>3, <1>4, <2>1 DEF Versions, CopyVersion
<1>7. CASE ~x.hold /\ pass' = [pass EXCEPT !.spec = x, !.copy = HoldCleared(@),
                                         !.pc = "heldFalse"]
  <2>1. /\ pass'.n = pass.n /\ pass'.copy = HoldCleared(pass.copy)
        /\ pass'.spec = x /\ pass'.pc = "heldFalse"
    BY <1>1, <1>7 DEF BusyPass
  <2>2. HoldCleared(pass.copy).rv = pass.copy.rv
    BY <1>1 DEF HoldCleared, BusyPass, NamespaceVersion
  <2>3. pass'.copy.rv = nsObj'[pass'.n].rv => pass'.copy = HoldCleared(nsObj'[pass'.n])
    BY <1>2, <1>3, <2>1, <2>2
  <2> QED BY <1>2, <1>4, <1>7, <2>1, <2>2, <2>3 DEF Versions, CopyVersion, HoldCleared
<1> QED BY <1>5, <1>6, <1>7 DEF GetNamespaceClassSpec, Goto

\* The steps of a pass that leave the copy alone.
LEMMA VersionsCopyKept ==
    ASSUME TypeOK, Versions,
           \/ HasTemplateDrift \/ KeepOrEndHold \/ SetClassAutoHealHeldCondition
           \/ ApplyClassResource \/ ReadInventory \/ WriteInventory
           \/ \E r \in Ref : DeleteRemovedResource(r) \/ SkipUnmappedResource(r)
           \/ ConditionFails
    PROVE  Versions'
<1>1. CacheVersions'
  BY UnchangedCache DEF Versions, HasTemplateDrift, KeepOrEndHold,
     SetClassAutoHealHeldCondition, ApplyClassResource, ReadInventory, WriteInventory,
     DeleteRemovedResource, SkipUnmappedResource, ConditionFails, server, caches
<1>2. UNCHANGED nsObj
  BY DEF HasTemplateDrift, KeepOrEndHold, SetClassAutoHealHeldCondition,
     ApplyClassResource, ReadInventory, WriteInventory, DeleteRemovedResource,
     SkipUnmappedResource, ConditionFails, server
<1>3. pass \in BusyPass /\ pass # IdlePass
  BY StepIsBusy DEF HasTemplateDrift, KeepOrEndHold, SetClassAutoHealHeldCondition,
     ApplyClassResource, ReadInventory, WriteInventory, DeleteRemovedResource,
     SkipUnmappedResource, ConditionFails, Steps
<1>4. \/ pass' = IdlePass
      \/ /\ pass'.n = pass.n /\ pass'.copy = pass.copy /\ pass'.spec = pass.spec
         /\ \/ pass'.pc \in {"heldFalse", "apply", "delete", "switch"}
            \/ pass.pc \notin {"heldFalse", "apply", "delete", "switch"}
  <2>1. CASE HasTemplateDrift
    BY <1>3, <2>1 DEF HasTemplateDrift, BusyPass
  <2>2. CASE KeepOrEndHold
    BY <1>3, <2>2 DEF KeepOrEndHold, Goto, BusyPass
  <2>3. CASE SetClassAutoHealHeldCondition
    BY <1>3, <2>3 DEF SetClassAutoHealHeldCondition, Goto, BusyPass
  <2>4. CASE ApplyClassResource
    BY <1>3, <2>4 DEF ApplyClassResource, Requeue, BusyPass
  <2>5. CASE ReadInventory
    BY <1>3, <2>5 DEF ReadInventory, BusyPass
  <2>6. CASE WriteInventory
    BY <1>3, <2>6 DEF WriteInventory, Requeue, Goto, BusyPass
  <2>7. CASE \E r \in Ref : DeleteRemovedResource(r) \/ SkipUnmappedResource(r)
    BY <1>3, <2>7 DEF DeleteRemovedResource, SkipUnmappedResource, BusyPass
  <2>8. CASE ConditionFails
    BY <1>3, <2>8 DEF ConditionFails, Goto, BusyPass
  <2> QED BY <2>1, <2>2, <2>3, <2>4, <2>5, <2>6, <2>7, <2>8
<1>5. CASE pass' = IdlePass
  BY <1>1, <1>5, IdleCopy DEF Versions
<1>6. CASE pass' # IdlePass
  BY <1>1, <1>2, <1>3, <1>4, <1>6, UnchangedCopy DEF Versions
<1> QED BY <1>5, <1>6

\* An update by the pass, after which its copy is the one that was stored.
LEMMA VersionsUpdateNs ==
    ASSUME TypeOK, Versions, pass # IdlePass, NEW x \in NamespaceVersion, NEW p,
           UpdateNs(x, p), UNCHANGED nsCache,
           p = IdlePass \/ (p.n = pass.n /\ p.copy = Stored(x))
    PROVE  Versions'
<1>1. CASE Fresh(x) /\ StoreNs(x) /\ pass' = p
  <2>1. CacheVersions'
    BY <1>1, StoreNsCache DEF Versions
  <2>2. CASE p = IdlePass
    BY <1>1, <2>1, <2>2, IdleCopy DEF Versions
  <2>3. CASE p.n = pass.n /\ p.copy = Stored(x)
    BY <1>1, <2>1, <2>3, StoredCopy DEF Versions
  <2> QED BY <2>2, <2>3
<1>2. CASE Requeue /\ UNCHANGED <<nsObj, nsWatch>>
  BY <1>2, UnchangedCache, IdleCopy DEF Versions, Requeue
<1> QED BY <1>1, <1>2 DEF UpdateNs

LEMMA VersionsClearHold ==
    ASSUME TypeOK, Versions, ClearHold
    PROVE  Versions'
<1> DEFINE x == HoldCleared(pass.copy)
           p == [pass EXCEPT !.copy = Stored(x), !.i = 1, !.pc = "heldFalse"]
<1>1. pass \in BusyPass /\ pass # IdlePass
  BY StepIsBusy DEF ClearHold, Steps
<1>2. x \in NamespaceVersion
  BY <1>1, TypeHoldCleared DEF BusyPass
<1>3. p.n = pass.n /\ p.copy = Stored(x)
  BY <1>1 DEF BusyPass
<1>4. UpdateNs(x, p) /\ UNCHANGED nsCache
  BY DEF ClearHold
<1> HIDE DEF x, p
<1> QED BY <1>1, <1>2, <1>3, <1>4, VersionsUpdateNs

LEMMA VersionsStartHold ==
    ASSUME TypeOK, Versions, StartHold
    PROVE  Versions'
<1> DEFINE x == [pass.copy EXCEPT !.until = pass.copy.rv + 1, !.used = TRUE]
           p == [pass EXCEPT !.copy = Stored(x), !.pc = "heldTrue"]
<1>1. pass \in BusyPass /\ pass # IdlePass
  BY StepIsBusy DEF StartHold, Steps
<1>2. x \in NamespaceVersion
  <2>1. pass.copy \in NamespaceVersion /\ pass.copy.rv + 1 \in Nat
    BY <1>1 DEF BusyPass, NamespaceVersion
  <2> QED BY <2>1 DEF NamespaceVersion
<1>3. p.n = pass.n /\ p.copy = Stored(x)
  BY <1>1 DEF BusyPass
<1>4. UpdateNs(x, p) /\ UNCHANGED nsCache
  BY DEF StartHold
<1> HIDE DEF x, p
<1> QED BY <1>1, <1>2, <1>3, <1>4, VersionsUpdateNs

LEMMA VersionsUpdateSwitchAnnotations ==
    ASSUME TypeOK, Versions, UpdateSwitchAnnotations
    PROVE  Versions'
<1>1. pass \in BusyPass /\ pass # IdlePass
  BY StepIsBusy DEF UpdateSwitchAnnotations, Steps
<1>2. CASE pass' = IdlePass /\ UNCHANGED <<nsObj, nsWatch>>
  BY <1>2, UnchangedCache, IdleCopy DEF Versions, UpdateSwitchAnnotations
<1>3. CASE UpdateNs(Switched(pass.copy), IdlePass)
  <2>1. Switched(pass.copy) \in NamespaceVersion
    BY <1>1, TypeSwitched DEF BusyPass
  <2> QED BY <1>1, <1>3, <2>1, VersionsUpdateNs DEF UpdateSwitchAnnotations
<1> QED BY <1>2, <1>3 DEF UpdateSwitchAnnotations

LEMMA VersionsUpdateSwitchAnnotationsHeld ==
    ASSUME TypeOK, Versions, UpdateSwitchAnnotationsHeld
    PROVE  Versions'
<1>1. pass \in BusyPass /\ pass # IdlePass
  BY StepIsBusy DEF UpdateSwitchAnnotationsHeld, Steps
<1>2. CopyVersion' /\ UNCHANGED nsCache
  BY IdleCopy DEF UpdateSwitchAnnotationsHeld, RequeueAfter, Requeue
<1>3. Switched(pass.copy) \in NamespaceVersion
  BY <1>1, TypeSwitched DEF BusyPass
<1>4. UNCHANGED <<nsObj, nsWatch>> \/ StoreNs(Switched(pass.copy))
  BY DEF UpdateSwitchAnnotationsHeld
<1>5. CacheVersions'
  BY <1>1, <1>2, <1>3, <1>4, StoreNsCache, UnchangedCache DEF Versions
<1> QED BY <1>2, <1>5 DEF Versions

LEMMA VersionsReconcile == TypeOK /\ Versions /\ Reconcile => Versions'
BY VersionsGetNamespaceClassSpec, VersionsCopyKept, VersionsClearHold, VersionsStartHold,
   VersionsUpdateSwitchAnnotations, VersionsUpdateSwitchAnnotationsHeld
   DEF Reconcile

LEMMA VersionsFailure == TypeOK /\ Versions /\ Failure => Versions'
<1> SUFFICES ASSUME TypeOK, Versions, Failure PROVE Versions'
  OBVIOUS
<1>1. CASE ApiFails
  BY <1>1, UnchangedCache, IdleCopy DEF Versions, ApiFails, Requeue, server, caches
<1>2. CASE Restart
  <2>1. ASSUME NEW n \in Namespace
        PROVE  nsCache'[n] = nsObj'[n] /\ Len(nsWatch'[n]) = 0 /\ nsObj'[n].rv \in Nat
    BY <1>2 DEF Restart, server, TypeOK, NamespaceVersion
  <2>2. CacheVersions'
    BY <2>1 DEF CacheVersions, Older
  <2> QED BY <1>2, <2>2, IdleCopy DEF Versions, Restart
<1>3. CASE ConditionFails \/ \E r \in Ref : SkipUnmappedResource(r)
  BY <1>3, VersionsCopyKept
<1> QED BY <1>1, <1>2, <1>3 DEF Failure

LEMMA VersionsDeliver == TypeOK /\ Versions /\ Deliver => Versions'
<1> SUFFICES ASSUME TypeOK, Versions, Deliver PROVE Versions'
  OBVIOUS
<1>1. UNCHANGED <<nsObj, pass>>
  BY DEF Deliver, DeliverNamespace, DeliverInventory, DeliverChild, RetryFires, Resync,
     WindowElapses, DeliverClass, server
<1>2. CopyVersion'
  BY <1>1 DEF Versions, CopyVersion, HoldCleared
<1>3. CASE UNCHANGED <<nsCache, nsWatch>>
  BY <1>1, <1>2, <1>3, UnchangedCache DEF Versions
<1>4. ASSUME NEW n \in Namespace, DeliverNamespace(n) PROVE Versions'
  <2>1. nsWatch[n] \in Seq(NamespaceVersion) /\ nsWatch[n] # <<>>
    BY <1>4 DEF DeliverNamespace, TypeOK
  <2>2. /\ nsCache'[n] = nsWatch[n][1]
        /\ nsWatch'[n] = Tail(nsWatch[n])
        /\ \A m \in Namespace \ {n} : nsCache'[m] = nsCache[m] /\ nsWatch'[m] = nsWatch[m]
    BY <1>4, <2>1 DEF DeliverNamespace, TypeOK
  <2>3. ASSUME NEW m \in Namespace
        PROVE  /\ Older(nsCache'[m], nsObj'[m])
               /\ \A i \in 1..Len(nsWatch'[m]) : Older(nsWatch'[m][i], nsObj'[m])
    <3>1. CASE m # n
      BY <1>1, <2>2, <3>1 DEF Versions, CacheVersions, Older
    <3>2. CASE m = n
      <4>1. 1 \in 1..Len(nsWatch[n])
        BY <2>1
      <4>2. Older(nsCache'[n], nsObj'[n])
        BY <1>1, <2>2, <4>1 DEF Versions, CacheVersions
      <4>3. ASSUME NEW i \in 1..Len(nsWatch'[n])
            PROVE  Older(nsWatch'[n][i], nsObj'[n])
        <5>1. i + 1 \in 1..Len(nsWatch[n]) /\ nsWatch'[n][i] = nsWatch[n][i + 1]
          BY <2>1, <2>2, <4>3
        <5> QED BY <1>1, <5>1 DEF Versions, CacheVersions
      <4> QED BY <3>2, <4>2, <4>3
    <3> QED BY <3>1, <3>2
  <2>4. CacheVersions'
    BY <2>3 DEF CacheVersions
  <2> QED BY <1>2, <2>4 DEF Versions
<1>5. (\E n \in Namespace : DeliverNamespace(n)) \/ UNCHANGED <<nsCache, nsWatch>>
  BY DEF Deliver, DeliverInventory, DeliverChild, RetryFires, Resync, WindowElapses,
     DeliverClass, caches
<1> QED BY <1>3, <1>4, <1>5

LEMMA VersionsUsers == TypeOK /\ Versions /\ Users => Versions'
<1> SUFFICES ASSUME TypeOK, Versions, Users PROVE Versions'
  OBVIOUS
<1>1. UNCHANGED <<nsCache, pass>>
  BY DEF Users, Relabel, CreateNamespace, RollBackSwitch, DeleteNamespace, EditClass,
     DriftObject, caches
<1>2. ASSUME NEW n \in Namespace, NEW x \in NamespaceVersion, NsWrite(n, x)
      PROVE  Versions'
  BY <1>1, <1>2, NsWriteCache, NsWriteCopy DEF Versions
<1>3. CASE UNCHANGED <<nsObj, nsWatch>>
  <2>1. CopyVersion'
    BY <1>1, <1>3 DEF Versions, CopyVersion, HoldCleared
  <2> QED BY <1>1, <1>3, <2>1, UnchangedCache DEF Versions
<1>4. UNCHANGED <<nsObj, nsWatch>>
      \/ \E n \in Namespace, x \in NamespaceVersion : NsWrite(n, x)
  <2>1. CASE \E n \in Namespace, l \in MaybeClass : Relabel(n, l)
    <3>1. PICK n \in Namespace, l \in MaybeClass : Relabel(n, l)
      BY <2>1
    <3>2. nsObj[n] \in NamespaceVersion
      BY DEF TypeOK
    <3>3. [nsObj[n] EXCEPT !.label = l] \in NamespaceVersion
      BY <3>2 DEF NamespaceVersion
    <3> QED BY <3>1, <3>3 DEF Relabel
  <2>2. CASE \E n \in Namespace, l \in MaybeClass : CreateNamespace(n, l)
    <3>1. PICK n \in Namespace, l \in MaybeClass : CreateNamespace(n, l)
      BY <2>2
    <3>2. NewNamespace(l, nsObj[n].rv) \in NamespaceVersion
      BY DEF TypeOK, NamespaceVersion, NewNamespace, MaybeClass
    <3> QED BY <3>1, <3>2 DEF CreateNamespace
  <2>3. CASE \E n \in Namespace : RollBackSwitch(n)
    <3>1. PICK n \in Namespace : RollBackSwitch(n)
      BY <2>3
    <3>2. nsObj[n] \in NamespaceVersion
      BY DEF TypeOK
    <3>3. [nsObj[n] EXCEPT !.label = nsObj[n].prev, !.last = nsObj[n].prev,
                           !.prev = NoClass] \in NamespaceVersion
      BY <3>2 DEF NamespaceVersion, MaybeClass
    <3> QED BY <3>1, <3>3 DEF RollBackSwitch
  <2>4. CASE \E n \in Namespace : DeleteNamespace(n)
    <3>1. PICK n \in Namespace : DeleteNamespace(n)
      BY <2>4
    <3>2. NoNamespace(nsObj[n].rv) \in NamespaceVersion
      BY DEF TypeOK, NamespaceVersion, NoNamespace, NewNamespace, MaybeClass
    <3> QED BY <3>1, <3>2 DEF DeleteNamespace
  <2>5. CASE \/ \E c \in Class, x \in ClassContents \cup {Absent} : EditClass(c, x)
             \/ \E p \in Place, v \in {Absent, Tampered} : DriftObject(p, v)
    BY <2>5 DEF EditClass, DriftObject, caches
  <2> QED BY <2>1, <2>2, <2>3, <2>4, <2>5 DEF Users
<1> QED BY <1>2, <1>3, <1>4

\* Whatever copy of a Namespace the controller holds, if its resourceVersion is
\* current then so is the rest of it: why an update from a stale cache can be
\* told by its number (r.Update and the Conflict it may return).
THEOREM VersionsCorrect == Spec => []Versions
<1>1. Init => Versions
  <2> SUFFICES ASSUME Init PROVE Versions
    OBVIOUS
  <2>1. TypeOK
    BY TypeInit
  <2>2. \A n \in Namespace : nsCache[n] = nsObj[n] /\ Len(nsWatch[n]) = 0 /\ nsObj[n].rv \in Nat
    BY <2>1 DEF Init, TypeOK, NamespaceVersion
  <2>3. pass = IdlePass
    BY DEF Init
  <2> QED BY <2>2, <2>3 DEF Versions, CacheVersions, CopyVersion, Older
<1>2. TypeOK /\ Versions /\ [Next]_vars => Versions'
  <2>1. Versions /\ UNCHANGED vars => Versions'
    BY DEF Versions, CacheVersions, CopyVersion, Older, HoldCleared, vars
  <2> QED BY <2>1, VersionsTake, VersionsReconcile, VersionsFailure, VersionsDeliver,
             VersionsUsers DEF Next, Controller
<1> QED BY <1>1, <1>2, TypeCorrect, PTL DEF Spec

-----------------------------------------------------------------------------
\* What the writes of the controller do to a Namespace.

LEMMA CopyFacts ==
    ASSUME TypeOK, Versions, pass # IdlePass, Fresh(pass.copy)
    PROVE  /\ nsObj[pass.n].exists
           /\ pass.copy.exists
           /\ pass.copy.label = nsObj[pass.n].label
           /\ pass.copy.last = nsObj[pass.n].last
           /\ pass.copy.prev = nsObj[pass.n].prev
           /\ pass.copy.last = pass.copy.label => pass.copy.used = nsObj[pass.n].used
<1>1. \/ pass.copy = nsObj[pass.n]
      \/ pass.copy = HoldCleared(nsObj[pass.n])
  BY DEF Versions, CopyVersion, Fresh
<1>2. nsObj[pass.n] \in NamespaceVersion
  BY PassIsBusy DEF TypeOK, BusyPass
<1>3. /\ HoldCleared(nsObj[pass.n]).exists = nsObj[pass.n].exists
      /\ HoldCleared(nsObj[pass.n]).label = nsObj[pass.n].label
      /\ HoldCleared(nsObj[pass.n]).last = nsObj[pass.n].last
      /\ HoldCleared(nsObj[pass.n]).prev = nsObj[pass.n].prev
      /\ nsObj[pass.n].last = nsObj[pass.n].label =>
            HoldCleared(nsObj[pass.n]).used = nsObj[pass.n].used
  BY <1>2 DEF HoldCleared, NamespaceVersion
<1> QED BY <1>1, <1>3 DEF Fresh

\* The label stays; the other class annotations stay or record a switch; a used
\* marker of the acknowledged class stays.
ControllerWrite(n) ==
    /\ \A m \in Namespace \ {n} : nsObj'[m] = nsObj[m]
    /\ nsObj[n].exists /\ nsObj'[n].exists
    /\ nsObj'[n].label = nsObj[n].label
    /\ \/ nsObj'[n].last = nsObj[n].last /\ nsObj'[n].prev = nsObj[n].prev
       \/ /\ nsObj[n].last # nsObj[n].label
          /\ nsObj'[n].last = nsObj[n].label
          /\ nsObj'[n].prev = IF nsObj[n].last = NoClass THEN nsObj[n].prev
                                                         ELSE nsObj[n].last
    /\ nsObj[n].used /\ nsObj[n].last = nsObj[n].label => nsObj'[n].used

LEMMA ClearHoldWrites ==
    ASSUME TypeOK, Versions, ClearHold
    PROVE  UNCHANGED nsObj \/ ControllerWrite(pass.n)
<1> DEFINE x == HoldCleared(pass.copy)
<1>1. pass \in BusyPass /\ pass # IdlePass
  BY StepIsBusy DEF ClearHold, Steps
<1>2. x \in NamespaceVersion
  BY <1>1, TypeHoldCleared DEF BusyPass
<1>3. /\ x.label = pass.copy.label /\ x.last = pass.copy.last /\ x.prev = pass.copy.prev
      /\ x.rv = pass.copy.rv /\ x.exists = pass.copy.exists
      /\ pass.copy.last = pass.copy.label => x.used = pass.copy.used
  BY <1>1 DEF HoldCleared, BusyPass, NamespaceVersion
<1>4. UNCHANGED nsObj \/ (Fresh(x) /\ StoreNs(x))
  BY DEF ClearHold, UpdateNs
<1> HIDE DEF x
<1>5. Fresh(x) => Fresh(pass.copy)
  BY <1>3 DEF Fresh
<1> QED BY <1>1, <1>2, <1>3, <1>4, <1>5, CopyFacts, StoreNsFacts DEF ControllerWrite

LEMMA StartHoldWrites ==
    ASSUME TypeOK, Versions, StartHold
    PROVE  UNCHANGED nsObj \/ ControllerWrite(pass.n)
<1> DEFINE x == [pass.copy EXCEPT !.until = pass.copy.rv + 1, !.used = TRUE]
<1>1. pass \in BusyPass /\ pass # IdlePass
  BY StepIsBusy DEF StartHold, Steps
<1>2. pass.copy \in NamespaceVersion /\ pass.copy.rv + 1 \in Nat
  BY <1>1 DEF BusyPass, NamespaceVersion
<1>3. x \in NamespaceVersion
  BY <1>2 DEF NamespaceVersion
<1>4. /\ x.label = pass.copy.label /\ x.last = pass.copy.last /\ x.prev = pass.copy.prev
      /\ x.rv = pass.copy.rv /\ x.used = TRUE /\ x.exists = pass.copy.exists
  BY <1>2 DEF NamespaceVersion
<1>5. UNCHANGED nsObj \/ (Fresh(x) /\ StoreNs(x))
  BY DEF StartHold, UpdateNs
<1> HIDE DEF x
<1>6. Fresh(x) => Fresh(pass.copy)
  BY <1>4 DEF Fresh
<1> QED BY <1>1, <1>3, <1>4, <1>5, <1>6, CopyFacts, StoreNsFacts DEF ControllerWrite

LEMMA SwitchWrites ==
    ASSUME TypeOK, Versions, UpdateSwitchAnnotations \/ UpdateSwitchAnnotationsHeld
    PROVE  UNCHANGED nsObj \/ ControllerWrite(pass.n)
<1> DEFINE x == Switched(pass.copy)
<1>1. pass \in BusyPass /\ pass # IdlePass
  BY StepIsBusy DEF UpdateSwitchAnnotations, UpdateSwitchAnnotationsHeld, Steps
<1>2. x \in NamespaceVersion
  BY <1>1, TypeSwitched DEF BusyPass
<1>3. /\ x.label = pass.copy.label /\ x.last = pass.copy.label /\ x.rv = pass.copy.rv
      /\ x.prev = IF pass.copy.last = NoClass THEN pass.copy.prev ELSE pass.copy.last
      /\ x.exists = pass.copy.exists
  BY <1>1 DEF Switched, BusyPass, NamespaceVersion
<1>4. UNCHANGED nsObj
      \/ (pass.copy.last # pass.copy.label /\ Fresh(x) /\ StoreNs(x))
  <2>1. CASE UpdateSwitchAnnotations
    BY <2>1 DEF UpdateSwitchAnnotations, UpdateNs
  <2>2. CASE UpdateSwitchAnnotationsHeld
    <3>1. Fresh(x) <=> Fresh(pass.copy)
      BY <1>3 DEF Fresh
    <3> QED BY <2>2, <3>1 DEF UpdateSwitchAnnotationsHeld
  <2> QED BY <2>1, <2>2
<1> HIDE DEF x
<1>5. Fresh(x) => Fresh(pass.copy)
  BY <1>3 DEF Fresh
<1> QED BY <1>1, <1>2, <1>3, <1>4, <1>5, CopyFacts, StoreNsFacts DEF ControllerWrite

LEMMA ControllerWrites ==
    ASSUME TypeOK, Versions, Controller
    PROVE  UNCHANGED nsObj \/ \E n \in Namespace : ControllerWrite(n)
<1>1. CASE \E n \in Namespace : Take(n)
  BY <1>1 DEF Take, server
<1>2. CASE Failure
  BY <1>2 DEF Failure, ApiFails, ConditionFails, Restart, SkipUnmappedResource, server
<1>3. CASE Deliver
  BY <1>3 DEF Deliver, DeliverNamespace, DeliverInventory, DeliverChild, RetryFires,
     Resync, WindowElapses, DeliverClass, server
<1>4. CASE Reconcile
  <2>1. CASE ClearHold \/ StartHold \/ UpdateSwitchAnnotations \/ UpdateSwitchAnnotationsHeld
    <3>1. pass.n \in Namespace
      BY <2>1, StepIsBusy DEF ClearHold, StartHold, UpdateSwitchAnnotations,
         UpdateSwitchAnnotationsHeld, Steps, BusyPass
    <3> QED BY <2>1, <3>1, ClearHoldWrites, StartHoldWrites, SwitchWrites
  <2>2. CASE ~(ClearHold \/ StartHold \/ UpdateSwitchAnnotations \/ UpdateSwitchAnnotationsHeld)
    BY <1>4, <2>2 DEF Reconcile, GetNamespaceClassSpec, HasTemplateDrift, KeepOrEndHold,
       SetClassAutoHealHeldCondition, ApplyClassResource, ReadInventory,
       DeleteRemovedResource, WriteInventory, server
  <2> QED BY <2>1, <2>2
<1> QED BY <1>1, <1>2, <1>3, <1>4 DEF Controller

LEMMA UsersSpendEdits == ASSUME TypeOK, Users PROVE edits' # edits
<1>1. Edit
  BY DEF Users, Relabel, CreateNamespace, RollBackSwitch, DeleteNamespace, EditClass,
     DriftObject
<1> QED BY <1>1, BoundsAssumption DEF Edit, TypeOK

\* No step of the controller changes a label, although it writes whole
\* Namespaces from copies that may be stale.
THEOREM LabelKeptCorrect == Spec => LabelKept
<1>1. TypeOK /\ Versions /\ [Next]_vars =>
        [edits' = edits =>
            \A n \in Namespace : nsObj'[n].label = nsObj[n].label]_vars
  <2> SUFFICES ASSUME TypeOK, Versions, Next, edits' = edits, NEW n \in Namespace
               PROVE  nsObj'[n].label = nsObj[n].label
    OBVIOUS
  <2>1. Controller
    BY UsersSpendEdits DEF Next
  <2> QED BY <2>1, ControllerWrites DEF ControllerWrite
<1> QED BY <1>1, TypeCorrect, VersionsCorrect, PTL DEF Spec, LabelKept

\* What users and the change request reconciler do to a Namespace.
UserWrite(n) ==
    /\ \A m \in Namespace \ {n} : nsObj'[m] = nsObj[m]
    /\ \/ /\ nsObj[n].exists /\ nsObj'[n].exists
          /\ nsObj'[n].last = nsObj[n].last
          /\ nsObj'[n].prev = nsObj[n].prev
          /\ nsObj'[n].used = nsObj[n].used
       \/ /\ nsObj[n].exists /\ nsObj'[n].exists
          /\ nsObj[n].prev \notin {NoClass, nsObj[n].label}
          /\ nsObj'[n].label = nsObj[n].prev
          /\ nsObj'[n].last = nsObj[n].prev
          /\ nsObj'[n].prev = NoClass
       \/ /\ nsObj'[n].last = NoClass
          /\ nsObj'[n].prev = NoClass
          /\ \/ nsObj[n].exists /\ ~nsObj'[n].exists /\ nsObj'[n].label = NoClass
             \/ ~nsObj[n].exists /\ nsObj'[n].exists

LEMMA UserWrites ==
    ASSUME TypeOK, Users
    PROVE  UNCHANGED nsObj \/ \E n \in Namespace : UserWrite(n)
<1>1. ASSUME NEW n \in Namespace, NEW l \in MaybeClass, Relabel(n, l)
      PROVE  UserWrite(n)
  <2> DEFINE x == [nsObj[n] EXCEPT !.label = l]
  <2>1. nsObj[n] \in NamespaceVersion
    BY DEF TypeOK
  <2>2. /\ x \in NamespaceVersion
        /\ x.last = nsObj[n].last /\ x.prev = nsObj[n].prev /\ x.used = nsObj[n].used
        /\ x.exists = nsObj[n].exists
    BY <2>1 DEF NamespaceVersion
  <2>3. NsWrite(n, x) /\ nsObj[n].exists
    BY <1>1 DEF Relabel
  <2> HIDE DEF x
  <2> QED BY <2>2, <2>3, NsWriteFacts DEF UserWrite
<1>2. ASSUME NEW n \in Namespace, NEW l \in MaybeClass, CreateNamespace(n, l)
      PROVE  UserWrite(n)
  <2> DEFINE x == NewNamespace(l, nsObj[n].rv)
  <2>1. x \in NamespaceVersion /\ x.last = NoClass /\ x.prev = NoClass /\ x.exists
    BY DEF TypeOK, NamespaceVersion, NewNamespace, MaybeClass
  <2>2. NsWrite(n, x) /\ ~nsObj[n].exists
    BY <1>2 DEF CreateNamespace
  <2> HIDE DEF x
  <2> QED BY <2>1, <2>2, NsWriteFacts DEF UserWrite
<1>3. ASSUME NEW n \in Namespace, RollBackSwitch(n)
      PROVE  UserWrite(n)
  <2> DEFINE x == [nsObj[n] EXCEPT !.label = nsObj[n].prev, !.last = nsObj[n].prev,
                                    !.prev = NoClass]
  <2>1. nsObj[n] \in NamespaceVersion
    BY DEF TypeOK
  <2>2. /\ x \in NamespaceVersion
        /\ x.label = nsObj[n].prev /\ x.last = nsObj[n].prev /\ x.prev = NoClass
        /\ x.exists = nsObj[n].exists
    BY <2>1 DEF NamespaceVersion, MaybeClass
  <2>3. NsWrite(n, x) /\ nsObj[n].prev \notin {NoClass, nsObj[n].label} /\ nsObj[n].exists
    BY <1>3 DEF RollBackSwitch
  <2> HIDE DEF x
  <2> QED BY <2>2, <2>3, NsWriteFacts DEF UserWrite
<1>4. ASSUME NEW n \in Namespace, DeleteNamespace(n)
      PROVE  UserWrite(n)
  <2> DEFINE x == NoNamespace(nsObj[n].rv)
  <2>1. x \in NamespaceVersion /\ x.last = NoClass /\ x.prev = NoClass
        /\ x.label = NoClass /\ ~x.exists
    BY DEF TypeOK, NamespaceVersion, NoNamespace, NewNamespace, MaybeClass
  <2>2. NsWrite(n, x) /\ nsObj[n].exists
    BY <1>4 DEF DeleteNamespace
  <2> HIDE DEF x
  <2> QED BY <2>1, <2>2, NsWriteFacts DEF UserWrite
<1>5. CASE \/ \E c \in Class, x \in ClassContents \cup {Absent} : EditClass(c, x)
           \/ \E p \in Place, v \in {Absent, Tampered} : DriftObject(p, v)
  BY <1>5 DEF EditClass, DriftObject
<1> QED BY <1>1, <1>2, <1>3, <1>4, <1>5 DEF Users

\* A hold that was used cannot be started again while the Namespace keeps its
\* acknowledged class.
THEOREM HoldMarkerKeptCorrect == Spec => HoldMarkerKept
<1>1. TypeOK /\ Versions /\ [Next]_vars =>
        [\A n \in Namespace :
            /\ nsObj[n].exists /\ nsObj[n].used
            /\ nsObj[n].last = nsObj[n].label
            /\ nsObj'[n].exists /\ nsObj'[n].label = nsObj[n].label
            => nsObj'[n].used]_vars
  <2> SUFFICES ASSUME TypeOK, Versions, Next, NEW n \in Namespace,
                      nsObj[n].exists, nsObj[n].used,
                      nsObj[n].last = nsObj[n].label,
                      nsObj'[n].exists, nsObj'[n].label = nsObj[n].label
               PROVE  nsObj'[n].used
    OBVIOUS
  <2>1. CASE Controller
    BY <2>1, ControllerWrites DEF ControllerWrite
  <2>2. CASE Users
    BY <2>2, UserWrites DEF UserWrite
  <2> QED BY <2>1, <2>2 DEF Next
<1> QED BY <1>1, TypeCorrect, VersionsCorrect, PTL DEF Spec, HoldMarkerKept

-----------------------------------------------------------------------------
\* The class annotations implement SwitchRecord.

LEMMA LogUnchanged ==
    ASSUME TypeOK, UNCHANGED nsObj
    PROVE  UNCHANGED Log!vars
BY DEF Log!vars

\* A write to one Namespace is a change of its entries only.
LEMMA LogPut ==
    ASSUME TypeOK, TypeOK', NEW n \in Namespace,
           \A m \in Namespace \ {n} : nsObj'[m] = nsObj[m]
    PROVE  Log!Put(n, nsObj'[n].label, nsObj'[n].last, nsObj'[n].prev)
BY DEF Log!Put

\* The reconciler implements SwitchRecord: whatever stale copies, conflicts and
\* restarts there are, what it does to the class annotations of a Namespace is
\* one step of that record (updateSwitchAnnotations, rollbackNamespacesForSwitch).
THEOREM SwitchesRecordedCorrect == Spec => SwitchesRecorded
<1>1. Init => Log!Init
  <2> SUFFICES ASSUME Init PROVE Log!Init
    OBVIOUS
  <2>1. \A n \in Namespace : /\ nsObj[n].label \in MaybeClass
                             /\ nsObj[n].last = NoClass
                             /\ nsObj[n].prev = NoClass
    BY DEF Init, NewNamespace
  <2> QED BY <2>1 DEF Log!Init, Log!MaybeClass, MaybeClass
<1>2. TypeOK /\ TypeOK' /\ Versions /\ [Next]_vars => [Log!Next]_(Log!vars)
  <2> SUFFICES ASSUME TypeOK, TypeOK', Versions, [Next]_vars
               PROVE  Log!Next \/ UNCHANGED Log!vars
    OBVIOUS
  <2>1. CASE UNCHANGED nsObj
    BY <2>1, LogUnchanged
  <2>2. ASSUME NEW n \in Namespace, ControllerWrite(n)
        PROVE  Log!Next
    <3>1. Log!Put(n, nsObj'[n].label, nsObj'[n].last, nsObj'[n].prev)
      BY <2>2, LogPut DEF ControllerWrite
    <3>2. PICK l \in Log!MaybeClass : l = nsObj[n].label
      BY DEF TypeOK, NamespaceVersion, Log!MaybeClass, MaybeClass
    <3>5. /\ n \in {m \in Namespace : nsObj[m].exists}
          /\ {m \in Namespace : nsObj[m].exists}' = {m \in Namespace : nsObj[m].exists}
      BY <2>2 DEF ControllerWrite
    <3>3. CASE nsObj'[n].last = nsObj[n].last /\ nsObj'[n].prev = nsObj[n].prev
      <4>1. Log!Relabel(n, l)
        BY <2>2, <3>1, <3>2, <3>3, <3>5 DEF Log!Relabel, Log!Write, Log!Put, ControllerWrite
      <4> QED BY <4>1 DEF Log!Next
    <3>4. CASE /\ nsObj[n].last # nsObj[n].label
               /\ nsObj'[n].last = nsObj[n].label
               /\ nsObj'[n].prev = IF nsObj[n].last = NoClass THEN nsObj[n].prev
                                                              ELSE nsObj[n].last
      <4>1. Log!Record(n)
        BY <2>2, <3>1, <3>4, <3>5 DEF Log!Record, Log!Write, Log!Put, ControllerWrite
      <4> QED BY <4>1 DEF Log!Next
    <3> QED BY <2>2, <3>3, <3>4 DEF ControllerWrite
  <2>3. ASSUME NEW n \in Namespace, UserWrite(n)
        PROVE  Log!Next
    <3>1. Log!Put(n, nsObj'[n].label, nsObj'[n].last, nsObj'[n].prev)
      BY <2>3, LogPut DEF UserWrite
    <3>2. PICK l \in Log!MaybeClass : l = nsObj'[n].label
      BY DEF TypeOK, NamespaceVersion, Log!MaybeClass, MaybeClass
    <3>6. nsObj[n].exists /\ nsObj'[n].exists =>
            /\ n \in {m \in Namespace : nsObj[m].exists}
            /\ {m \in Namespace : nsObj[m].exists}' = {m \in Namespace : nsObj[m].exists}
      BY <2>3 DEF UserWrite
    <3>3. CASE /\ nsObj[n].exists /\ nsObj'[n].exists
               /\ nsObj'[n].last = nsObj[n].last /\ nsObj'[n].prev = nsObj[n].prev
      <4>1. Log!Relabel(n, l)
        BY <3>1, <3>2, <3>3, <3>6 DEF Log!Relabel, Log!Write, Log!Put
      <4> QED BY <4>1 DEF Log!Next
    <3>4. CASE /\ nsObj[n].exists /\ nsObj'[n].exists
               /\ nsObj[n].prev \notin {NoClass, nsObj[n].label}
               /\ nsObj'[n].label = nsObj[n].prev
               /\ nsObj'[n].last = nsObj[n].prev
               /\ nsObj'[n].prev = NoClass
      <4>1. Log!RollBack(n)
        BY <3>1, <3>4, <3>6 DEF Log!RollBack, Log!Write, Log!Put
      <4> QED BY <4>1 DEF Log!Next
    <3>5. CASE /\ nsObj[n].exists /\ ~nsObj'[n].exists
               /\ nsObj'[n].label = NoClass /\ nsObj'[n].last = NoClass
               /\ nsObj'[n].prev = NoClass
      <4>1. /\ n \in {m \in Namespace : nsObj[m].exists}
            /\ {m \in Namespace : nsObj[m].exists}' = {m \in Namespace : nsObj[m].exists} \ {n}
        BY <2>3, <3>5 DEF UserWrite
      <4>2. Log!Delete(n)
        BY <3>1, <3>5, <4>1 DEF Log!Delete, Log!Put
      <4> QED BY <4>2 DEF Log!Next
    <3>7. CASE /\ ~nsObj[n].exists /\ nsObj'[n].exists
               /\ nsObj'[n].last = NoClass /\ nsObj'[n].prev = NoClass
      <4>1. /\ n \notin {m \in Namespace : nsObj[m].exists}
            /\ {m \in Namespace : nsObj[m].exists}' = {m \in Namespace : nsObj[m].exists} \cup {n}
        BY <2>3, <3>7 DEF UserWrite
      <4>2. Log!Create(n, l)
        BY <3>1, <3>2, <3>7, <4>1 DEF Log!Create, Log!Put
      <4> QED BY <4>2 DEF Log!Next
    <3> QED BY <2>3, <3>3, <3>4, <3>5, <3>7 DEF UserWrite
  <2> QED BY <2>1, <2>2, <2>3, ControllerWrites, UserWrites DEF Next, vars
<1> QED BY <1>1, <1>2, TypeCorrect, VersionsCorrect, PTL DEF Spec, SwitchesRecorded, Log!Spec

-----------------------------------------------------------------------------
\* Hold windows.  The inductive invariant: a pass that goes on to repair under a
\* class with a hold has a copy that names no open window.

Repairing == {"heldFalse", "apply", "delete"}

HoldWindows ==
    /\ \A n \in Namespace : 0 \notin open[n]
    /\ pass.pc = "getClass" => ~pass.spec.hold
    /\ pass.pc \in Repairing /\ pass.spec.hold => pass.copy.until \notin open[pass.n]

LEMMA IdleHold ==
    ASSUME HoldWindows, pass' = IdlePass, \A n \in Namespace : open'[n] \subseteq open[n]
    PROVE  HoldWindows'
BY DEF HoldWindows, Repairing, IdlePass

\* A step that keeps the copy and the class of the pass and opens no window.
LEMMA UnchangedHold ==
    ASSUME TypeOK, HoldWindows, \A n \in Namespace : open'[n] \subseteq open[n],
           pass # IdlePass, pass'.n = pass.n, pass'.copy = pass.copy,
           pass'.spec = pass.spec, pass'.pc # "getClass",
           pass'.pc \in Repairing => pass.pc \in Repairing
    PROVE  HoldWindows'
BY PassIsBusy DEF HoldWindows, BusyPass

LEMMA HoldTake ==
    ASSUME TypeOK, HoldWindows, NEW n \in Namespace, Take(n)
    PROVE  HoldWindows'
<1>1. UNCHANGED open
  BY DEF Take, server
<1>2. ~StartPass(n, nsCache[n]).spec.hold
  BY DEF StartPass, NoContents
<1> QED BY <1>1, <1>2 DEF Take, HoldWindows, Repairing, IdlePass

LEMMA HoldGetNamespaceClassSpec ==
    ASSUME TypeOK, HoldWindows, GetNamespaceClassSpec
    PROVE  HoldWindows'
<1>1. pass \in BusyPass /\ pass.pc = "getClass"
  BY StepIsBusy DEF GetNamespaceClassSpec, Steps
<1>2. UNCHANGED open
  BY DEF GetNamespaceClassSpec, server
<1>3. \/ pass'.pc = "apply" /\ pass'.spec = pass.spec
      \/ pass'.pc = "drift"
      \/ pass'.pc = "heldFalse" /\ ~pass'.spec.hold
  BY <1>1 DEF GetNamespaceClassSpec, Goto, BusyPass
<1> QED BY <1>1, <1>2, <1>3 DEF HoldWindows, Repairing

LEMMA HoldClearHold ==
    ASSUME TypeOK, HoldWindows, ClearHold
    PROVE  HoldWindows'
<1>1. pass \in BusyPass /\ pass # IdlePass /\ pass.n \in Namespace
  BY StepIsBusy DEF ClearHold, Steps, BusyPass
<1>2. UNCHANGED open
  BY DEF ClearHold
<1>3. CASE Requeue
  BY <1>2, <1>3, IdleHold DEF Requeue
<1>4. CASE pass' = [pass EXCEPT !.copy = Stored(HoldCleared(pass.copy)), !.i = 1,
                                !.pc = "heldFalse"]
  <2>1. pass'.n = pass.n /\ pass'.copy = Stored(HoldCleared(pass.copy))
        /\ pass'.pc = "heldFalse"
    BY <1>1, <1>4 DEF BusyPass
  <2>2. HoldCleared(pass.copy) \in NamespaceVersion /\ HoldCleared(pass.copy).until = 0
    BY <1>1, TypeHoldCleared DEF BusyPass, NamespaceVersion, HoldCleared
  <2>3. Stored(HoldCleared(pass.copy)).until = 0
    BY <2>2 DEF Stored, NamespaceVersion
  <2> QED BY <1>1, <1>2, <2>1, <2>3 DEF HoldWindows
<1> QED BY <1>3, <1>4 DEF ClearHold, UpdateNs

LEMMA HoldStartHold ==
    ASSUME TypeOK, HoldWindows, StartHold
    PROVE  HoldWindows'
<1> DEFINE x == [pass.copy EXCEPT !.until = pass.copy.rv + 1, !.used = TRUE]
<1>1. pass \in BusyPass /\ pass # IdlePass /\ pass.n \in Namespace
  BY StepIsBusy DEF StartHold, Steps, BusyPass
<1>2. pass.copy \in NamespaceVersion /\ pass.copy.rv + 1 \in Nat \ {0}
  BY <1>1 DEF BusyPass, NamespaceVersion
<1>3. x.until \in Nat \ {0}
  BY <1>2 DEF NamespaceVersion
<1>4. pass'.pc = "heldTrue" \/ pass' = IdlePass
  BY <1>1 DEF StartHold, UpdateNs, Requeue, BusyPass
<1>5. open' = [open EXCEPT ![pass.n] = @ \cup {x.until}] \/ UNCHANGED open
  BY DEF StartHold
<1> HIDE DEF x
<1>6. ASSUME NEW n \in Namespace
      PROVE  0 \notin open'[n]
  <2>1. open \in [Namespace -> SUBSET Nat] /\ 0 \notin open[n]
    BY DEF TypeOK, HoldWindows
  <2>2. CASE UNCHANGED open
    BY <2>1, <2>2
  <2>3. CASE open' = [open EXCEPT ![pass.n] = @ \cup {x.until}]
    <3>1. open'[n] = open[n] \/ open'[n] = open[n] \cup {x.until}
      BY <2>1, <2>3
    <3>2. x.until # 0
      BY <1>3
    <3> QED BY <2>1, <3>1, <3>2
  <2> QED BY <1>5, <2>2, <2>3
<1> QED BY <1>4, <1>6 DEF HoldWindows, Repairing, IdlePass

LEMMA HoldKeepOrEndHold ==
    ASSUME TypeOK, HoldWindows, KeepOrEndHold
    PROVE  HoldWindows'
<1>1. pass \in BusyPass
  BY StepIsBusy DEF KeepOrEndHold, Steps
<1>2. UNCHANGED open
  BY DEF KeepOrEndHold, server
<1>3. \/ pass'.pc = "heldTrue"
      \/ /\ pass'.pc = "heldFalse" /\ pass'.n = pass.n /\ pass'.copy = pass.copy
         /\ pass.copy.until \notin open[pass.n]
  BY <1>1 DEF KeepOrEndHold, HoldOpen, Goto, BusyPass
<1> QED BY <1>2, <1>3 DEF HoldWindows, Repairing

\* The other steps of a pass.
LEMMA HoldCopyKept ==
    ASSUME TypeOK, HoldWindows,
           \/ HasTemplateDrift \/ SetClassAutoHealHeldCondition
           \/ ApplyClassResource \/ ReadInventory \/ WriteInventory
           \/ UpdateSwitchAnnotations \/ UpdateSwitchAnnotationsHeld
           \/ \E r \in Ref : DeleteRemovedResource(r) \/ SkipUnmappedResource(r)
           \/ ConditionFails \/ ApiFails \/ Restart
    PROVE  HoldWindows'
<1>1. UNCHANGED open
  BY DEF HasTemplateDrift, SetClassAutoHealHeldCondition, ApplyClassResource,
     ReadInventory, WriteInventory, UpdateSwitchAnnotations, UpdateSwitchAnnotationsHeld,
     DeleteRemovedResource, SkipUnmappedResource, ConditionFails, ApiFails, Restart, server
<1>2. \/ pass' = IdlePass
      \/ /\ pass # IdlePass /\ pass'.n = pass.n /\ pass'.copy = pass.copy
         /\ pass'.spec = pass.spec /\ pass'.pc # "getClass"
         /\ pass'.pc \in Repairing => pass.pc \in Repairing
  <2>1. CASE HasTemplateDrift
    BY <2>1, StepIsBusy DEF HasTemplateDrift, BusyPass, Repairing, Steps
  <2>2. CASE SetClassAutoHealHeldCondition
    BY <2>2, StepIsBusy DEF SetClassAutoHealHeldCondition, Goto, BusyPass, Repairing, Steps
  <2>3. CASE ApplyClassResource
    BY <2>3, StepIsBusy DEF ApplyClassResource, Requeue, BusyPass, Repairing, Steps
  <2>4. CASE ReadInventory
    BY <2>4, StepIsBusy DEF ReadInventory, BusyPass, Repairing, Steps
  <2>5. CASE WriteInventory
    BY <2>5, StepIsBusy DEF WriteInventory, Requeue, Goto, BusyPass, Repairing, Steps
  <2>6. CASE UpdateSwitchAnnotations \/ UpdateSwitchAnnotationsHeld
    BY <2>6 DEF UpdateSwitchAnnotations, UpdateSwitchAnnotationsHeld, UpdateNs, Requeue,
       RequeueAfter
  <2>7. CASE \E r \in Ref : DeleteRemovedResource(r) \/ SkipUnmappedResource(r)
    BY <2>7, StepIsBusy DEF DeleteRemovedResource, SkipUnmappedResource, BusyPass,
       Repairing, Steps
  <2>8. CASE ConditionFails
    BY <2>8, StepIsBusy DEF ConditionFails, Goto, BusyPass, Repairing, Steps
  <2>9. CASE ApiFails \/ Restart
    BY <2>9 DEF ApiFails, Restart, Requeue
  <2> QED BY <2>1, <2>2, <2>3, <2>4, <2>5, <2>6, <2>7, <2>8, <2>9
<1> QED BY <1>1, <1>2, IdleHold, UnchangedHold

\* Steps outside the pass open no window.
LEMMA HoldOutside ==
    ASSUME TypeOK, HoldWindows, Deliver \/ Users \/ UNCHANGED vars
    PROVE  HoldWindows'
<1>1. UNCHANGED pass
  BY DEF Deliver, DeliverNamespace, DeliverInventory, DeliverChild, RetryFires, Resync,
     WindowElapses, DeliverClass, Users, Relabel, CreateNamespace, RollBackSwitch,
     DeleteNamespace, EditClass, DriftObject, vars
<1>2. ASSUME NEW n \in Namespace, NEW k \in open[n], WindowElapses(n, k)
      PROVE  \A m \in Namespace : open'[m] \subseteq open[m]
  BY <1>2 DEF WindowElapses, TypeOK
<1>3. UNCHANGED open
      \/ \E n \in Namespace : \E k \in open[n] : WindowElapses(n, k)
  BY DEF Deliver, DeliverNamespace, DeliverInventory, DeliverChild, RetryFires, Resync,
     DeliverClass, Users, Relabel, CreateNamespace, RollBackSwitch,
     DeleteNamespace, EditClass, DriftObject, vars, server
<1>4. \A m \in Namespace : open'[m] \subseteq open[m]
  BY <1>2, <1>3
<1>5. CASE pass = IdlePass
  BY <1>1, <1>4, <1>5, IdleHold
<1>6. CASE pass # IdlePass
  <2>1. pass.n \in Namespace
    BY <1>6, PassIsBusy DEF BusyPass
  <2> QED BY <1>1, <1>4, <2>1 DEF HoldWindows
<1> QED BY <1>5, <1>6

\* A repair of a class with a hold happens outside every open hold window of the
\* Namespace it repairs.
THEOREM HoldRespectedCorrect == Spec => []HoldRespected
<1>1. Init => HoldWindows
  BY DEF Init, HoldWindows, Repairing, IdlePass
<1>2. TypeOK /\ HoldWindows /\ [Next]_vars => HoldWindows'
  BY HoldTake, HoldGetNamespaceClassSpec, HoldClearHold, HoldStartHold, HoldKeepOrEndHold,
     HoldCopyKept, HoldOutside DEF Next, Controller, Reconcile, Failure
<1>3. TypeOK /\ Versions /\ HoldWindows => HoldRespected
  <2> SUFFICES ASSUME TypeOK, Versions, HoldWindows, pass.pc \in Repairing,
                      pass.spec.hold, Fresh(pass.copy)
               PROVE  nsObj[pass.n].until \notin open[pass.n]
    BY DEF HoldRespected, Repairing
  <2>1. pass # IdlePass
    BY StepIsBusy DEF Repairing, Steps
  <2>2. pass.copy = nsObj[pass.n]
    BY <2>1 DEF Versions, CopyVersion, Fresh
  <2> QED BY <2>2 DEF HoldWindows
<1> QED BY <1>1, <1>2, <1>3, TypeCorrect, VersionsCorrect, PTL DEF Spec
=============================================================================
