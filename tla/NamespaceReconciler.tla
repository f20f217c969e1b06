------------------------- MODULE NamespaceReconciler -------------------------
(***************************************************************************)
(* The NamespaceClass reconciler of internal/controller: one worker that    *)
(* makes the objects in a Namespace follow the class its label names.       *)
(*                                                                          *)
(* A pass is one call of Reconcile.  It is a sequence of calls to the API   *)
(* server and every call is an action here, so that edits, cache lag,       *)
(* failures and restarts fall between any two of them.  Namespaces and the  *)
(* inventory ConfigMap are read from informer caches, which lag behind the  *)
(* server; classes and managed objects are read live.                       *)
(***************************************************************************)
EXTENDS Naturals, Sequences, FiniteSets

CONSTANTS
    Namespace,      \* names of Namespaces
    Class,          \* names of NamespaceClasses
    NoClass,        \* the empty string: no label, or no annotation
    Template,       \* entries that spec.resources may hold
    Ref,            \* inventory entries: apiVersion, kind and name
    Object,         \* what Refs address: two apiVersions may address one object
    RefOf,          \* Template -> Ref
    ObjectOf,       \* Ref -> Object
    ClusterScoped,  \* objects that live in no Namespace
    Watched,        \* objects of the five kinds the controller watches
    HasSpec,        \* objects whose kind has a spec field
    Malformed,      \* templates without apiVersion, kind or name
    HighRisk,       \* templates of a high-risk kind
    DriftObjects,   \* objects that people change by hand
    ClassContents,  \* what a NamespaceClass may hold
    Absent,         \* no such object
    Tampered,       \* an object changed by hand, its managed label kept
    ClusterScope,   \* where cluster-scoped objects live
    Faults,         \* the faults that may happen
    MaxEdits,       \* bound on what users do
    MaxFaults       \* bound on failed calls and restarts

MaybeClass == Class \cup {NoClass}

\* Where the object o of Namespace n is found.
PlaceOf(n, o) == <<IF o \in ClusterScoped THEN ClusterScope ELSE n, o>>
Place == {PlaceOf(n, o) : n \in Namespace, o \in Object}

ASSUME NamesAssumption ==
    /\ NoClass \notin Class
    /\ ClusterScope \notin Namespace
    /\ Absent \notin Template
    /\ Absent \notin ClassContents
    /\ Absent \notin Ref
    /\ Tampered \notin Template \cup {Absent}
ASSUME TemplatesAssumption ==
    /\ RefOf \in [Template -> Ref]
    /\ ObjectOf \in [Ref -> Object]
    /\ Watched \subseteq Object \ ClusterScoped
    /\ DriftObjects \subseteq Object
    /\ Malformed \cup HighRisk \subseteq Template
ASSUME ContentsAssumption ==
    ClassContents \subseteq
        [res : Seq(Template), allow : BOOLEAN, hold : BOOLEAN]
ASSUME BoundsAssumption ==
    /\ Faults \subseteq {"api", "restart", "discovery", "lag", "resync"}
    /\ MaxEdits \in Nat
    /\ MaxFaults \in Nat

VARIABLES
    class,          \* NamespaceClasses on the server: spec and annotations
    heldCond,       \* status condition AutoHealHeld of each class
    nsObj,          \* Namespaces on the server
    obj,            \* objects the templates address, on the server
    inv,            \* inventory ConfigMap of each Namespace, on the server
    open,           \* hold windows whose end has not come, by version written
    nsCache,        \* the informer's copies of the Namespaces
    nsWatch,        \* versions of each Namespace the informer has yet to see
    invCache,       \* the informer's copies of the inventories
    invWatch,       \* versions of each inventory the informer has yet to see
    classEvents,    \* classes with an event on its way to the controller
    childEvents,    \* Namespaces with an event of a managed object on its way
    queue,          \* the workqueue
    delayed,        \* Namespaces to be queued again after a delay
    pass,           \* the call of Reconcile that is running
    marked,         \* history: the label under which a hold was last started
    edits, faults   \* what users and failures have spent of their bounds

server == <<class, heldCond, nsObj, obj, inv, open>>
caches == <<nsCache, nsWatch, invCache, invWatch>>
events == <<classEvents, childEvents>>
bounds == <<edits, faults>>
vars == <<class, heldCond, nsObj, obj, inv, open, nsCache, nsWatch, invCache,
          invWatch, classEvents, childEvents, queue, delayed, pass, marked,
          edits, faults>>

-----------------------------------------------------------------------------
\* A version of a Namespace.  until names the hold window by the version that
\* started it (0: no annotation); rv is the resourceVersion.
NamespaceVersion ==
    [exists : BOOLEAN, label : MaybeClass, last : MaybeClass,
     prev : MaybeClass, until : Nat, used : BOOLEAN, rv : Nat]

NewNamespace(l, rv) ==
    [exists |-> TRUE, label |-> l, last |-> NoClass, prev |-> NoClass,
     until |-> 0, used |-> FALSE, rv |-> rv]

NoNamespace(rv) == [NewNamespace(NoClass, rv) EXCEPT !.exists = FALSE]

IdlePass == [pc |-> "idle"]

Steps == {"getClass", "drift", "hold", "heldTrue", "heldFalse", "apply",
          "delete", "switch", "switchHeld"}

\* A class that asks for nothing, which is also what no class amounts to.
NoContents == [res |-> <<>>, allow |-> FALSE, hold |-> FALSE]

\* pc is where the pass stands; copy is ns, spec is classSpec and behavior, i
\* indexes resources, refs is desiredRefs and prev is prevRefs.
BusyPass ==
    [pc : Steps, n : Namespace, copy : NamespaceVersion,
     spec : ClassContents \cup {NoContents}, i : Nat \ {0},
     refs : SUBSET Ref, prev : SUBSET Ref]

StartPass(n, x) ==
    [pc |-> IF x.label = NoClass THEN "apply" ELSE "getClass",
     n |-> n, copy |-> x, spec |-> NoContents, i |-> 1,
     refs |-> {}, prev |-> {}]

\* What the inventory ConfigMap lists, or that there is none.
NoInventory == {Absent}
Inventory == (SUBSET Ref) \cup {NoInventory}

Target(t) == ObjectOf[RefOf[t]]

TypeOK ==
    /\ class \in [Class -> ClassContents \cup {Absent}]
    /\ heldCond \in [Class -> {"Unset", "True", "False"}]
    /\ nsObj \in [Namespace -> NamespaceVersion]
    /\ obj \in [Place -> Template \cup {Absent, Tampered}]
    /\ inv \in [Namespace -> Inventory]
    /\ open \in [Namespace -> SUBSET Nat]
    /\ nsCache \in [Namespace -> NamespaceVersion]
    /\ nsWatch \in [Namespace -> Seq(NamespaceVersion)]
    /\ invCache \in [Namespace -> Inventory]
    /\ invWatch \in [Namespace -> Seq(Inventory)]
    /\ classEvents \subseteq Class
    /\ childEvents \subseteq Namespace
    /\ queue \subseteq Namespace
    /\ delayed \subseteq Namespace
    /\ pass \in {IdlePass} \cup BusyPass
    /\ pass.pc = "getClass" => pass.copy.label # NoClass
    /\ marked \in [Namespace -> MaybeClass]
    /\ edits \in 0..MaxEdits
    /\ faults \in 0..MaxFaults

\* The controller starts in a cluster whose Namespaces it has never seen.
Init ==
    /\ class \in [Class -> ClassContents \cup {Absent}]
    /\ heldCond = [c \in Class |-> "Unset"]
    /\ nsObj \in [Namespace -> {NewNamespace(l, 1) : l \in MaybeClass}]
    /\ obj = [p \in Place |-> Absent]
    /\ inv = [n \in Namespace |-> NoInventory]
    /\ open = [n \in Namespace |-> {}]
    /\ nsCache = nsObj
    /\ nsWatch = [n \in Namespace |-> <<>>]
    /\ invCache = inv
    /\ invWatch = [n \in Namespace |-> <<>>]
    /\ classEvents = {}
    /\ childEvents = {}
    /\ queue = Namespace
    /\ delayed = {}
    /\ pass = IdlePass
    /\ marked = [n \in Namespace |-> NoClass]
    /\ edits = 0
    /\ faults = 0

-----------------------------------------------------------------------------
\* Effects on the server and what they send to the controller.

\* The server stores x as the next version of Namespace n.
NsWrite(n, x) ==
    LET y == [x EXCEPT !.rv = nsObj[n].rv + 1]
    IN  /\ nsObj' = [nsObj EXCEPT ![n] = y]
        /\ nsWatch' = [nsWatch EXCEPT ![n] = Append(@, y)]

\* An object at place p becomes v; managed objects of watched kinds raise an
\* event when they change.
ObjWrite(p, v) ==
    /\ obj' = [obj EXCEPT ![p] = v]
    /\ childEvents' = IF p[2] \in Watched /\ obj[p] # v
                        THEN childEvents \cup {p[1]} ELSE childEvents

\* Mutant: the request is forgotten.
RequeueLost == pass' = IdlePass /\ UNCHANGED delayed

\* Reconcile returns an error: the request is queued again, rate limited.
Requeue ==
    /\ pass' = IdlePass
    /\ delayed' = delayed \cup {pass.n}

\* Reconcile asks with RequeueAfter for another look when the hold may be over.
RequeueAfter == Requeue

Goto(step) == pass' = [pass EXCEPT !.pc = step]

\* A failure of one of the kinds that may happen.
Fault(kind) == kind \in Faults /\ faults < MaxFaults /\ faults' = faults + 1

\* The server accepts an update only of the version it holds.
Fresh(x) == nsObj[pass.n].exists /\ x.rv = nsObj[pass.n].rv

\* r.Update(ctx, ns): an update that changes nothing keeps the version.
StoreNs(x) ==
    IF x = nsObj[pass.n] THEN UNCHANGED <<nsObj, nsWatch>>
                         ELSE NsWrite(pass.n, x)

Stored(x) == IF x = nsObj[pass.n] THEN x ELSE [x EXCEPT !.rv = @ + 1]

\* Mutant: the update goes through whatever version it was made from.
UpdateNsByName(x, p) ==
    /\ StoreNs(x)
    /\ pass' = p
    /\ UNCHANGED delayed

\* The update, after which the pass is p, or a conflict.
UpdateNs(x, p) ==
    \/ /\ Fresh(x)
       /\ StoreNs(x)
       /\ pass' = p
       /\ UNCHANGED delayed
    \/ /\ ~Fresh(x)
       /\ Requeue
       /\ UNCHANGED <<nsObj, nsWatch>>

-----------------------------------------------------------------------------
\* The worker.  Everything between Take and the end of the pass is one call
\* of Reconcile.

\* The worker takes n off the queue and reads it from the cache.
Take(n) ==
    /\ pass = IdlePass
    /\ n \in queue
    /\ queue' = queue \ {n}
    /\ pass' = IF nsCache[n].exists THEN StartPass(n, nsCache[n]) ELSE IdlePass
    /\ UNCHANGED <<server, caches, events, delayed, marked, bounds>>

\* Mutant: the marker goes with the window.
HoldClearedWhole(x) == [x EXCEPT !.until = 0, !.used = FALSE]

\* clearDriftHoldAnnotations, on the copy in memory.
HoldCleared(x) ==
    [x EXCEPT !.until = 0, !.used = @ /\ x.label = x.last]

\* getNamespaceClassSpec, and the first lines of shouldHoldAutoHeal.  A missing
\* class asks for nothing, so the pass goes on to remove what is there.
GetNamespaceClassSpec ==
    /\ pass.pc = "getClass"
    /\ LET x == class[pass.copy.label] IN
       \/ /\ x = Absent
          /\ Goto("apply")
       \/ /\ x # Absent /\ x.hold
          /\ pass' = [pass EXCEPT !.spec = x, !.pc = "drift"]
       \/ /\ x # Absent /\ ~x.hold
          /\ pass' = [pass EXCEPT !.spec = x, !.copy = HoldCleared(@),
                                  !.pc = "heldFalse"]
    /\ UNCHANGED <<server, caches, events, queue, delayed, marked, bounds>>

\* Only the specs are compared, so an object of a kind without one differs
\* only by not being there.
SpecDiffers(n, t) ==
    LET v == obj[PlaceOf(n, Target(t))]
    IN  v = Absent \/ (v # t /\ Target(t) \in HasSpec)

\* The turns of the loops over resources are over.
AllDone == pass.i > Len(pass.spec.res)
ThisTemplate == pass.spec.res[pass.i]

\* One turn of the loop of hasTemplateDrift.
HasTemplateDrift ==
    /\ pass.pc = "drift"
    /\ ~AllDone
    /\ pass' = IF ThisTemplate \notin Malformed /\ SpecDiffers(pass.n, ThisTemplate)
                 THEN [pass EXCEPT !.i = 1, !.pc = "hold"]
                 ELSE [pass EXCEPT !.i = @ + 1]
    /\ UNCHANGED <<server, caches, events, queue, delayed, marked, bounds>>

\* Without drift the copy is written back, its hold annotations cleared.
ClearHold ==
    LET x == HoldCleared(pass.copy) IN
    /\ pass.pc = "drift"
    /\ AllDone
    /\ UpdateNs(x, [pass EXCEPT !.copy = Stored(x), !.i = 1,
                                !.pc = "heldFalse"])
    /\ UNCHANGED <<class, heldCond, obj, inv, open, nsCache, invCache, invWatch,
                   events, queue, marked, bounds>>

\* Mutant: the window that was written is never looked at again.
HoldForgotten(x) == FALSE

\* The copy names a window whose end has not come.
HoldOpen(x) == x.until \in open[pass.n]

\* The rest of shouldHoldAutoHeal: drift was seen.  The hold goes on while its
\* window is open, and is started once as long as it is marked as used.
StartHold ==
    LET x == [pass.copy EXCEPT !.until = pass.copy.rv + 1, !.used = TRUE] IN
    /\ pass.pc = "hold"
    /\ ~HoldOpen(pass.copy) /\ ~pass.copy.used
    /\ UpdateNs(x, [pass EXCEPT !.copy = Stored(x), !.pc = "heldTrue"])
    /\ IF Fresh(x)
         THEN /\ open' = [open EXCEPT ![pass.n] = @ \cup {x.until}]
              /\ marked' = [marked EXCEPT ![pass.n] = x.label]
         ELSE UNCHANGED <<open, marked>>
    /\ UNCHANGED <<class, heldCond, obj, inv, nsCache, invCache, invWatch,
                   events, queue, bounds>>

KeepOrEndHold ==
    /\ pass.pc = "hold"
    /\ \/ HoldOpen(pass.copy) /\ Goto("heldTrue")
       \/ ~HoldOpen(pass.copy) /\ pass.copy.used /\ Goto("heldFalse")
    /\ UNCHANGED <<server, caches, events, queue, delayed, marked, bounds>>

\* setClassAutoHealHeldCondition: the class may be gone, and the caller ignores
\* every error.
SetClassAutoHealHeldCondition ==
    LET c == pass.copy.label
        Set(status) == heldCond' =
            IF class[c] = Absent THEN heldCond
                                 ELSE [heldCond EXCEPT ![c] = status]
    IN  /\ \/ pass.pc = "heldTrue" /\ Set("True") /\ Goto("switchHeld")
           \/ pass.pc = "heldFalse" /\ Set("False") /\ Goto("apply")
        /\ UNCHANGED <<class, nsObj, obj, inv, open, caches, events, queue,
                       delayed, marked, bounds>>

\* One turn of the loop of applyClassResources: the template is refused, its
\* Namespace is gone, or its object is created or overwritten.
Refused(t, spec) == t \in Malformed \/ (t \in HighRisk /\ ~spec.allow)

ApplyClassResource ==
    /\ pass.pc = "apply"
    /\ ~AllDone
    /\ LET t == ThisTemplate
           p == PlaceOf(pass.n, Target(t))
           impossible == Refused(t, pass.spec)
                            \/ (p[1] = pass.n /\ ~nsObj[pass.n].exists)
       IN  \/ /\ impossible
              /\ Requeue
              /\ UNCHANGED <<obj, childEvents>>
           \/ /\ ~impossible
              /\ ObjWrite(p, t)
              /\ pass' = [pass EXCEPT !.refs = @ \cup {RefOf[t]}, !.i = @ + 1]
              /\ UNCHANGED delayed
    /\ UNCHANGED <<class, heldCond, nsObj, inv, open, caches, classEvents,
                   queue, marked, bounds>>

\* Mutants: a missing ConfigMap, or any, is read wrongly.
ListedRaw(v) == v
ListedNothing(v) == {}

\* readInventory: what an inventory lists, nothing if there is none.
Listed(v) == IF v = NoInventory THEN {} ELSE v

\* It reads the cache, which is up to date unless it may lag.
ReadInventory ==
    /\ pass.pc = "apply"
    /\ AllDone
    /\ "lag" \in Faults \/ invWatch[pass.n] = <<>>
    /\ pass' = [pass EXCEPT !.prev = Listed(invCache[pass.n]), !.pc = "delete"]
    /\ UNCHANGED <<server, caches, events, queue, delayed, marked, bounds>>

\* deleteRemovedResources deletes what the inventory lists and this pass did
\* not apply, told apart by Ref.
Removed == pass.prev \ pass.refs

DeleteRemovedResource(r) ==
    /\ pass.pc = "delete"
    /\ r \in Removed
    /\ ObjWrite(PlaceOf(pass.n, ObjectOf[r]), Absent)
    /\ pass' = [pass EXCEPT !.prev = @ \ {r}]
    /\ UNCHANGED <<class, heldCond, nsObj, inv, open, caches, classEvents,
                   queue, delayed, marked, bounds>>

\* A Ref whose kind discovery does not know just now is passed over.
SkipUnmappedResource(r) ==
    /\ Fault("discovery")
    /\ pass.pc = "delete"
    /\ r \in Removed
    /\ pass' = [pass EXCEPT !.prev = @ \ {r}]
    /\ UNCHANGED <<server, caches, events, queue, delayed, marked, edits>>

\* writeInventory reads the cache a second time and creates or updates; either
\* fails unless that copy is the version on the server.
WriteInventory ==
    /\ pass.pc = "delete"
    /\ Removed = {}
    /\ \/ /\ invWatch[pass.n] = <<>>
          /\ nsObj[pass.n].exists
          /\ inv' = [inv EXCEPT ![pass.n] = pass.refs]
          /\ invWatch' = IF inv[pass.n] = pass.refs THEN invWatch
                           ELSE [invWatch EXCEPT ![pass.n] = <<pass.refs>>]
          /\ Goto("switch")
          /\ UNCHANGED delayed
       \/ /\ invWatch[pass.n] # <<>> \/ ~nsObj[pass.n].exists
          /\ Requeue
          /\ UNCHANGED <<inv, invWatch>>
    /\ UNCHANGED <<class, heldCond, nsObj, obj, open, nsCache, nsWatch,
                   invCache, events, queue, marked, bounds>>

\* Mutant: previous-class is overwritten though no class was applied before.
SwitchedFromNone(x) == [x EXCEPT !.last = x.label, !.prev = x.last]

\* updateSwitchAnnotations: nothing to write, or the switch is recorded.
Switched(x) ==
    [x EXCEPT !.last = x.label,
              !.prev = IF x.last = NoClass THEN x.prev ELSE x.last]

UpdateSwitchAnnotations ==
    /\ pass.pc = "switch"
    /\ \/ /\ pass.copy.last = pass.copy.label
          /\ pass' = IdlePass
          /\ UNCHANGED <<nsObj, nsWatch, delayed>>
       \/ /\ pass.copy.last # pass.copy.label
          /\ UpdateNs(Switched(pass.copy), IdlePass)
    /\ UNCHANGED <<class, heldCond, obj, inv, open, nsCache, invCache, invWatch,
                   events, queue, marked, bounds>>

\* The same at the end of a held pass, which comes again after waitFor.
UpdateSwitchAnnotationsHeld ==
    /\ pass.pc = "switchHeld"
    /\ \/ pass.copy.last = pass.copy.label /\ UNCHANGED <<nsObj, nsWatch>>
       \/ /\ pass.copy.last # pass.copy.label
          /\ IF Fresh(pass.copy) THEN StoreNs(Switched(pass.copy))
                                 ELSE UNCHANGED <<nsObj, nsWatch>>
    /\ RequeueAfter
    /\ UNCHANGED <<class, heldCond, obj, inv, open, nsCache, invCache, invWatch,
                   events, queue, marked, bounds>>

-----------------------------------------------------------------------------
\* Delivery of what the controller watches.

Enqueue(S) == queue' = queue \cup S

\* Mutant: a change of label goes unnoticed.
NamespaceCreatedOrDeleted(old, new) == old.exists # new.exists

\* namespacePred: creation, deletion and a change of label matter.
NamespacePredicate(old, new) ==
    old.exists # new.exists \/ old.label # new.label

\* The next version of Namespace n reaches the cache.
DeliverNamespace(n) ==
    /\ nsWatch[n] # <<>>
    /\ LET x == Head(nsWatch[n]) IN
       /\ nsCache' = [nsCache EXCEPT ![n] = x]
       /\ Enqueue({m \in {n} : NamespacePredicate(nsCache[n], x)})
    /\ nsWatch' = [nsWatch EXCEPT ![n] = Tail(@)]
    /\ UNCHANGED <<server, invCache, invWatch, events, delayed, pass, marked,
                   bounds>>

\* The inventory is watched only to fill the cache.
DeliverInventory(n) ==
    /\ invWatch[n] # <<>>
    /\ invCache' = [invCache EXCEPT ![n] = Head(invWatch[n])]
    /\ invWatch' = [invWatch EXCEPT ![n] = Tail(@)]
    /\ UNCHANGED <<server, nsCache, nsWatch, events, queue, delayed, pass,
                   marked, bounds>>

\* Mutant: Namespaces that have not acknowledged the class yet are left out.
AcknowledgedNamespaces(c) ==
    {n \in Namespace : nsCache[n].exists /\ nsCache[n].last = c}

\* mapClassToNamespaces: the Namespaces that carry the label in the cache.
MapClassToNamespaces(c) ==
    {n \in Namespace : nsCache[n].exists /\ nsCache[n].label = c}

\* A class was created, deleted or given another spec.
DeliverClass(c) ==
    /\ c \in classEvents
    /\ classEvents' = classEvents \ {c}
    /\ Enqueue(MapClassToNamespaces(c))
    /\ UNCHANGED <<server, caches, childEvents, delayed, pass, marked, bounds>>

DeliverChild(n) ==
    /\ n \in childEvents
    /\ childEvents' = childEvents \ {n}
    /\ Enqueue({n})
    /\ UNCHANGED <<server, caches, classEvents, delayed, pass, marked, bounds>>

\* The informers resync: managed objects of watched kinds pass the predicate
\* again, Namespaces and classes that did not change do not.
Resync(n) ==
    /\ "resync" \in Faults
    /\ n \notin queue
    /\ \E o \in Watched : obj[<<n, o>>] # Absent
    /\ Enqueue({n})
    /\ UNCHANGED <<server, caches, events, delayed, pass, marked, bounds>>

RetryFires(n) ==
    /\ n \in delayed
    /\ delayed' = delayed \ {n}
    /\ Enqueue({n})
    /\ UNCHANGED <<server, caches, events, pass, marked, bounds>>

\* Time passes the end of the hold window that version k of n started.
WindowElapses(n, k) ==
    /\ k \in open[n]
    /\ open' = [open EXCEPT ![n] = @ \ {k}]
    /\ UNCHANGED <<class, heldCond, nsObj, obj, inv, caches, events, queue,
                   delayed, pass, marked, bounds>>

-----------------------------------------------------------------------------
\* Failures.

\* The pass is about to call the API server, and returns the error it may get.
CallPending ==
    \/ pass.pc \in {"getClass", "delete"}
    \/ pass.pc = "drift" /\ (~AllDone => ThisTemplate \notin Malformed)
    \/ pass.pc = "hold" /\ ~HoldOpen(pass.copy) /\ ~pass.copy.used
    \/ pass.pc = "apply" /\ ~AllDone /\ ThisTemplate \notin Malformed
    \/ pass.pc \in {"switch", "switchHeld"} /\ pass.copy.last # pass.copy.label

\* A call fails.  One that took effect but whose answer was lost is a call that
\* succeeded followed by one that fails.
ApiFails ==
    /\ Fault("api")
    /\ CallPending
    /\ Requeue
    /\ UNCHANGED <<server, caches, events, queue, marked, edits>>

\* The callers of setClassAutoHealHeldCondition go on whatever it returns.
ConditionFails ==
    /\ Fault("api")
    /\ \/ pass.pc = "heldTrue" /\ Goto("switchHeld")
       \/ pass.pc = "heldFalse" /\ Goto("apply")
    /\ UNCHANGED <<server, caches, events, queue, delayed, marked, edits>>

\* The manager stops between two calls and starts again: its memory is gone,
\* the caches are filled from the server and every Namespace is queued.
Restart ==
    /\ Fault("restart")
    /\ pass' = IdlePass
    /\ nsCache' = nsObj
    /\ invCache' = inv
    /\ nsWatch' = [n \in Namespace |-> <<>>]
    /\ invWatch' = [n \in Namespace |-> <<>>]
    /\ classEvents' = {}
    /\ childEvents' = {}
    /\ queue' = {n \in Namespace : nsObj[n].exists}
    /\ delayed' = {}
    /\ UNCHANGED <<server, marked, edits>>

-----------------------------------------------------------------------------
\* Users, and the components that other modules describe.

Edit == edits < MaxEdits /\ edits' = edits + 1

\* A user labels, relabels or unlabels a Namespace.
Relabel(n, l) ==
    /\ Edit
    /\ nsObj[n].exists
    /\ nsObj[n].label # l
    /\ NsWrite(n, [nsObj[n] EXCEPT !.label = l])
    /\ UNCHANGED <<class, heldCond, obj, inv, open, nsCache, invCache, invWatch,
                   events, queue, delayed, pass, marked, faults>>

\* The change request reconciler rolls a switch back, in one update that the
\* server accepts only if its copy of the Namespace is the current version.
RollBackSwitch(n) ==
    LET x == nsObj[n] IN
    /\ Edit
    /\ x.exists
    /\ x.label # NoClass
    /\ x.prev \notin {NoClass, x.label}
    /\ class[x.prev] # Absent
    /\ class[x.prev].res # <<>>
    /\ NsWrite(n, [x EXCEPT !.label = x.prev, !.last = x.prev,
                            !.prev = NoClass])
    /\ UNCHANGED <<class, heldCond, obj, inv, open, nsCache, invCache, invWatch,
                   events, queue, delayed, pass, marked, faults>>

\* A user or the change request reconciler creates, edits or deletes a class.
\* An edit of annotations alone does not change the generation: no event.
EditClass(c, x) ==
    /\ Edit
    /\ class[c] # x
    /\ class' = [class EXCEPT ![c] = x]
    /\ LET recreated == x = Absent \/ class[c] = Absent IN
       /\ classEvents' = IF recreated \/ x.res # class[c].res
                           THEN classEvents \cup {c} ELSE classEvents
       /\ heldCond' = IF recreated THEN [heldCond EXCEPT ![c] = "Unset"]
                                   ELSE heldCond
    /\ UNCHANGED <<nsObj, obj, inv, open, caches, childEvents, queue, delayed,
                   pass, marked, faults>>

\* Somebody changes or deletes a managed object.
DriftObject(p, v) ==
    /\ Edit
    /\ p[2] \in DriftObjects
    /\ obj[p] \notin {Absent, v}
    /\ ObjWrite(p, v)
    /\ UNCHANGED <<class, heldCond, nsObj, inv, open, caches, classEvents,
                   queue, delayed, pass, marked, faults>>

\* A Namespace is deleted with everything in it.
DeleteNamespace(n) ==
    /\ Edit
    /\ nsObj[n].exists
    /\ NsWrite(n, NoNamespace(nsObj[n].rv))
    /\ obj' = [p \in Place |-> IF p[1] = n THEN Absent ELSE obj[p]]
    /\ childEvents' =
          IF \E o \in Watched : obj[<<n, o>>] # Absent
            THEN childEvents \cup {n} ELSE childEvents
    /\ inv' = [inv EXCEPT ![n] = NoInventory]
    /\ invWatch' = IF inv[n] = NoInventory THEN invWatch
                     ELSE [invWatch EXCEPT ![n] = Append(@, NoInventory)]
    /\ UNCHANGED <<class, heldCond, open, nsCache, invCache, classEvents, queue,
                   delayed, pass, marked, faults>>

CreateNamespace(n, l) ==
    /\ Edit
    /\ ~nsObj[n].exists
    /\ NsWrite(n, NewNamespace(l, nsObj[n].rv))
    /\ UNCHANGED <<class, heldCond, obj, inv, open, nsCache, invCache, invWatch,
                   events, queue, delayed, pass, marked, faults>>

-----------------------------------------------------------------------------
Reconcile ==
    \/ GetNamespaceClassSpec
    \/ HasTemplateDrift
    \/ ClearHold
    \/ StartHold
    \/ KeepOrEndHold
    \/ SetClassAutoHealHeldCondition
    \/ ApplyClassResource
    \/ ReadInventory
    \/ \E r \in Ref : DeleteRemovedResource(r)
    \/ WriteInventory
    \/ UpdateSwitchAnnotations
    \/ UpdateSwitchAnnotationsHeld

Failure ==
    \/ ApiFails
    \/ ConditionFails
    \/ Restart
    \/ \E r \in Ref : SkipUnmappedResource(r)

Deliver ==
    \/ \E n \in Namespace :
          \/ DeliverNamespace(n)
          \/ DeliverInventory(n)
          \/ DeliverChild(n)
          \/ RetryFires(n)
          \/ Resync(n)
          \/ \E k \in open[n] : WindowElapses(n, k)
    \/ \E c \in Class : DeliverClass(c)

Controller == (\E n \in Namespace : Take(n)) \/ Reconcile \/ Failure \/ Deliver

Users ==
    \/ \E n \in Namespace :
          \/ \E l \in MaybeClass : Relabel(n, l) \/ CreateNamespace(n, l)
          \/ RollBackSwitch(n)
          \/ DeleteNamespace(n)
    \/ \E c \in Class, x \in ClassContents \cup {Absent} : EditClass(c, x)
    \/ \E p \in Place, v \in {Absent, Tampered} : DriftObject(p, v)

Next == Controller \/ Users

Spec == Init /\ [][Next]_vars

\* The worker runs, its queue is first in first out, events arrive, delays and
\* hold windows end.  Nothing is assumed of users or failures.
Fairness ==
    /\ WF_vars(Reconcile)
    /\ \A n \in Namespace :
          /\ SF_vars(Take(n))
          /\ WF_vars(DeliverNamespace(n))
          /\ WF_vars(DeliverInventory(n))
          /\ WF_vars(DeliverChild(n))
          /\ WF_vars(RetryFires(n))
          /\ WF_vars(\E k \in open[n] : WindowElapses(n, k))
    /\ \A c \in Class : WF_vars(DeliverClass(c))

FairSpec == Spec /\ Fairness

-----------------------------------------------------------------------------
\* Properties.

WantedTemplates(n) ==
    LET c == nsObj[n].label
    IN  IF c = NoClass \/ class[c] = Absent THEN {}
        ELSE {class[c].res[k] : k \in DOMAIN class[c].res}

Acceptable(n) ==
    \A t \in WantedTemplates(n) : ~Refused(t, class[nsObj[n].label])

\* Nothing is left that would make the controller look at Namespace n again.
Settled(n) ==
    /\ nsObj[n].exists
    /\ pass = IdlePass \/ pass.n # n
    /\ n \notin queue \cup delayed \cup childEvents
    /\ nsWatch[n] = <<>>
    /\ nsObj[n].label \notin classEvents

InSync(n) ==
    /\ nsObj[n].last = nsObj[n].label
    /\ inv[n] = {RefOf[t] : t \in WantedTemplates(n)}
    /\ \A t \in WantedTemplates(n) :
          Target(t) \in Watched => obj[PlaceOf(n, Target(t))] = t

\* No wakeup is lost: once nothing will make the controller look at a Namespace
\* again, its inventory and its watched objects are those of its class, whatever
\* edits, stale caches, conflicts, failures and restarts came before.  A class
\* with a template that is refused keeps its Namespaces from settling
\* (the predicates of SetupWithManager against the reads of Reconcile).
SettledInSync == \A n \in Namespace : Settled(n) => InSync(n)

\* The inventory accounts for every object of a settled Namespace, so nothing a
\* class no longer names is left behind (README: "delete objects that existed in
\* prior inventory but are absent in current desired state").
SettledNoOrphan ==
    \A n \in Namespace, o \in Object \ ClusterScoped :
        Settled(n) /\ obj[<<n, o>>] # Absent =>
            \E r \in inv[n] : ObjectOf[r] = o

\* A pass that repairs a class with a hold is outside every hold window that the
\* server's version of the Namespace names, unless that version is newer than the
\* pass's copy: a restart, a stale cache or a retry does not cut a hold short
\* (shouldHoldAutoHeal).
HoldRespected ==
    /\ pass.pc \in {"heldFalse", "apply", "delete"}
    /\ pass.spec.hold
    /\ Fresh(pass.copy)
    => nsObj[pass.n].until \notin open[pass.n]

\* The controller writes whole Namespaces from stale copies, and yet never
\* undoes a label that a user has changed: the server refuses the copy.
LabelKept ==
    [][edits' = edits =>
          \A n \in Namespace : nsObj'[n].label = nsObj[n].label]_vars

\* A hold that was used stays used while the Namespace keeps its class, through
\* every pass, conflict and failure: the hold cannot be started over and over
\* (clearDriftHoldAnnotations; README: "will not keep extending the hold").
HoldMarkerKept ==
    [][\A n \in Namespace :
          /\ nsObj[n].exists /\ nsObj[n].used
          /\ nsObj[n].last = nsObj[n].label
          /\ nsObj'[n].exists /\ nsObj'[n].label = nsObj[n].label
          => nsObj'[n].used]_vars

\* When users and failures stop, every Namespace gets to follow its class: held
\* passes, conflicts and retries all end.
Converges ==
    <>[](\A n \in Namespace : nsObj[n].exists /\ Acceptable(n) => InSync(n))

\* The pass is about to repair, under a class with a hold, an object that is not
\* as its template wants it, and that did not change after the pass began: such
\* a change is on its way to the controller, or has queued the Namespace again.
RepairsNext ==
    /\ pass # IdlePass
    /\ pass.pc \in {"drift", "hold"}
    /\ pass'.pc = "heldFalse"
    /\ pass'.spec.hold
    /\ pass.n \notin queue \cup childEvents
    /\ \E t \in {pass.spec.res[k] : k \in DOMAIN pass.spec.res} \ Malformed :
          Target(t) \in Watched /\ obj[PlaceOf(pass.n, Target(t))] # t

\* README:232 calls the hold one-shot per class switch: a class with a hold
\* repairs a Namespace only after a hold was started there under that class, and
\* not on the strength of one that belonged to the class before
\* (shouldHoldAutoHeal, clearDriftHoldAnnotations).
HeldBeforeRepair == [][RepairsNext => marked[pass.n] = pass.copy.label]_vars

\* README:54 has the controller delete objects that are absent in the current
\* desired state: a pass never deletes what it has just applied.
AppliedNotDeleted ==
    [][\A r \in Ref :
          (pass # IdlePass /\ r \in pass.refs) =>
              LET p == PlaceOf(pass.n, ObjectOf[r])
              IN  ~(pass.pc = "delete" /\ edits' = edits
                    /\ obj[p] # Absent /\ obj'[p] = Absent)]_vars

\* The class annotations of the Namespaces, as SwitchRecord describes them.
Log == INSTANCE SwitchRecord WITH existing <- {n \in Namespace : nsObj[n].exists},
                                  label <- [n \in Namespace |-> nsObj[n].label],
                                  last <- [n \in Namespace |-> nsObj[n].last],
                                  prev <- [n \in Namespace |-> nsObj[n].prev]

\* Every write of a Namespace is one step of that record: a switch is recorded
\* exactly once, over the label it was made for, and a stale copy never revives
\* a rollback target that was already spent (updateSwitchAnnotations).
SwitchesRecorded == Log!Spec
=============================================================================
