# NamespaceClass controller: TLA+ models

Models of the programs under `src/`: a Kubernetes controller that makes the
objects in a Namespace follow the NamespaceClass its label names, an AI watcher
that looks for drift and recommends changes, and a controller that applies
approved recommendations. TLC checks them on small instances, TLAPS proves the
safety properties for every instance. Line numbers refer to
`src/internal/controller/namespaceclass_controller.go` (NC),
`src/internal/controller/changerequest_controller.go` (CR),
`src/internal/aiwatcher/watcher.go` (W) and `compare_strategy.go` (CS).

## 1. The system

| Component | State | Operations | Talks to | Hard about it |
|---|---|---|---|---|
| NamespaceClass reconciler (NC) | none between passes; everything in labels and annotations of Namespaces, in the inventory ConfigMap, in a status condition | `Reconcile`: read the class, hold or repair, apply templates, delete what is no longer desired, write the inventory, record the switch | informer caches (Namespaces, inventory), API server (classes, objects), workqueue | every call may fail or meet a newer version; caches lag; predicates drop events; the whole Namespace is written from a cached copy |
| ChangeRequest reconciler (CR) | none between passes; `status.phase` of the request | `Reconcile`: check approval, gate and risk, update the class, roll Namespaces back, mark the recommendation, answer | classes (two writers of spec, three of status), Namespaces by cache, requests | validates one version and writes another unless the server objects; steps of one approval fail separately; wakes itself |
| AI watcher (W) | `lastDigest` in memory | a poll over all classes: detect drift, compare the digest, choose a base, ask OpenAI, write `status.recommendations` | the API server live, OpenAI | runs beside both reconcilers without any lock; the digest is stored before the work is done |
| Comparison strategies (CS, W:484-774) | none | pure: which fields of an object are compared, normal order of lists | called by `detectDrift`; NC has a comparison of its own (`hasTemplateDrift`) | order, duplicates, empty and missing lists; defaults the server sets |
| Manager bootstrap (`main.go`) | flags | starts the three in one process | | a restart forgets queue, delays, digests |
| CRDs, samples, scripts | | | | used as sources of what is promised |

What makes each correct:

- NC: no wakeup is lost, so a Namespace nothing will touch again is in step with
  its class; nothing a class no longer names stays behind; a hold is used once per
  switch, not cut short and not extended; user labels are never undone; every
  switch is recorded once, because the record is what a rollback trusts.
- CR: what lands in a class is the recommendation named, as it stands, with its
  risk allowed and its review link given; every approved request is answered; one
  approval is applied once; a rollback undoes the last switch or nothing.
- W: drift that stays is reported; what is not drift is not; the condition tells
  whether a recommendation waits, whoever wrote last.
- Strategies: drift is what the documents say is compared, and only that; what the
  server makes of a template is not drift.

## 2. Modules

| Module | Models |
|---|---|
| `NamespaceReconciler` | NC in detail, with informers, workqueue and failures; users and CR as its environment |
| `SwitchRecord` | the abstract record of label, last-class and previous-class that both NC and CR must implement |
| `NamespaceReconcilerProofs` | theorems about `NamespaceReconciler`: writes of Namespaces, hold windows |
| `NamespaceSettledProofs` | theorems about `NamespaceReconciler`: what settled Namespaces have, inventories |
| `ApprovalState` | the shared state of the approval flow: classes with status, requests, Namespaces |
| `ChangeRequest` | CR in detail |
| `AIWatcher` | W in detail, comparison of objects abstracted |
| `DriftComparison` | how W compares one object with its template, and what the server makes of it |
| `DriftComparisonProofs` | theorems about `DriftComparison` |
| `ApprovalFlow` | CR and W in one process, with users and with what they can see of NC |
| `ApprovalFlowProofs` | theorems about `ApprovalFlow` |
| `MCNamespaceReconciler`, `MCApprovalFlow`, `MCDriftComparison` | instances for TLC |

### NamespaceReconciler

One `Reconcile` runs at a time (`MaxConcurrentReconciles` is 1). Each call to the
API server is one action and `pass` holds the local variables between them, so
anything may happen between two calls:

| Code | Actions |
|---|---|
| NC:165-175 `Get` of the Namespace | `Take` |
| NC:249 `getNamespaceClassSpec`, start of `shouldHoldAutoHeal` | `GetNamespaceClassSpec` |
| NC:427 `hasTemplateDrift`, one template at a time | `HasTemplateDrift` |
| NC:302-338 hold decision and its annotations | `ClearHold`, `StartHold`, `KeepOrEndHold` |
| NC:377 condition AutoHealHeld | `SetClassAutoHealHeldCondition` |
| NC:476 `applyClassResources`, one template at a time | `ApplyClassResource` |
| NC:591, 556, 611 inventory and deletions | `ReadInventory`, `DeleteRemovedResource`, `WriteInventory` |
| NC:223 `updateSwitchAnnotations` | `UpdateSwitchAnnotations`, `...Held` |
| NC:87-163 predicates and watches | `DeliverNamespace`, `DeliverClass`, `DeliverChild`, `DeliverInventory` |
| error returns, `RequeueAfter` | `Requeue`, `RequeueAfter`, `RetryFires` |

Server and cache. A Namespace has a version counter `rv`; `nsWatch` holds the
versions the informer has yet to see, `nsCache` its copy. An update from a copy
whose `rv` is not the server's is refused (`Fresh`). Classes and objects are read
live: they are unstructured, and the manager's client caches typed objects only.
The inventory ConfigMap is cached as Namespaces are. Class and object events are
sets, since the queue merges them.

Abstractions:

- A template is a model value with a `Ref` (apiVersion, kind, name) and, behind
  it, an object; two Refs may address one object. Contents are the template that
  was applied or `Tampered`. The managed, class and hash labels of an object
  follow from it and are not kept; that the server may set defaults is left to
  `DriftComparison`.
- Time: a hold window is named by the version that started it and is open until
  `WindowElapses`. Delays of the queue end at any time.
- Deleting a Namespace is one step. Its phase Terminating is left out.
- A call that succeeds while its answer is lost is a success followed by a
  failure of the next call. A conflict between the `Get` and the `Update` of a
  managed object is a failed call.
- The predicate for children looks at labels; changes made by hand keep them.
- `classHasPendingRecommendation` (NC:340-362) is called by nothing and has no
  counterpart.

### ChangeRequest, AIWatcher, ApprovalFlow

| Code | Actions |
|---|---|
| CR:42-65 request read, approval, required fields | `TakeRequest` |
| CR:67-135 class read, gate, recommendation, risk | `GetClass` |
| CR:137-152 update of the class | `UpdateClass` |
| CR:288-352 rollback | `ListNamespaces`, `CheckPreviousClass`, `RollBackNamespace` |
| CR:257-286 recommendation marked | `UpdateNamespaceClassStatus`, `ClassStatusFails` |
| CR:199-223 answer, with its audit fields | `UpdateChangeRequestStatus` |
| W:64-88 the loop | `StartPoll`, `NextClass`, `EndPoll`, `ClassFails` |
| W:148-229 `detectDrift`, one Namespace at a time | `DetectDrift`, `CannotRead` |
| W:106-117 digest | `CompareDigest` |
| W:119-132 base and proposal | `ChooseBase`, `BaseFails`, `AskOpenAI`, `OpenAIFails` |
| W:385-440 `writeClassStatus` | `WriteClassStatus` |

CR's worker and W interleave freely; all their reads and writes are separate
steps, with these exceptions: `RetryOnConflict` around a read and a write is one
step, because a conflict only repeats it (five conflicts in a row are a failed
call); and W reads all objects of one Namespace in one step.

The version of a class matters only to CR's optimistic update, so `seen` holds
the classes nobody wrote since the running pass read them: an update by CR is
accepted if its class is in `seen`. Namespaces are cached for CR (`nsCache`,
refreshed at any time) and read live by W.

The objects and inventory of a Namespace are one value in `actual`: the resources
they amount to, or `Tampered`. Resources are three values: none, ordinary, with a
high-risk kind. OpenAI may answer any of them; no or unreadable resources stand
for the ones sent. Recommendation ids are numbers, as if the hash of name and
second never collided. Of NC, `ApprovalFlow` keeps `Repair`, also half done
(`RepairHalfway`), `RecordSwitch` and the status writes that make CR's copy of a
class stale (`ReportClass`); no fairness is assumed of them since NC may be in a
hold, refuse the class or, for kinds it does not watch, never look. Of the audit
fields of a request the snapshot and the URL are kept (`audit`); `applied` is a
history variable, what `UpdateClass` last put in a class for each request. Retry
delays, messages and time stamps are left out; that a time stamp is new to the
second, and so wakes CR or not, is a choice in `UpdateChangeRequestStatus`. One
replica runs; W has no leader election (W:90), so more replicas would mean more
writers of recommendations. The inventory a Namespace does not have yet counts as
one that lists nothing.

### DriftComparison

| Code | Definitions |
|---|---|
| CS:14-50 `compareStrategies`, `strategyForKind` | `StrategyForKind` |
| W:528-583, 641-729 extractors | `DataField`, `RulesField`, ...: fields compared, fields sorted, fields that count as empty when missing; `Extracted` |
| W:585-774 normalisation | `NormalizedNamedRefs`, `NormalizedRules`, `NormalizedByKey`, `NormalizedValues`; `InOrder` with `Less`, `KeyLess`, `ItemLess` |
| W:171-188 `detectDrift`, one template | `WatcherSeesDrift` |
| NC:520-541 create or update | `ApplyClassResource` |

One template and its object, through applications, edits by hand and edits of the
class. Both are functions of the fields they have; a field is a number or a list,
an item of a list of rules, webhooks or limits is a sort key, the rest that is
compared, and a rest that is not. `InOrder` is what `sort.Slice` promises:
some arrangement in which no item comes after a greater one. `Stored` is what the server makes of an object
(external): it drops certain empty lists and sets the defaults of a LimitRange
and the `policyTypes` of a NetworkPolicy. Entries of data stand beside
`binaryData`, so no entry may have that name; keys of webhooks and limits are
unique (`ListsOf`, what the server accepts), as the sort by key alone needs. Kinds
without a strategy do not use the names of the lists that are sorted; a list of
theirs has another name in the model. Every object of a kind with a spec has
one. Left out: `stringData` of a Secret, formats of numbers in JSON, items that
are not objects.

## 3. Runs

States are distinct ones; two workers need at most three minutes for a run.

| Run | Instance | Properties | Shows |
|---|---|---|---|
| `ns_switch` | 1 Namespace, 2 classes, 2 contents (with a hold and without), an object changed by hand, restarts; 2.5M | `TypeOK`, `SettledInSync`, `HoldRespected`, `LabelKept`, `SwitchesRecorded`, `HoldMarkerKept` | edits, switches, rollbacks and a restart at any step: no wakeup is lost, no label undone, each switch recorded once; a hold is not cut short and not begun again while the class stays |
| `ns_shared` | 2 Namespaces, 1 class, 3 contents (two of them with a cluster-scoped object, refused and allowed), failed calls, inventory lag, discovery failures; 1.9M | `SettledInSync` | each Namespace ends in step although they meet in one class, whatever call fails; an edit of annotations alone, which raises no event, is found by the retry of a refused pass |
| `ns_converge` | 1 Namespace, 1 class, 3 contents, resync, fairness; 0.3M | `SettledNoOrphan`, `Converges` | a Namespace gets to follow its class when users stop; without refused lists nothing is left behind |
| `ap_flow` | 1 Namespace, 1 class gated or not, 1 request with 2 decisions, every kind of fault, 2 recommendations, fairness; 0.8M | `TypeOK`, `PendingIsReported`, `AuditTruthful`, `AppliedAsRecommended`, `AppliedIsAccepted`, `GateRespected`, `Answered` | what is applied is what was recommended, allowed and reviewed at that moment, and the request says so; condition and list agree; every approved request is answered |
| `ap_rollback` | 2 classes, a Namespace that has switched, cached copies, approvals that come and go, restarts; 2.3M | `SettledAnswered`, `SwitchesRecorded` | a rollback from a stale copy undoes the last recorded switch or is refused; a request at rest is answered as its approval stands |
| `cmp` | a template or more of every strategy, one with lists in two orders, duplicates, nameless references, defaults; 3 edits; 21k | `DriftExact` | drift is a difference in a documented field, whatever the order of lists |

Six runs show where code and documents part:

| Run | Property | What happens |
|---|---|---|
| `ns_orphan` | `SettledNoOrphan` | Templates applied before a later one is refused are not in the inventory; when the class drops them they stay (README:54, 60 of the repository). |
| `ns_rearm` | `HeldBeforeRepair` | The used marker of a hold survives the switch, so the next class has no hold: its first repairs go ahead (README:232 "one-shot per class switch"; comment NC:371). |
| `ns_alias` | `AppliedNotDeleted` | A class that names the same object by another apiVersion has it applied and deleted in one pass (README:54). |
| `watch_retry` | `DriftIsReported` | The digest is stored before OpenAI answers; after one failure the same drift is never analysed again (README:241). Needs drift that NC leaves alone, such as a changed object of an unwatched kind. |
| `cr_again` | `AppliedOnce` | An applied request is applied again at its next wakeup, its own status write included, and undoes an upgrade made since (README:400; "the time the recommendation was applied" in the CRD). |
| `cmp_defaults` | `AppliedIsClean` | The server fills in the defaults of a LimitRange and W compares them, so the object just applied counts as drift for good; README:400 says of the sample that has this LimitRange that applying it creates no recommendation. |

`HeldBeforeRepair` says more than that run shows. It leaves out what changed after
the pass began, which no comparison could have seen, and counts what the
comparison of specs cannot see: with a changed ConfigMap and a class that is given
a hold, as in README:441-446, TLC refutes it too. The run has one edit and no
objects changed by hand, so its trace is about the marker.

Known and not checked: a poll between a class upgrade and the pass that applies it
takes the old objects for drift, although README:400 says an upgrade by itself
creates no recommendation (W:100). `ApprovalFlow` contains this behaviour.

Bounds. `MaxEdits` bounds what users (for `NamespaceReconciler` also CR) do,
`MaxFaults` failed calls and restarts, `MaxRecs` recommendations, and the cfg
gives their values. Two or three edits are enough for the patterns that matter: an
edit, another one while the controller acts on the first, and a third that undoes
it (`ns_shared`, whose two Namespaces may each need a pass for it, has one edit and
one fault); one fault reaches every error path once, at every point. Two classes are
needed for a switch, and two Namespaces for a class or an object to be shared.
`MaxRecs` 2 lets the watcher replace a recommendation that is being applied. In
`cmp` three edits change a template, an object and its order between applications;
lists have up to three items, enough for an order, a duplicate and both at once.
Fault kinds are switched on per run: `api`, `restart`, `discovery` (a failing
RESTMapping), `lag` (the inventory cache), `resync`, `openai`, `busy` (a status
write by an idle pass). `ns_switch` has restarts and `ns_shared` failed calls; the
theorems, which hold for every set of faults, have both at once. In the
watcher, a recommendation beyond `MaxRecs` blocks the poll.

Symmetry: classes, and in `ns_shared` Namespaces, are interchangeable at first, and
the runs that use it are all safety runs.

Deadlock is not checked (except in `cmp`): with users done and nothing to repair
the controller rests.

Fairness. The worker runs and its calls return: weak fairness of `Reconcile`,
`ReconcileRequest`, `ReconcileClasses`. Taking an item needs strong fairness per
key: there is one worker, and the queue is first in first out, so a key that is
queued again and again while others are taken does get its turn. Informers
deliver, delays and hold windows end: weak fairness each. Nothing is assumed of
users and failures; they are only bounded.

Mutants. Every property has a mutated definition under which TLC refutes it, the
kind of mistake a change could make: a lost requeue, a predicate without
updates, an update by name without version check, a switch recorded from no
class, a hold that is forgotten, a cache that answers nothing. Their definitions
stand before the ones they replace.

## 4. Proofs

`NamespaceReconcilerProofs` proves for all Namespaces, classes, templates,
contents and bounds that satisfy the assumptions of `NamespaceReconciler`:

| Theorem | Statement |
|---|---|
| `TypeCorrect` | `Spec => []TypeOK` |
| `VersionsCorrect` | `Spec => []Versions` |
| `LabelKeptCorrect` | `Spec => LabelKept` |
| `HoldMarkerKeptCorrect` | `Spec => HoldMarkerKept` |
| `SwitchesRecordedCorrect` | `Spec => SwitchesRecorded`: refinement of `SwitchRecord` |
| `HoldRespectedCorrect` | `Spec => []HoldRespected` |

The argument. All four properties are about writes of a Namespace from a copy
made earlier. The server compares version numbers, the properties speak of
contents; what connects them is `Versions`: every copy, in the cache, on the
watch or in a pass, is a version the server has held, and a copy with the
server's number has the server's contents. It is inductive with `TypeOK`
(`CacheVersions` for informers, `CopyVersion` for the running pass, including the
copy a pass keeps after its own update). From it, `ControllerWrites` lists the
only three changes the controller can make to a Namespace: hold cleared, hold
started, switch recorded, each over current contents. `LabelKept`,
`HoldMarkerKept` and the refinement follow by cases. `HoldRespected` needs one
more invariant, `HoldWindows`: a pass that is past the hold decision, with a class
that holds, has a copy whose window is over.

`NamespaceSettledProofs` builds on it, under the same assumptions:

| Theorem | Statement | Assumed besides |
|---|---|---|
| `FollowingCorrect` | `Spec => []Following` | |
| `SettledInSyncCorrect` | `Spec => []SettledInSync` | |
| `SettledNoOrphanCorrect` | `Spec => []SettledNoOrphan` | `WholePasses` |

A property of settled Namespaces is not inductive: it says nothing until the last
queue is empty. The argument for `SettledInSync` replaces "settled" by `Quiet(n)`,
which may hold in the middle of a pass: the cache and all versions on the watch
have the label of the server, the key is in no queue, and no event of its class or
children is under way. Then:

- `Following` is about versions and labels. The watch ends in the server's
  version; a pass with another label than the cache has its key queued; and once a
  version with the present label has its switch recorded, so has every later one.
  The last part is what the early return of `updateSwitchAnnotations` needs, which
  decides from the copy that there is nothing to record.
- `PassShape` ties the index of a pass to the Refs it has applied.
- `Followed`: the running pass of a quiet Namespace has the templates its class
  asks for now, those before the index are in place, and at the end the inventory
  is written; a quiet Namespace without a pass has all of it (`Synced`).
  `UndisturbedStep` shows that a step either changes nothing of this for a
  Namespace or leaves something that disturbs it: an edit leaves a class event or
  a version, a changed object a child event, a failed call a delayed key.

A class with a refused template needs no exception: its passes end in a delay, so
its Namespaces do not settle.

`Books` and `InventoryEnds` (for `SettledNoOrphan`): every object in a Namespace is
listed in the inventory or carried by the running pass, and while a pass deletes,
each entry of the inventory is applied, still to be deleted, or gone. `WholePasses`
says that no call fails, the controller is not restarted, the cache of inventories
does not lag, and a list that is refused is refused at its first template. Each
part is needed: `ns_orphan` shows the loss for a list refused later on, and a
failed call or restart between apply and inventory has the same effect.

`ApprovalFlowProofs` does the same for `ApprovalFlow`, under `ApprovalAssumption`.
With it every safety property of the two `ap_` runs is a theorem:

| Theorem | Statement |
|---|---|
| `FlowTypeCorrect` | `Spec => []TypeOK` |
| `AppliedAsRecommendedCorrect` | `Spec => AppliedAsRecommended` |
| `AppliedIsAcceptedCorrect` | `Spec => AppliedIsAccepted` |
| `GateRespectedCorrect` | `Spec => GateRespected` |
| `PendingIsReportedCorrect` | `Spec => []PendingIsReported` |
| `SettledAnsweredCorrect` | `Spec => []SettledAnswered` |
| `AuditTruthfulCorrect` | `Spec => []AuditTruthful` |
| `RollbacksRecordedCorrect` | `Spec => SwitchesRecorded`: refinement of `SwitchRecord` |

The argument. None of these properties is inductive, because each speaks of the
server and depends on what a pass or poll has read. The invariants they rest on:

- `Typed` is `TypeOK` with what a pass or poll has at each of its steps: a
  recommendation from the update on, an item while a Namespace is written.
- `CopyChecked`: while a pass is about to update a class that is still in `seen`,
  the class passes the checks of `GetClass`, and the recommendation found is in
  its place. A writer of the class takes it out of `seen`, so the checks hold
  whenever the server accepts the update. The three properties of what is applied
  follow from this one.
- `OneRecommendation`: a list has at most one entry, so marking the entry leaves
  none that waits, even if it is another one by then; that is why the condition
  CR writes is true of the list. `ClassReported` puts this and
  `PendingIsReported` together for one class.
- `PassAnswers`: the answer of a pass fits the approval it read; if the approval
  has changed since, the request is queued; and from the update on `applied` holds
  what the pass has applied. `ComesToRest` says that a request comes to rest by an
  answer only, and the two properties of requests at rest follow.
- `CopiesHeld`: as `Versions` above, for the cache and the Namespaces a rollback
  has yet to write.

`DriftComparisonProofs` proves the property of `cmp` for every set of templates
and fields, lists of any length and any number of edits, under
`ComparisonAssumption`:

| Theorem | Statement |
|---|---|
| `DriftExactCorrect` | `Spec => []DriftExact` |

The argument for `DriftExact`. The watcher sorts and compares, the property counts.
Both come to the same: there is a bijection between the places of two lists that
takes each item to an equal one (`Rearranged`). `SameTimes` gets it from equal
counts, value by value. For sorting, `ArrangementExists` gives every place the
number of places before it, and `OneOrder` says that sorted sequences with such a
bijection are equal: where they differ, one of them would hold too many small
items. `ArrangedByKey` shows that where no key comes twice (`TypeOK`) the order by key
alone is that of the whole items. `StrategyDocumented` compares the strategies of
the code with the documented table, and `ExtractedExact` puts it together, missing
and empty lists included.

The assumptions are those the modules name: names are distinct, `RefOf` and
`ObjectOf` are functions, watched kinds live in Namespaces, contents are sequences
of templates; for the comparison, templates and what users write are lists the
server accepts.

Only model-checked: `Converges` and `Answered`, since liveness is out of the prover's
reach. Every other property of a passing run is a theorem. Of the six properties
that runs violate, `SettledNoOrphan` is a theorem under the hypothesis above.

## 5. Plan

1. Done: `NamespaceReconciler`, its runs, type correctness and the theorems above.
2. Done: `ApprovalState`, `ChangeRequest`, `AIWatcher`, `ApprovalFlow` and their runs.
3. Done: `DriftComparison` and its run.
4. Done: `ApprovalFlowProofs`, the theorems of the approval flow.
5. Done: `NamespaceSettledProofs`, the theorems about settled Namespaces.
6. Done: `DriftComparisonProofs`, the comparison for lists of any length.
7. Several replicas of the watcher.

Not modelled: flags, logging and probes of `main.go`; the wording of messages; the
HTTP exchange with OpenAI beyond its outcome; the shell scripts; CRDs and samples,
which are sources of what is promised. Partly modelled: the API server and the
informers, as far as the controllers can tell; leader election, for the reconcilers
no more than a restart (the watcher does without, W:90). `NamespaceReconciler` does not have other
writers replace the conditions of a class (W:419, CR:275): `AutoHealHeld` can
vanish that way until the next pass writes it. No property speaks of `AutoHealHeld`:
several Namespaces share the condition, a class left during its hold keeps it, and
no document says what it promises.
