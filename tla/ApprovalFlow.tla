---------------------------- MODULE ApprovalFlow ----------------------------
(***************************************************************************)
(* The approval flow: the AI watcher recommends, users approve, the change  *)
(* request reconciler applies.  Both run in one manager, beside the         *)
(* NamespaceClass reconciler, of which only what the others can see is kept *)
(* here: NamespaceReconciler has it in detail.                              *)
(***************************************************************************)
EXTENDS ChangeRequest, AIWatcher

vars == <<served, bounds, crVars, watcherVars>>

TypeOK == StateTypeOK /\ CRTypeOK /\ WatcherTypeOK

Init == StateInit /\ CRInit /\ WatcherInit

-----------------------------------------------------------------------------
\* The NamespaceClass reconciler.

\* A pass brings the objects and the inventory of Namespace n in step with its
\* class, unless the class is refused, and reports on the class.  It comes when
\* it comes: it may be held, or in a retry.
Repair(n) ==
    LET l == nsObj[n].label IN
    /\ actual[n] # Wanted(l)
    /\ Wanted(l) \in HighRisk => class[l].allow
    /\ actual' = [actual EXCEPT ![n] = Wanted(l)]
    /\ seen' = seen \ {l}
    /\ UNCHANGED <<class, request, nsObj, recent, issued, applied, bounds,
                   crVars, watcherVars>>

\* A pass that is refused or fails on its way leaves some objects as they were.
RepairHalfway(n) ==
    LET l == nsObj[n].label IN
    /\ actual[n] \notin {Wanted(l), Tampered}
    /\ \/ Wanted(l) \in HighRisk /\ ~class[l].allow /\ UNCHANGED faults
       \/ Fault("api")
    /\ actual' = [actual EXCEPT ![n] = Tampered]
    /\ seen' = seen \ {l}
    /\ UNCHANGED <<class, request, nsObj, recent, issued, applied, edits, crVars,
                   watcherVars>>

\* A pass acknowledges the label of Namespace n.
RecordSwitch(n) ==
    LET x == nsObj[n] IN
    /\ x.last # x.label
    /\ WriteNamespace(n, [x EXCEPT !.last = x.label,
                                   !.prev = IF x.last = NoClass THEN @ ELSE x.last])
    /\ recent' = IF x.last = NoClass THEN recent ELSE recent \cup {n}
    /\ seen' = seen \ {x.label}
    /\ UNCHANGED <<class, request, actual, issued, applied, bounds, crVars,
                   watcherVars>>

\* A pass finds nothing to do and still writes the status of the class, with a
\* new lastTransitionTime (setClassAutoHealHeldCondition).
ReportClass(n) ==
    LET l == nsObj[n].label IN
    /\ Fault("busy")
    /\ l \in seen
    /\ seen' = seen \ {l}
    /\ UNCHANGED <<class, request, nsObj, recent, actual, issued, applied, edits,
                   crVars, watcherVars>>

\* switchDriftWindow has passed since the switch of Namespace n.
SwitchWindowEnds(n) ==
    /\ n \in recent
    /\ recent' = recent \ {n}
    /\ UNCHANGED <<class, seen, request, nsObj, actual, issued, applied, bounds,
                   crVars, watcherVars>>

-----------------------------------------------------------------------------
\* Users and failures.

Edit == edits < MaxEdits /\ edits' = edits + 1

Relabel(n, l) ==
    /\ Edit
    /\ nsObj[n].label # l
    /\ WriteNamespace(n, [nsObj[n] EXCEPT !.label = l])
    /\ UNCHANGED <<class, seen, request, recent, actual, issued, applied, faults, crVars,
                   watcherVars>>

\* Somebody changes the managed objects of Namespace n.
Tamper(n) ==
    /\ Edit
    /\ actual[n] \notin {Empty, Tampered}
    /\ actual' = [actual EXCEPT ![n] = Tampered]
    /\ UNCHANGED <<class, seen, request, nsObj, recent, issued, applied, faults, crVars,
                   watcherVars>>

\* kubectl apply of a class: its status stays.
EditClass(c, s) ==
    LET new == IF class[c] = Absent THEN NewClass(s)
               ELSE [class[c] EXCEPT !.res = s.res, !.allow = s.allow,
                                     !.gate = s.gate, !.suggest = s.suggest]
    IN  /\ Edit
        /\ class[c] # new
        /\ WriteClass(c, new)
        /\ UNCHANGED <<request, nsObj, recent, actual, issued, applied, faults,
                       crVars, watcherVars>>

DeleteClass(c) ==
    /\ Edit
    /\ class[c] # Absent
    /\ WriteClass(c, Absent)
    /\ UNCHANGED <<request, nsObj, recent, actual, issued, applied, faults,
                   crVars, watcherVars>>

\* A request is created or edited; it names a recommendation there has been.
PutRequest(q, c, id, d) ==
    LET new == [cls |-> c, rec |-> id, approved |-> d.approved, high |-> d.high,
                url |-> d.url,
                phase |-> IF request[q] = Absent THEN "None" ELSE request[q].phase,
                audit |-> IF request[q] = Absent THEN NoAudit ELSE request[q].audit]
    IN  /\ Edit
        /\ id <= issued
        /\ request[q] # new
        /\ request' = [request EXCEPT ![q] = new]
        /\ crQueue' = crQueue \cup {q}
        /\ UNCHANGED <<class, seen, nsObj, recent, actual, issued, applied,
                       faults, crPass, nsCache, watcherVars>>

DeleteRequest(q) ==
    /\ Edit
    /\ request[q] # Absent
    /\ request' = [request EXCEPT ![q] = Absent]
    /\ crQueue' = crQueue \cup {q}
    /\ UNCHANGED <<class, seen, nsObj, recent, actual, issued, applied, faults,
                   crPass, nsCache, watcherVars>>

\* The manager stops and starts again: passes, polls and digests are lost, and
\* every request is queued.
Restart ==
    /\ Fault("restart")
    /\ crPass' = NoPass
    /\ nsCache' = nsObj
    /\ crQueue' = {q \in Request : request[q] # Absent}
    /\ poll' = NoPoll
    /\ lastDigest' = [c \in Class |-> NoDigest]
    /\ UNCHANGED <<served, edits>>

-----------------------------------------------------------------------------
NamespaceNext ==
    \E n \in Namespace : \/ Repair(n)
                       \/ RepairHalfway(n)
                       \/ RecordSwitch(n)
                       \/ ReportClass(n)
                       \/ SwitchWindowEnds(n)

Users ==
    \/ \E n \in Namespace : Tamper(n) \/ \E l \in MaybeClass : Relabel(n, l)
    \/ \E c \in Class : DeleteClass(c) \/ \E s \in ClassSpecs : EditClass(c, s)
    \/ \E q \in Request :
          \/ DeleteRequest(q)
          \/ \E c \in MaybeClass, id \in 0..MaxRecs, d \in RequestSpecs :
                PutRequest(q, c, id, d)

Next ==
    \/ ChangeRequestNext /\ UNCHANGED watcherVars
    \/ WatcherNext /\ UNCHANGED crVars
    \/ NamespaceNext
    \/ Users
    \/ Restart

Spec == Init /\ [][Next]_vars

\* Both components run and the cache catches up.  A Namespace may be held or
\* refused for as long as it takes, so nothing is assumed of Repair.
FairSpec == Spec /\ ChangeRequestFairness /\ WatcherFairness

-----------------------------------------------------------------------------
\* Properties.

\* The condition RecommendationPending tells whether a recommendation waits,
\* although two components write it on versions of the status of their own
\* (writeClassStatus, updateNamespaceClassStatus).
PendingIsReported ==
    \A c \in Class :
        class[c] # Absent => (class[c].cond = "True" <=> Pending(class[c].recs))

\* Resources that no user wrote are those of the recommendation the request
\* names, as it stands on the class at that moment, whatever the watcher or users
\* did since the pass read it (README: "applies proposedResources").
AppliedAsRecommended ==
    [][\A c \in Class :
          edits' = edits /\ class'[c] # class[c] /\ class'[c].res # class[c].res =>
              \E i \in DOMAIN class[c].recs :
                  /\ class[c].recs[i].id = crPass.req.rec
                  /\ class[c].recs[i].res = class'[c].res]_vars

\* The NamespaceClass reconciler does not refuse as high-risk what a request has
\* put in a class: the annotation that allows it comes with it, and the two
\* controllers agree on such kinds (isHighRiskResource).  Templates without a kind
\* or name, which a request applies and the reconciler refuses, are left out.
AppliedIsAccepted ==
    [][\A c \in Class :
          edits' = edits /\ class'[c] # class[c] /\ class'[c].res # class[c].res =>
              (class'[c].res \in HighRisk => class'[c].allow)]_vars

\* What a request puts in a class behind the pull request gate has a URL, even if
\* the class came behind it after the pass read it (pullRequestGateMessage).
GateRespected ==
    [][\A c \in Class :
          edits' = edits /\ class'[c] # class[c] /\ class'[c].res # class[c].res =>
              (class[c].gate => crPass.req.url = "ok")]_vars

\* A rollback, made from a cached copy beside users who relabel and a controller
\* that records, undoes the last recorded switch of the current label or nothing.
Log == INSTANCE SwitchRecord WITH existing <- Namespace,
                                  label <- [n \in Namespace |-> nsObj[n].label],
                                  last <- [n \in Namespace |-> nsObj[n].last],
                                  prev <- [n \in Namespace |-> nsObj[n].prev]

SwitchesRecorded == Log!Spec

\* A request that is neither queued nor in a pass has been answered, and as its
\* approval stands now: with conflicts, failed calls, a restart and an edit or a
\* deletion at any moment, no wakeup is lost that would have changed the answer.
SettledAnswered ==
    \A q \in Request :
        request[q] # Absent /\ q \notin crQueue /\ (crPass # NoPass => crPass.q # q) =>
            request[q].phase \in IF request[q].approved THEN {"Applied", "Rejected"}
                                                       ELSE {"Pending"}

\* A request at rest that says Applied tells what was put in the class for it, and
\* on whose review, whatever was retried, edited or applied before (README, "Pull
\* request gating"; CRD: "at the time the recommendation was applied").  A request
\* without a URL keeps the one of an earlier application.
AuditTruthful ==
    \A q \in Request :
        /\ request[q] # Absent
        /\ request[q] # Absent => request[q].phase = "Applied"
        /\ q \notin crQueue
        /\ crPass # NoPass => crPass.q # q
        => /\ request[q].audit.res = applied[q].res
           /\ applied[q].url # "none" => request[q].audit.url = applied[q].url

\* When users stop, every approved request gets its answer, through conflicts
\* with the watcher, failed rollbacks and failed calls.
Answered ==
    <>[](\A q \in Request :
            request[q] # Absent => (request[q].approved =>
                request[q].phase \in {"Applied", "Rejected"}))

\* README:241 has the watcher check drift continuously: the drift of a class that
\* stays leads to a recommendation.
DriftIsReported ==
    \A c \in Class :
        <>[](/\ class[c] # Absent
             /\ \E n \in Namespace : nsObj[n].label = c /\ actual[n] # class[c].res)
            => <>(class[c] # Absent /\ class[c].recs # <<>>)

\* A recommendation that was applied is not applied again: the upgrade of a class
\* that follows it reconciles directly and stays (README:400).
AppliedOnce ==
    [][\A c \in Class :
          edits' = edits /\ class'[c] # class[c] /\ class'[c].res # class[c].res =>
              class[c].recs[crPass.idx].status = "Pending"]_vars
=============================================================================
