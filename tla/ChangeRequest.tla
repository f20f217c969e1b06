--------------------------- MODULE ChangeRequest ---------------------------
(***************************************************************************)
(* The change request reconciler of internal/controller: one worker that    *)
(* applies the recommendation an approved request names to its class, rolls *)
(* back the Namespaces that switched to that class, and reports.            *)
(*                                                                          *)
(* A pass is one call of Reconcile and every call to the API server is an   *)
(* action.  Classes and requests are read live, Namespaces from the cache.  *)
(***************************************************************************)
EXTENDS ApprovalState

VARIABLES
    crQueue,    \* the workqueue
    crPass,     \* the call of Reconcile that is running
    nsCache     \* the informer's copies of the Namespaces

crVars == <<crQueue, crPass, nsCache>>

NoPass == [pc |-> "idle"]

\* A Namespace as the rollback found it in the cache.
Item == [n : Namespace, ns : NamespaceObject]

\* req is cr, rec and idx the recommendation found and its place, todo the
\* Namespaces still to be rolled back and phase the answer.
Pass ==
    [pc : {"getClass", "update", "list", "rollback", "write", "answer"},
     q : Request, req : RequestObject, rec : Recommendation \cup {Absent},
     idx : Nat, todo : SUBSET Item, item : Item \cup {Absent},
     phase : {"Pending", "Rejected", "Applied"}]

CRTypeOK ==
    /\ crQueue \subseteq Request
    /\ crPass \in Pass \cup {NoPass}
    /\ nsCache \in [Namespace -> NamespaceObject]

CRInit ==
    /\ crQueue = {}
    /\ crPass = NoPass
    /\ nsCache = nsObj

StartPass(q) ==
    [pc |-> "getClass", q |-> q, req |-> request[q], rec |-> Absent, idx |-> 0,
     todo |-> {}, item |-> Absent, phase |-> "Pending"]

Answer(p, phase) == [p EXCEPT !.pc = "answer", !.phase = phase]

\* Mutant: the error is swallowed.
DropRequest == crPass' = NoPass /\ UNCHANGED crQueue

\* Reconcile returns an error and the request is queued again.  The delay is
\* left out: the worker may take any time to come back to it.
RequeueRequest ==
    /\ crPass' = NoPass
    /\ crQueue' = crQueue \cup {crPass.q}

-----------------------------------------------------------------------------
\* The worker takes request q and decides whether there is anything to apply.
TakeRequest(q) ==
    LET x == request[q] IN
    /\ crPass = NoPass
    /\ q \in crQueue
    /\ crQueue' = crQueue \ {q}
    /\ \/ x = Absent /\ crPass' = NoPass
       \/ /\ x # Absent /\ ~x.approved
          /\ crPass' = Answer(StartPass(q), "Pending")
       \/ /\ x # Absent /\ x.approved
          /\ x.cls = NoClass \/ x.rec = 0
          /\ crPass' = Answer(StartPass(q), "Rejected")
       \/ /\ x # Absent /\ x.approved
          /\ x.cls # NoClass /\ x.rec # 0
          /\ crPass' = StartPass(q)
    /\ UNCHANGED <<served, bounds, nsCache>>

\* The place of the recommendation a request names: the first with its id.
Places(k, id) ==
    {i \in DOMAIN k.recs : /\ k.recs[i].id = id
                           /\ \A j \in 1..(i - 1) : k.recs[j].id # id}

\* Why an approved request is rejected: the pull request gate, a recommendation
\* that is not there or proposes nothing, or a high-risk kind not allowed.
Rejects(x, k) ==
    \/ k.gate /\ x.url # "ok"
    \/ \A i \in Places(k, x.rec) : k.recs[i].res = Empty
    \/ ~x.high /\ \E i \in Places(k, x.rec) : k.recs[i].res \in HighRisk

GetClass ==
    LET x == crPass.req
        k == class[x.cls]
    IN  /\ crPass.pc = "getClass"
        /\ \/ /\ k = Absent
              /\ crPass' = Answer(crPass, "Rejected")
              /\ UNCHANGED seen
           \/ /\ k # Absent /\ Rejects(x, k)
              /\ crPass' = Answer(crPass, "Rejected")
              /\ UNCHANGED seen
           \/ /\ k # Absent /\ ~Rejects(x, k)
              /\ \E i \in Places(k, x.rec) :
                    crPass' = [crPass EXCEPT !.rec = k.recs[i], !.idx = i,
                                             !.pc = "update"]
              /\ seen' = seen \cup {x.cls}
        /\ UNCHANGED <<class, request, nsObj, recent, actual, issued, applied,
                       bounds, crQueue, nsCache>>

\* Mutants: the copy is written whatever version it was made from, or without
\* the annotation that allows what it holds.
CopyOfAnyVersion(c) == class[c] # Absent
AppliedUnmarked(k, rec, high) == [k EXCEPT !.res = rec.res]

\* The class has not changed since the pass read it.
CopyCurrent(c) == c \in seen

\* What the update makes of class k.
Applied(k, rec, high) == [k EXCEPT !.res = rec.res, !.allow = @ \/ high]

\* r.Update(ctx, classObj), or the conflict it returns.
UpdateClass ==
    LET c == crPass.req.cls IN
    /\ crPass.pc = "update"
    /\ \/ /\ CopyCurrent(c)
          /\ WriteClass(c, Applied(class[c], crPass.rec, crPass.req.high))
          /\ applied' = [applied EXCEPT ![crPass.q] =
                           [res |-> crPass.rec.res, url |-> crPass.req.url]]
          /\ crPass' = [crPass EXCEPT !.pc = "list"]
          /\ UNCHANGED crQueue
       \/ /\ ~CopyCurrent(c)
          /\ RequeueRequest
          /\ UNCHANGED <<class, seen, applied>>
    /\ UNCHANGED <<request, nsObj, recent, actual, issued, bounds, nsCache>>

\* rollbackNamespacesForSwitch lists the Namespaces of the class in the cache
\* and leaves out those without another class to go back to.
ListNamespaces ==
    LET c == crPass.req.cls IN
    /\ crPass.pc = "list"
    /\ crPass' = [crPass EXCEPT !.pc = "rollback", !.todo =
                    {[n |-> n, ns |-> nsCache[n]] :
                        n \in {m \in Namespace : /\ nsCache[m].label = c
                                                 /\ nsCache[m].prev \notin {NoClass, c}}}]
    /\ UNCHANGED <<served, bounds, crQueue, nsCache>>

\* shouldSkipSwitchRollback: no way back to a class that is gone or empty.
SkipRollback(c) == class[c] = Absent \/ (class[c] # Absent /\ class[c].res = Empty)

CheckPreviousClass ==
    /\ crPass.pc = "rollback"
    /\ \E x \in crPass.todo :
          \/ /\ SkipRollback(x.ns.prev)
             /\ crPass' = [crPass EXCEPT !.todo = @ \ {x}]
          \/ /\ ~SkipRollback(x.ns.prev)
             /\ crPass' = [crPass EXCEPT !.todo = @ \ {x}, !.item = x, !.pc = "write"]
    /\ UNCHANGED <<served, bounds, crQueue, nsCache>>

\* Mutant: the copy is written whatever version it was made from.
ItemOfAnyVersion(x) == TRUE

\* The server accepts an update only of the version it holds.
ItemCurrent(x) == x.ns.rv = nsObj[x.n].rv

RollBackNamespace ==
    LET x == crPass.item IN
    /\ crPass.pc = "write"
    /\ \/ /\ ItemCurrent(x)
          /\ WriteNamespace(x.n, [x.ns EXCEPT !.label = x.ns.prev,
                                              !.last = x.ns.prev,
                                              !.prev = NoClass])
          /\ recent' = recent \ {x.n}
          /\ crPass' = [crPass EXCEPT !.item = Absent, !.pc = "rollback"]
          /\ UNCHANGED crQueue
       \/ /\ ~ItemCurrent(x)
          /\ RequeueRequest
          /\ UNCHANGED <<nsObj, recent>>
    /\ UNCHANGED <<class, seen, request, actual, issued, applied, bounds,
                   nsCache>>

\* updateNamespaceClassStatus reads the class again, and writes at the place the
\* recommendation had; its errors are only logged.
UpdateNamespaceClassStatus ==
    LET c == crPass.req.cls
        k == class[c]
        done == [crPass.rec EXCEPT !.status = "Applied"]
    IN  /\ crPass.pc = "rollback"
        /\ crPass.todo = {}
        /\ \/ k = Absent /\ UNCHANGED <<class, seen>>
           \/ /\ k # Absent
              /\ WriteClass(c, [k EXCEPT !.cond = "False", !.recs =
                    [i \in DOMAIN @ |-> IF i = crPass.idx THEN done ELSE @[i]]])
        /\ crPass' = Answer(crPass, "Applied")
        /\ UNCHANGED <<request, nsObj, recent, actual, issued, applied, bounds,
                       crQueue, nsCache>>

\* Mutant: the snapshot is taken once.
AuditedFirst(p, old) ==
    IF p.phase # "Applied" \/ old # NoAudit THEN old
    ELSE [res |-> p.rec.res, url |-> p.req.url]

\* The audit fields after pass p.  A request without a URL leaves the old one.
Audited(p, old) ==
    IF p.phase # "Applied" THEN old
    ELSE [res |-> p.rec.res, url |-> IF p.req.url = "none" THEN old.url ELSE p.req.url]

\* updateChangeRequestStatus: the request is woken by its own status, whenever
\* phase, message or lastTransitionTime (to the second) is new.
UpdateChangeRequestStatus ==
    LET q == crPass.q IN
    /\ crPass.pc = "answer"
    /\ \/ request[q] = Absent /\ RequeueRequest /\ UNCHANGED request
       \/ /\ request[q] # Absent
          /\ request' = [request EXCEPT ![q].phase = crPass.phase,
                                         ![q].audit = Audited(crPass, @)]
          /\ \/ crQueue' = crQueue \cup {q}
             \/ request' = request /\ UNCHANGED crQueue
          /\ crPass' = NoPass
    /\ UNCHANGED <<class, seen, nsObj, recent, actual, issued, applied, bounds,
                   nsCache>>

\* The cache catches up with Namespace n.
RefreshNamespace(n) ==
    /\ nsCache[n] # nsObj[n]
    /\ nsCache' = [nsCache EXCEPT ![n] = nsObj[n]]
    /\ UNCHANGED <<served, bounds, crQueue, crPass>>

-----------------------------------------------------------------------------
\* A call fails and the pass ends with its error.
RequestFails ==
    /\ Fault("api")
    /\ \/ crPass.pc \in {"getClass", "update", "write", "answer"}
       \/ crPass.pc = "rollback" /\ crPass.todo # {}
    /\ RequeueRequest
    /\ UNCHANGED <<served, edits, nsCache>>

\* The update of the class status fails, and the pass goes on.
ClassStatusFails ==
    /\ Fault("api")
    /\ crPass.pc = "rollback"
    /\ crPass.todo = {}
    /\ crPass' = Answer(crPass, "Applied")
    /\ UNCHANGED <<served, edits, crQueue, nsCache>>

ReconcileRequest ==
    \/ GetClass
    \/ UpdateClass
    \/ ListNamespaces
    \/ CheckPreviousClass
    \/ RollBackNamespace
    \/ UpdateNamespaceClassStatus
    \/ UpdateChangeRequestStatus

ChangeRequestNext ==
    \/ \E q \in Request : TakeRequest(q)
    \/ ReconcileRequest
    \/ \E n \in Namespace : RefreshNamespace(n)
    \/ RequestFails
    \/ ClassStatusFails

ChangeRequestFairness ==
    /\ \A q \in Request : SF_crVars(TakeRequest(q))
    /\ WF_crVars(ReconcileRequest)
    /\ \A n \in Namespace : WF_crVars(RefreshNamespace(n))
=============================================================================
