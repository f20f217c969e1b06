------------------------- MODULE ApprovalFlowProofs -------------------------
(***************************************************************************)
(* Proofs about ApprovalFlow, for every value of its constants.            *)
(***************************************************************************)
EXTENDS ApprovalFlow, SequenceTheorems, TLAPS

\* Types, with what a pass and a poll have at each of their steps.

StateTyped ==
    /\ StateTypeOK
    /\ \A c \in seen : class[c] # Absent

CRTyped ==
    /\ CRTypeOK
    /\ crPass.pc \in {"getClass", "update", "list", "rollback", "write"} =>
          crPass.req.cls \in Class
    /\ crPass.pc \in {"update", "list", "rollback", "write"} =>
          crPass.rec \in Recommendation
    /\ crPass.pc = "answer" /\ crPass.phase = "Applied" => crPass.rec \in Recommendation
    /\ crPass.pc = "write" => crPass.item \in Item

WatcherTyped ==
    /\ WatcherTypeOK
    /\ poll.pc \in {"detect", "base", "ask", "write"} => poll.item \in Listing

Typed == StateTyped /\ CRTyped /\ WatcherTyped

LEMMA StateFrame ==
    ASSUME StateTyped, UNCHANGED <<served, bounds>>
    PROVE  StateTyped'
BY DEF StateTyped, StateTypeOK, served, bounds

LEMMA CRFrame ==
    ASSUME CRTyped, UNCHANGED crVars
    PROVE  CRTyped'
BY DEF CRTyped, CRTypeOK, crVars

LEMMA WatcherFrame ==
    ASSUME WatcherTyped, UNCHANGED watcherVars
    PROVE  WatcherTyped'
BY DEF WatcherTyped, WatcherTypeOK, watcherVars

LEMMA FaultType ==
    ASSUME faults \in 0..MaxFaults, NEW kind, Fault(kind)
    PROVE  faults' \in 0..MaxFaults
BY ApprovalAssumption DEF Fault

\* A pass that is not idle has all the fields of one, and so has a poll.
LEMMA PassIsRunning ==
    ASSUME CRTyped, crPass.pc # "idle"
    PROVE  crPass \in Pass
BY DEF CRTyped, CRTypeOK, NoPass

LEMMA PollIsRunning ==
    ASSUME WatcherTyped, poll.pc # "idle"
    PROVE  poll \in Poll
BY DEF WatcherTyped, WatcherTypeOK, NoPoll

\* The server stores a class.
LEMMA WriteClassType ==
    ASSUME StateTyped, NEW c \in Class, NEW v \in ClassObject \cup {Absent},
           WriteClass(c, v)
    PROVE  /\ class' \in [Class -> ClassObject \cup {Absent}]
           /\ seen' \subseteq Class
           /\ \A d \in seen' : class'[d] # Absent
BY DEF StateTyped, StateTypeOK, WriteClass

LEMMA WriteNamespaceType ==
    ASSUME StateTyped, NEW n \in Namespace, NEW x \in NamespaceObject,
           WriteNamespace(n, x)
    PROVE  nsObj' \in [Namespace -> NamespaceObject]
<1>1. nsObj[n].rv + 1 \in Nat
  BY DEF StateTyped, StateTypeOK, NamespaceObject
<1> QED BY <1>1 DEF StateTyped, StateTypeOK, WriteNamespace, NamespaceObject

LEMMA WantedType ==
    ASSUME StateTyped, NEW l \in MaybeClass
    PROVE  Wanted(l) \in Resources
BY ApprovalAssumption DEF StateTyped, StateTypeOK, Wanted, MaybeClass, ClassObject

-----------------------------------------------------------------------------
\* The initial state.

LEMMA NewClassType ==
    ASSUME NEW s \in ClassSpecs
    PROVE  NewClass(s) \in ClassObject
<1>1. s \in [res : Resources, allow : BOOLEAN, gate : BOOLEAN, suggest : BOOLEAN]
  BY ApprovalAssumption
<1>2. <<>> \in Seq(Recommendation)
  OBVIOUS
<1> QED BY <1>1, <1>2 DEF NewClass, ClassObject

LEMMA TypedInit == Init => Typed
<1> SUFFICES ASSUME Init PROVE Typed
  OBVIOUS
<1>1. class \in [Class -> ClassObject \cup {Absent}]
  BY NewClassType DEF Init, StateInit
<1>2. nsObj \in [Namespace -> NamespaceObject] /\ recent \subseteq Namespace
  <2> PICK l \in [Namespace -> MaybeClass], p \in [Namespace -> MaybeClass] :
             /\ nsObj = [n \in Namespace |->
                           [label |-> l[n], last |-> l[n], prev |-> p[n], rv |-> 1]]
             /\ recent \in SUBSET {n \in Namespace : p[n] # NoClass}
    BY DEF Init, StateInit
  <2> QED BY DEF NamespaceObject
<1>3. actual \in [Namespace -> Resources \cup {Tampered}]
  <2>1. ASSUME NEW n \in Namespace PROVE Wanted(nsObj[n].label) \in Resources
    BY <1>1, <1>2, ApprovalAssumption DEF Wanted, NamespaceObject, MaybeClass, ClassObject
  <2> QED BY <2>1 DEF Init, StateInit
<1>4. StateTyped
  BY <1>1, <1>2, <1>3, ApprovalAssumption DEF StateTyped, StateTypeOK, Init, StateInit,
     NoAudit, Audit
<1>5. CRTyped
  BY <1>2 DEF Init, CRInit, CRTyped, CRTypeOK, NoPass
<1>6. WatcherTyped
  BY DEF Init, WatcherInit, WatcherTyped, WatcherTypeOK, NoPoll, NoDigest, Digest
<1> QED BY <1>4, <1>5, <1>6 DEF Typed

-----------------------------------------------------------------------------
\* The change request reconciler.

LEMMA RequeueType ==
    ASSUME CRTyped, crPass.pc # "idle", RequeueRequest, UNCHANGED nsCache
    PROVE  CRTyped'
<1>1. crPass \in Pass
  BY PassIsRunning
<1> QED BY <1>1 DEF CRTyped, CRTypeOK, RequeueRequest, Pass, NoPass

LEMMA AnswerType ==
    ASSUME NEW p \in Pass, NEW phase \in {"Pending", "Rejected", "Applied"}
    PROVE  /\ Answer(p, phase) \in Pass
           /\ Answer(p, phase).pc = "answer"
           /\ Answer(p, phase).phase = phase
           /\ Answer(p, phase).rec = p.rec
           /\ Answer(p, phase).req = p.req
           /\ Answer(p, phase).q = p.q
BY DEF Answer, Pass

LEMMA StartPassType ==
    ASSUME StateTyped, NEW q \in Request, request[q] # Absent
    PROVE  StartPass(q) \in Pass
<1>1. request[q] \in RequestObject
  BY DEF StateTyped, StateTypeOK
<1> QED BY <1>1 DEF StartPass, Pass

LEMMA TypeTakeRequest ==
    ASSUME Typed, NEW q \in Request, TakeRequest(q), UNCHANGED watcherVars
    PROVE  Typed'
<1> DEFINE x == request[q]
<1>1. StateTyped'
  BY StateFrame DEF Typed, TakeRequest
<1>2. ASSUME x # Absent
      PROVE  x \in RequestObject /\ StartPass(q) \in Pass
  BY <1>2, StartPassType DEF Typed, StateTyped, StateTypeOK
<1>3. CASE x = Absent /\ crPass' = NoPass
  BY <1>1, <1>3, WatcherFrame DEF Typed, TakeRequest, CRTyped, CRTypeOK, NoPass
<1>4. ASSUME x # Absent, NEW phase \in {"Pending", "Rejected"},
             crPass' = Answer(StartPass(q), phase)
      PROVE  Typed'
  <2>1. /\ crPass' \in Pass
        /\ crPass'.pc = "answer"
        /\ crPass'.phase = phase
    BY <1>2, <1>4, AnswerType
  <2> QED BY <1>1, <2>1, WatcherFrame DEF Typed, TakeRequest, CRTyped, CRTypeOK
<1>5. CASE x # Absent /\ x.cls # NoClass /\ crPass' = StartPass(q)
  <2>1. x.cls \in Class
    BY <1>2, <1>5 DEF RequestObject, MaybeClass
  <2>2. crPass'.pc = "getClass" /\ crPass'.req = x
    BY <1>5 DEF StartPass
  <2> QED BY <1>1, <1>2, <1>5, <2>1, <2>2, WatcherFrame
      DEF Typed, TakeRequest, CRTyped, CRTypeOK
<1> QED BY <1>3, <1>4, <1>5 DEF TakeRequest

LEMMA TypeGetClass ==
    ASSUME Typed, GetClass, UNCHANGED watcherVars
    PROVE  Typed'
<1> DEFINE x == crPass.req
           k == class[x.cls]
<1>1. crPass \in Pass /\ x.cls \in Class /\ k \in ClassObject \cup {Absent}
  BY PassIsRunning DEF Typed, CRTyped, StateTyped, StateTypeOK, GetClass
<1>2. StateTyped'
  BY <1>1 DEF Typed, StateTyped, StateTypeOK, GetClass, bounds
<1>3. CASE crPass' = Answer(crPass, "Rejected")
  BY <1>1, <1>2, <1>3, AnswerType, WatcherFrame DEF Typed, GetClass, CRTyped, CRTypeOK
<1>4. ASSUME k # Absent, NEW i \in Places(k, x.rec),
             crPass' = [crPass EXCEPT !.rec = k.recs[i], !.idx = i, !.pc = "update"]
      PROVE  Typed'
  <2>1. k.recs \in Seq(Recommendation) /\ i \in DOMAIN k.recs
    BY <1>1, <1>4 DEF ClassObject, Places
  <2>2. k.recs[i] \in Recommendation /\ i \in Nat
    BY <2>1
  <2>3. crPass' \in Pass /\ crPass'.pc = "update" /\ crPass'.req = x
        /\ crPass'.rec \in Recommendation
    BY <1>1, <1>4, <2>2 DEF Pass
  <2> QED BY <1>1, <1>2, <2>3, WatcherFrame DEF Typed, GetClass, CRTyped, CRTypeOK
<1> QED BY <1>3, <1>4 DEF GetClass

\* What an update makes of a class is a class with the recommendation's resources.
LEMMA AppliedType ==
    ASSUME NEW k \in ClassObject, NEW rec \in Recommendation, NEW high \in BOOLEAN
    PROVE  /\ Applied(k, rec, high) \in ClassObject
           /\ Applied(k, rec, high).res = rec.res
           /\ Applied(k, rec, high).recs = k.recs
           /\ Applied(k, rec, high).cond = k.cond
           /\ Applied(k, rec, high).gate = k.gate
           /\ Applied(k, rec, high).allow = (k.allow \/ high)
BY DEF Applied, ClassObject, Recommendation

LEMMA TypeUpdateClass ==
    ASSUME Typed, UpdateClass, UNCHANGED watcherVars
    PROVE  Typed'
<1> DEFINE c == crPass.req.cls
<1>1. crPass \in Pass /\ c \in Class /\ crPass.rec \in Recommendation
      /\ crPass.req.high \in BOOLEAN
  BY PassIsRunning DEF Typed, CRTyped, UpdateClass, Pass, RequestObject
<1>2. CASE CopyCurrent(c)
  <2> DEFINE a == [res |-> crPass.rec.res, url |-> crPass.req.url]
  <2>1. class[c] \in ClassObject
    BY <1>1, <1>2 DEF CopyCurrent, Typed, StateTyped, StateTypeOK
  <2>2. Applied(class[c], crPass.rec, crPass.req.high) \in ClassObject
    BY <1>1, <2>1, AppliedType
  <2>3. /\ class' \in [Class -> ClassObject \cup {Absent}]
        /\ seen' \subseteq Class
        /\ \A d \in seen' : class'[d] # Absent
    BY <1>1, <1>2, <2>2, WriteClassType DEF UpdateClass, Typed
  <2>4. a \in Audit /\ crPass.q \in Request
    BY <1>1 DEF Audit, Pass, RequestObject, Recommendation
  <2>5. applied' \in [Request -> Audit]
    <3> HIDE DEF a
    <3>1. applied' = [applied EXCEPT ![crPass.q] = a]
      BY <1>2 DEF UpdateClass, a
    <3> QED BY <2>4, <3>1 DEF Typed, StateTyped, StateTypeOK
  <2>6. StateTyped'
    BY <2>3, <2>5 DEF StateTyped, StateTypeOK, Typed, UpdateClass, bounds
  <2>7. crPass' = [crPass EXCEPT !.pc = "list"] /\ UNCHANGED <<crQueue, nsCache>>
    BY <1>2 DEF UpdateClass
  <2>8. CRTyped'
    BY <1>1, <2>7 DEF Typed, CRTyped, CRTypeOK, Pass
  <2> QED BY <2>6, <2>8, WatcherFrame DEF Typed
<1>3. CASE ~CopyCurrent(c)
  <2>1. StateTyped'
    BY <1>3 DEF StateTyped, StateTypeOK, Typed, UpdateClass, bounds
  <2>2. CRTyped'
    BY <1>3, RequeueType DEF Typed, UpdateClass
  <2> QED BY <2>1, <2>2, WatcherFrame DEF Typed
<1> QED BY <1>2, <1>3

LEMMA TypeListNamespaces ==
    ASSUME Typed, ListNamespaces, UNCHANGED watcherVars
    PROVE  Typed'
<1>1. crPass \in Pass
  BY PassIsRunning DEF Typed, ListNamespaces
<1> DEFINE c == crPass.req.cls
           T == {[n |-> n, ns |-> nsCache[n]] :
                    n \in {m \in Namespace : /\ nsCache[m].label = c
                                             /\ nsCache[m].prev \notin {NoClass, c}}}
<1>2. T \subseteq Item
  BY DEF Item, Typed, CRTyped, CRTypeOK
<1>3. /\ crPass' \in Pass /\ crPass'.pc = "rollback" /\ crPass'.req = crPass.req
      /\ crPass'.rec = crPass.rec
  <2>1. crPass' = [crPass EXCEPT !.pc = "rollback", !.todo = T]
    BY DEF ListNamespaces
  <2> HIDE DEF T
  <2> QED BY <1>1, <1>2, <2>1 DEF Pass
<1> QED BY <1>3, StateFrame, WatcherFrame DEF Typed, ListNamespaces, CRTyped, CRTypeOK

LEMMA TypeCheckPreviousClass ==
    ASSUME Typed, CheckPreviousClass, UNCHANGED watcherVars
    PROVE  Typed'
<1>1. crPass \in Pass
  BY PassIsRunning DEF Typed, CheckPreviousClass
<1>2. PICK x \in crPass.todo :
         \/ crPass' = [crPass EXCEPT !.todo = @ \ {x}]
         \/ crPass' = [crPass EXCEPT !.todo = @ \ {x}, !.item = x, !.pc = "write"]
  BY DEF CheckPreviousClass
<1>3. x \in Item /\ crPass.todo \ {x} \in SUBSET Item
  BY <1>1 DEF Pass
<1>4. /\ crPass' \in Pass /\ crPass'.req = crPass.req /\ crPass'.rec = crPass.rec
      /\ crPass.pc = "rollback" /\ crPass'.pc \in {"rollback", "write"}
      /\ crPass'.pc = "write" => crPass'.item = x
  <2>1. CASE crPass' = [crPass EXCEPT !.todo = @ \ {x}]
    BY <1>1, <1>3, <2>1 DEF Pass, CheckPreviousClass
  <2>2. CASE crPass' = [crPass EXCEPT !.todo = @ \ {x}, !.item = x, !.pc = "write"]
    <3>1. crPass.pc = "rollback"
      BY DEF CheckPreviousClass
    <3>2. crPass' = [[[crPass EXCEPT !.todo = crPass.todo \ {x}]
                        EXCEPT !.item = x] EXCEPT !.pc = "write"]
      BY <2>2
    <3> QED BY <1>1, <1>3, <3>1, <3>2 DEF Pass
  <2> QED BY <1>2, <2>1, <2>2
<1> QED BY <1>3, <1>4, StateFrame, WatcherFrame
    DEF Typed, CheckPreviousClass, CRTyped, CRTypeOK

LEMMA TypeRollBackNamespace ==
    ASSUME Typed, RollBackNamespace, UNCHANGED watcherVars
    PROVE  Typed'
<1> DEFINE x == crPass.item
<1>1. crPass \in Pass /\ x \in Item
  BY PassIsRunning DEF Typed, CRTyped, RollBackNamespace
<1>2. CASE ItemCurrent(x)
  <2> DEFINE y == [x.ns EXCEPT !.label = x.ns.prev, !.last = x.ns.prev, !.prev = NoClass]
  <2>1. y \in NamespaceObject /\ x.n \in Namespace
    BY <1>1 DEF Item, NamespaceObject, MaybeClass
  <2>2. nsObj' \in [Namespace -> NamespaceObject]
    <3>1. WriteNamespace(x.n, y)
      BY <1>2 DEF RollBackNamespace
    <3> HIDE DEF y
    <3> QED BY <2>1, <3>1, WriteNamespaceType DEF Typed
  <2>3. StateTyped'
    BY <1>2, <2>2 DEF Typed, StateTyped, StateTypeOK, RollBackNamespace, bounds
  <2>4. crPass' = [crPass EXCEPT !.item = Absent, !.pc = "rollback"]
        /\ UNCHANGED <<crQueue, nsCache>>
    BY <1>2 DEF RollBackNamespace
  <2>5. CRTyped'
    BY <1>1, <2>4 DEF Typed, CRTyped, CRTypeOK, RollBackNamespace, Pass
  <2> QED BY <2>3, <2>5, WatcherFrame DEF Typed
<1>3. CASE ~ItemCurrent(x)
  <2>1. StateTyped'
    BY <1>3 DEF StateTyped, StateTypeOK, Typed, RollBackNamespace, bounds
  <2>2. CRTyped'
    BY <1>3, RequeueType DEF Typed, RollBackNamespace
  <2> QED BY <2>1, <2>2, WatcherFrame DEF Typed
<1> QED BY <1>2, <1>3

\* A list with one entry replaced is a list of the same entries otherwise.
LEMMA MarkedType ==
    ASSUME NEW recs \in Seq(Recommendation), NEW done \in Recommendation, NEW idx
    PROVE  [i \in DOMAIN recs |-> IF i = idx THEN done ELSE recs[i]]
              \in Seq(Recommendation)
<1> DEFINE t == [i \in DOMAIN recs |-> IF i = idx THEN done ELSE recs[i]]
<1>1. Len(recs) \in Nat /\ DOMAIN recs = 1..Len(recs)
  OBVIOUS
<1>2. ASSUME NEW i \in 1..Len(recs) PROVE recs[i] \in Recommendation
  BY <1>2
<1>3. t \in [1..Len(recs) -> Recommendation]
  BY <1>1, <1>2
<1>4. Seq(Recommendation) = UNION {[1..n -> Recommendation] : n \in Nat}
  BY SeqDef
<1> HIDE DEF t
<1>5. t \in Seq(Recommendation)
  BY <1>1, <1>3, <1>4
<1> QED BY <1>5 DEF t

LEMMA TypeUpdateNamespaceClassStatus ==
    ASSUME Typed, UpdateNamespaceClassStatus, UNCHANGED watcherVars
    PROVE  Typed'
<1> DEFINE c == crPass.req.cls
           k == class[c]
           done == [crPass.rec EXCEPT !.status = "Applied"]
           recs == [i \in DOMAIN k.recs |-> IF i = crPass.idx THEN done ELSE k.recs[i]]
<1>1. crPass \in Pass /\ c \in Class /\ crPass.rec \in Recommendation
  BY PassIsRunning DEF Typed, CRTyped, UpdateNamespaceClassStatus
<1>2. done \in Recommendation
  BY <1>1 DEF Recommendation
<1>3. StateTyped'
  <2>1. CASE UNCHANGED <<class, seen>>
    BY <2>1 DEF Typed, StateTyped, StateTypeOK, UpdateNamespaceClassStatus, bounds
  <2>2. CASE k # Absent /\ WriteClass(c, [k EXCEPT !.cond = "False", !.recs = recs])
    <3>1. k \in ClassObject /\ k.recs \in Seq(Recommendation)
      BY <1>1, <2>2 DEF Typed, StateTyped, StateTypeOK, ClassObject
    <3>2. recs \in Seq(Recommendation)
      <4> HIDE DEF done, k
      <4> QED BY <1>2, <3>1, MarkedType
    <3> DEFINE v == [k EXCEPT !.cond = "False", !.recs = recs]
    <3>3. v \in ClassObject
      <4> HIDE DEF recs, k
      <4> QED BY <3>1, <3>2 DEF ClassObject
    <3>4. WriteClass(c, v)
      BY <2>2
    <3> HIDE DEF v
    <3>5. /\ class' \in [Class -> ClassObject \cup {Absent}]
          /\ seen' \subseteq Class
          /\ \A d \in seen' : class'[d] # Absent
      BY <1>1, <3>3, <3>4, WriteClassType DEF Typed
    <3> QED BY <3>5 DEF Typed, StateTyped, StateTypeOK, UpdateNamespaceClassStatus, bounds
  <2>3. \/ UNCHANGED <<class, seen>>
        \/ k # Absent /\ WriteClass(c, [k EXCEPT !.cond = "False", !.recs = recs])
    BY DEF UpdateNamespaceClassStatus
  <2> QED BY <2>1, <2>2, <2>3
<1>4. crPass' = Answer(crPass, "Applied") /\ UNCHANGED <<crQueue, nsCache>>
  BY DEF UpdateNamespaceClassStatus
<1>5. /\ crPass' \in Pass /\ crPass'.pc = "answer" /\ crPass'.phase = "Applied"
      /\ crPass'.rec = crPass.rec
  BY <1>1, <1>4, AnswerType
<1>6. CRTyped'
  BY <1>1, <1>4, <1>5 DEF Typed, CRTyped, CRTypeOK
<1> QED BY <1>3, <1>6, WatcherFrame DEF Typed

LEMMA AuditedType ==
    ASSUME NEW p \in Pass, NEW old \in Audit,
           p.phase = "Applied" => p.rec \in Recommendation
    PROVE  Audited(p, old) \in Audit
<1>1. p.req.url \in {"none", "bad", "ok"}
  BY DEF Pass, RequestObject
<1>2. p.phase = "Applied" => p.rec.res \in Resources
  BY DEF Recommendation
<1> QED BY <1>1, <1>2 DEF Audited, Audit

\* The answer of a pass is stored in its request.
LEMMA AnswerStored ==
    ASSUME Typed, UpdateChangeRequestStatus, request[crPass.q] # Absent
    PROVE  LET q == crPass.q
               v == [request[q] EXCEPT !.phase = crPass.phase,
                                       !.audit = Audited(crPass, request[q].audit)]
           IN  v \in RequestObject /\ request' = [request EXCEPT ![q] = v]
<1> DEFINE q == crPass.q
           a == Audited(crPass, request[q].audit)
           v == [request[q] EXCEPT !.phase = crPass.phase, !.audit = a]
<1>1. crPass \in Pass /\ crPass.q \in Request /\ crPass.pc = "answer"
  BY PassIsRunning DEF Typed, UpdateChangeRequestStatus, Pass
<1>2. request[q] \in RequestObject
  BY <1>1 DEF Typed, StateTyped, StateTypeOK
<1>3. a \in Audit
  BY <1>1, <1>2, AuditedType DEF Typed, CRTyped, RequestObject
<1>4. crPass.phase \in {"Pending", "Rejected", "Applied"}
  BY <1>1 DEF Pass
<1>5. v \in RequestObject
  <2> HIDE DEF a
  <2> QED BY <1>2, <1>3, <1>4 DEF RequestObject
<1>6. request' = [request EXCEPT ![q] = v]
  BY DEF UpdateChangeRequestStatus
<1> QED BY <1>5, <1>6

LEMMA TypeUpdateChangeRequestStatus ==
    ASSUME Typed, UpdateChangeRequestStatus, UNCHANGED watcherVars
    PROVE  Typed'
<1>1. crPass \in Pass /\ crPass.q \in Request
  BY PassIsRunning DEF Typed, UpdateChangeRequestStatus, Pass
<1>2. request' \in [Request -> RequestObject \cup {Absent}]
  <2>1. CASE request[crPass.q] = Absent
    BY <2>1 DEF UpdateChangeRequestStatus, Typed, StateTyped, StateTypeOK
  <2>2. CASE request[crPass.q] # Absent
    BY <1>1, <2>2, AnswerStored DEF Typed, StateTyped, StateTypeOK
  <2> QED BY <2>1, <2>2
<1>3. StateTyped'
  BY <1>2 DEF Typed, StateTyped, StateTypeOK, UpdateChangeRequestStatus, bounds
<1>4. crPass' = NoPass /\ crQueue' \subseteq Request /\ UNCHANGED nsCache
  BY <1>1 DEF UpdateChangeRequestStatus, RequeueRequest, Typed, CRTyped, CRTypeOK
<1>5. CRTyped'
  BY <1>4 DEF Typed, CRTyped, CRTypeOK, NoPass
<1> QED BY <1>3, <1>5, WatcherFrame DEF Typed

LEMMA TypeRefreshNamespace ==
    ASSUME Typed, NEW n \in Namespace, RefreshNamespace(n), UNCHANGED watcherVars
    PROVE  Typed'
<1>1. StateTyped'
  BY StateFrame DEF Typed, RefreshNamespace
<1>2. CRTyped'
  BY DEF Typed, CRTyped, CRTypeOK, StateTyped, StateTypeOK, RefreshNamespace
<1> QED BY <1>1, <1>2, WatcherFrame DEF Typed

LEMMA TypeRequestFails ==
    ASSUME Typed, RequestFails, UNCHANGED watcherVars
    PROVE  Typed'
<1>1. faults' \in 0..MaxFaults
  BY FaultType DEF RequestFails, Typed, StateTyped, StateTypeOK
<1>2. StateTyped'
  BY <1>1 DEF Typed, StateTyped, StateTypeOK, RequestFails, served
<1>3. CRTyped'
  BY RequeueType DEF Typed, RequestFails
<1> QED BY <1>2, <1>3, WatcherFrame DEF Typed

LEMMA TypeClassStatusFails ==
    ASSUME Typed, ClassStatusFails, UNCHANGED watcherVars
    PROVE  Typed'
<1>1. faults' \in 0..MaxFaults
  BY FaultType DEF ClassStatusFails, Typed, StateTyped, StateTypeOK
<1>2. StateTyped'
  BY <1>1 DEF Typed, StateTyped, StateTypeOK, ClassStatusFails, served
<1>3. crPass \in Pass /\ crPass.rec \in Recommendation
  BY PassIsRunning DEF Typed, CRTyped, ClassStatusFails
<1>4. /\ crPass' \in Pass /\ crPass'.pc = "answer" /\ crPass'.phase = "Applied"
      /\ crPass'.rec = crPass.rec
  BY <1>3, AnswerType DEF ClassStatusFails
<1>5. CRTyped'
  BY <1>3, <1>4 DEF Typed, CRTyped, CRTypeOK, ClassStatusFails
<1> QED BY <1>2, <1>5, WatcherFrame DEF Typed

-----------------------------------------------------------------------------
\* The watcher.

LEMMA NextItemType ==
    ASSUME NEW p \in Poll
    PROVE  LET x == [p EXCEPT !.pc = "next", !.item = Absent, !.left = {}, !.drift = {},
                              !.proposed = Empty, !.pending = FALSE]
           IN  x \in Poll /\ x.pc = "next"
BY ApprovalAssumption DEF Poll

\* A step of the watcher that leaves everything else alone.
LEMMA PollType ==
    ASSUME Typed, UNCHANGED <<served, bounds, lastDigest>>, UNCHANGED crVars,
           poll' \in Poll \cup {NoPoll},
           poll'.pc \in {"detect", "base", "ask", "write"} => poll'.item \in Listing
    PROVE  Typed'
BY StateFrame, CRFrame DEF Typed, WatcherTyped, WatcherTypeOK

LEMMA TypeStartPoll ==
    ASSUME Typed, StartPoll, UNCHANGED crVars
    PROVE  Typed'
<1> DEFINE T == {[c |-> c, res |-> class[c].res, suggest |-> class[c].suggest] :
                    c \in {x \in Class : class[x] # Absent}}
<1>1. T \subseteq Listing
  BY DEF Typed, StateTyped, StateTypeOK, ClassObject, Listing
<1>2. poll' \in Poll /\ poll'.pc = "next"
  <2>1. poll' = [pc |-> "next", item |-> Absent, left |-> {}, drift |-> {},
                 proposed |-> Empty, pending |-> FALSE, todo |-> T]
    BY DEF StartPoll
  <2> HIDE DEF T
  <2> QED BY <1>1, <2>1, ApprovalAssumption DEF Poll
<1> QED BY <1>2, PollType DEF StartPoll

LEMMA TypeEndPoll ==
    ASSUME Typed, EndPoll, UNCHANGED crVars
    PROVE  Typed'
BY PollType DEF EndPoll, NoPoll

LEMMA SwitchMessagesType ==
    ASSUME StateTyped, NEW c \in Class
    PROVE  SwitchMessages(c) \subseteq Message
BY DEF StateTyped, StateTypeOK, SwitchMessages, Message, NamespaceObject, MaybeClass

LEMMA TypeNextClass ==
    ASSUME Typed, NextClass, UNCHANGED crVars
    PROVE  Typed'
<1>1. poll \in Poll
  BY PollIsRunning DEF Typed, NextClass
<1>2. PICK x \in poll.todo :
         poll' = [poll EXCEPT !.pc = "detect", !.todo = @ \ {x}, !.item = x,
                              !.left = {n \in Namespace : nsObj[n].label = x.c},
                              !.drift = SwitchMessages(x.c)]
  BY DEF NextClass
<1>3. x \in Listing /\ x.c \in Class /\ poll.todo \ {x} \in SUBSET Listing
  BY <1>1 DEF Poll, Listing
<1>4. SwitchMessages(x.c) \in SUBSET Message
  BY <1>3, SwitchMessagesType DEF Typed
<1>5. poll' \in Poll /\ poll'.item = x
  <2> DEFINE left == {n \in Namespace : nsObj[n].label = x.c}
             todo == poll.todo \ {x}
             drift == SwitchMessages(x.c)
  <2>1. left \in SUBSET Namespace /\ todo \in SUBSET Listing /\ drift \in SUBSET Message
    BY <1>3, <1>4
  <2>2. poll' = [poll EXCEPT !.pc = "detect", !.todo = todo, !.item = x, !.left = left,
                             !.drift = drift]
    BY <1>2
  <2> HIDE DEF left, todo, drift
  <2> QED BY <1>1, <1>3, <2>1, <2>2 DEF Poll
<1> QED BY <1>3, <1>5, PollType DEF NextClass

\* What one Namespace adds to the drift found so far.
LEMMA DriftType ==
    ASSUME Typed, poll.pc = "detect", NEW n \in Namespace, NEW M \in SUBSET Message,
           poll' = [poll EXCEPT !.left = @ \ {n}, !.drift = @ \cup M]
    PROVE  poll' \in Poll /\ poll'.item \in Listing
<1>1. poll \in Poll /\ poll.item \in Listing
  BY PollIsRunning DEF Typed, WatcherTyped
<1> QED BY <1>1 DEF Poll

LEMMA TypeDetectDrift ==
    ASSUME Typed, NEW n \in Namespace, DetectDrift(n), UNCHANGED crVars
    PROVE  Typed'
<1> DEFINE M == {m \in {[n |-> n, kind |-> "objects", what |-> actual[n]]} :
                    actual[n] # poll.item.res}
<1>1. M \in SUBSET Message
  BY DEF Typed, StateTyped, StateTypeOK, Message
<1>2. poll' = [poll EXCEPT !.left = @ \ {n}, !.drift = @ \cup M]
  BY DEF DetectDrift
<1> HIDE DEF M
<1> QED BY <1>1, <1>2, DriftType, PollType DEF DetectDrift

LEMMA TypeCannotRead ==
    ASSUME Typed, NEW n \in Namespace, CannotRead(n), UNCHANGED crVars
    PROVE  Typed'
<1>1. {[n |-> n, kind |-> "unreadable", what |-> Absent]} \in SUBSET Message
  BY DEF Message
<1>2. poll' \in Poll /\ poll'.item \in Listing
  BY <1>1, DriftType DEF CannotRead
<1>3. faults' \in 0..MaxFaults
  BY FaultType DEF CannotRead, Typed, StateTyped, StateTypeOK
<1>4. StateTyped'
  BY <1>3 DEF Typed, StateTyped, StateTypeOK, CannotRead, served
<1> QED BY <1>2, <1>4, CRFrame DEF Typed, WatcherTyped, WatcherTypeOK, CannotRead

LEMMA TypeCompareDigest ==
    ASSUME Typed, CompareDigest, UNCHANGED crVars
    PROVE  Typed'
<1> DEFINE d == [res |-> poll.item.res, drift |-> poll.drift]
<1>1. poll \in Poll /\ poll.item \in Listing
  BY PollIsRunning DEF Typed, WatcherTyped, CompareDigest
<1>2. d \in Digest /\ poll.item.c \in Class
  BY <1>1 DEF Digest, Poll, Listing
<1>3. lastDigest' \in [Class -> Digest \cup {NoDigest}]
  <2>1. lastDigest' = [lastDigest EXCEPT ![poll.item.c] = d]
    BY DEF CompareDigest
  <2> HIDE DEF d
  <2> QED BY <1>2, <2>1 DEF Typed, WatcherTyped, WatcherTypeOK
<1>4. poll' \in Poll /\ (poll'.pc # "next" => poll'.item \in Listing)
  <2>1. CASE poll' = NextItem
    BY <1>1, <2>1, NextItemType DEF NextItem
  <2>2. CASE poll' = [poll EXCEPT !.pc = IF poll.drift = {} THEN "write" ELSE "base"]
    BY <1>1, <2>2 DEF Poll
  <2> QED BY <2>1, <2>2 DEF CompareDigest
<1>5. WatcherTyped'
  BY <1>3, <1>4 DEF WatcherTyped, WatcherTypeOK
<1> QED BY <1>5, StateFrame, CRFrame DEF Typed, CompareDigest

LEMMA RollbackResourcesType ==
    ASSUME Typed, poll.pc = "base"
    PROVE  RollbackResources \subseteq Resources
<1>1. poll.drift \subseteq Message
  BY PollIsRunning DEF Typed, Poll
<1>2. ASSUME NEW m \in poll.drift, m.kind = "switched"
      PROVE  m.what \in Class
  BY <1>1, <1>2 DEF Message
<1>3. Hints \subseteq Class
  BY <1>2 DEF Hints
<1> QED BY <1>3 DEF RollbackResources, Typed, StateTyped, StateTypeOK, ClassObject

\* The base of a proposal: of the class itself or of the one before.
LEMMA BaseType ==
    ASSUME Typed, poll.pc = "base", NEW r \in Resources,
           poll' = [poll EXCEPT !.pc = "ask", !.proposed = r]
    PROVE  poll' \in Poll /\ poll'.item \in Listing
<1>1. poll \in Poll /\ poll.item \in Listing
  BY PollIsRunning DEF Typed, WatcherTyped
<1> QED BY <1>1 DEF Poll

LEMMA TypeChooseBase ==
    ASSUME Typed, ChooseBase, UNCHANGED crVars
    PROVE  Typed'
<1>1. poll.pc = "base" /\ poll.item.res \in Resources
  BY DEF ChooseBase, Typed, WatcherTyped, Listing
<1>2. PICK r \in Resources : poll' = [poll EXCEPT !.pc = "ask", !.proposed = r]
  BY <1>1, RollbackResourcesType DEF ChooseBase
<1> QED BY <1>1, <1>2, BaseType, PollType DEF ChooseBase

LEMMA TypeAskOpenAI ==
    ASSUME Typed, AskOpenAI, UNCHANGED crVars
    PROVE  Typed'
<1>1. poll \in Poll /\ poll.item \in Listing
  BY PollIsRunning DEF Typed, WatcherTyped, AskOpenAI
<1>2. PICK r \in Resources : poll' = [poll EXCEPT !.pc = "write", !.pending = TRUE,
                                                  !.proposed = IF r = Empty THEN @ ELSE r]
  BY DEF AskOpenAI
<1>3. poll' \in Poll /\ poll'.item = poll.item
  BY <1>1, <1>2 DEF Poll
<1> QED BY <1>1, <1>3, PollType DEF AskOpenAI

\* The recommendations that writeClassStatus leaves a class k with.
Recommended(k) ==
    IF poll.pending
      THEN <<[id |-> NewId, status |-> "Pending", res |-> poll.proposed]>>
      ELSE IF Pending(k.recs) THEN k.recs ELSE <<>>

\* What writeClassStatus does to a class.
LEMMA ClassStatusWritten ==
    ASSUME Typed, WriteClassStatus
    PROVE  LET c == poll.item.c
               v == [class[c] EXCEPT !.recs = Recommended(class[c]),
                                     !.cond = Reported(poll.pending,
                                                       Recommended(class[c]))]
           IN  /\ c \in Class
               /\ \/ UNCHANGED <<class, seen, issued>>
                  \/ /\ class[c] \in ClassObject
                     /\ Recommended(class[c]) \in Seq(Recommendation)
                     /\ v \in ClassObject
                     /\ WriteClass(c, v)
                     /\ issued' \in 0..MaxRecs
<1> DEFINE c == poll.item.c
           k == class[c]
           v == [k EXCEPT !.recs = Recommended(k),
                          !.cond = Reported(poll.pending, Recommended(k))]
<1>1. poll \in Poll /\ c \in Class
  BY PollIsRunning DEF Typed, WatcherTyped, WriteClassStatus, Listing
<1>2. CASE k = Absent /\ UNCHANGED <<class, seen, issued>>
  BY <1>1, <1>2
<1>3. CASE /\ k # Absent
           /\ WriteClass(c, v)
           /\ poll.pending => issued < MaxRecs
           /\ issued' = IF poll.pending THEN issued + 1 ELSE issued
  <2>1. k \in ClassObject /\ k.recs \in Seq(Recommendation)
    BY <1>1, <1>3 DEF Typed, StateTyped, StateTypeOK, ClassObject
  <2>2. issued \in 0..MaxRecs /\ MaxRecs \in Nat /\ poll.pending \in BOOLEAN
    BY <1>1, ApprovalAssumption DEF Typed, StateTyped, StateTypeOK, Poll
  <2>3. CASE poll.pending
    <3>1. NewId \in 1..MaxRecs /\ issued' \in 0..MaxRecs
      BY <1>3, <2>2, <2>3 DEF NewId
    <3> DEFINE r == [id |-> NewId, status |-> "Pending", res |-> poll.proposed]
    <3>2. r \in Recommendation
      BY <1>1, <3>1 DEF Recommendation, Poll
    <3>3. Recommended(k) = <<r>>
      BY <2>3 DEF Recommended
    <3>4. <<r>> \in Seq(Recommendation)
      BY <3>2
    <3> QED BY <1>1, <1>3, <2>1, <3>1, <3>3, <3>4 DEF ClassObject, Reported
  <2>4. CASE ~poll.pending
    <3>1. Recommended(k) \in Seq(Recommendation)
      BY <2>1, <2>4 DEF Recommended
    <3> QED BY <1>1, <1>3, <2>1, <2>2, <2>4, <3>1 DEF ClassObject, Reported
  <2> QED BY <2>2, <2>3, <2>4
<1> QED BY <1>2, <1>3 DEF WriteClassStatus, Recommended

LEMMA TypeWriteClassStatus ==
    ASSUME Typed, WriteClassStatus, UNCHANGED crVars
    PROVE  Typed'
<1>1. /\ class' \in [Class -> ClassObject \cup {Absent}]
      /\ seen' \subseteq Class
      /\ \A d \in seen' : class'[d] # Absent
      /\ issued' \in 0..MaxRecs
  <2>1. CASE UNCHANGED <<class, seen, issued>>
    BY <2>1 DEF Typed, StateTyped, StateTypeOK
  <2>2. CASE ~UNCHANGED <<class, seen, issued>>
    BY <2>2, ClassStatusWritten, WriteClassType DEF Typed
  <2> QED BY <2>1, <2>2
<1>2. StateTyped'
  BY <1>1 DEF Typed, StateTyped, StateTypeOK, WriteClassStatus, bounds
<1>3. poll \in Poll
  BY PollIsRunning DEF Typed, WriteClassStatus
<1>4. poll' \in Poll /\ poll'.pc = "next"
  BY <1>3, NextItemType DEF WriteClassStatus, NextItem
<1>5. WatcherTyped'
  BY <1>4 DEF Typed, WatcherTyped, WatcherTypeOK, WriteClassStatus
<1> QED BY <1>2, <1>5, CRFrame DEF Typed

LEMMA TypeWatcherFails ==
    ASSUME Typed, OpenAIFails \/ ClassFails \/ BaseFails, UNCHANGED crVars
    PROVE  Typed'
<1>1. faults' \in 0..MaxFaults
  BY FaultType DEF OpenAIFails, ClassFails, BaseFails, Typed, StateTyped, StateTypeOK
<1>2. UNCHANGED <<served, edits, lastDigest>>
  BY DEF OpenAIFails, ClassFails, BaseFails
<1>3. StateTyped'
  BY <1>1, <1>2 DEF Typed, StateTyped, StateTypeOK, served
<1>4. poll \in Poll
  BY PollIsRunning DEF Typed, OpenAIFails, ClassFails, BaseFails
<1>5. poll' \in Poll /\ (poll'.pc = "next" \/ poll'.item \in Listing)
  <2>1. CASE poll' = NextItem
    BY <1>4, <2>1, NextItemType DEF NextItem
  <2>2. CASE \E x \in poll.todo :
                /\ poll.pc = "next"
                /\ poll' = [poll EXCEPT !.todo = @ \ {x}]
    <3> PICK x \in poll.todo : poll.pc = "next" /\ poll' = [poll EXCEPT !.todo = @ \ {x}]
      BY <2>2
    <3>1. poll.todo \ {x} \in SUBSET Listing
      BY <1>4 DEF Poll
    <3> QED BY <1>4, <3>1 DEF Poll
  <2>3. CASE BaseFails
    <3>1. poll.pc = "base" /\ poll.item.res \in Resources
      BY <2>3 DEF BaseFails, Typed, WatcherTyped, Listing
    <3> QED BY <2>3, <3>1, BaseType DEF BaseFails
  <2> QED BY <2>1, <2>2, <2>3 DEF OpenAIFails, ClassFails
<1>6. WatcherTyped'
  BY <1>2, <1>5 DEF Typed, WatcherTyped, WatcherTypeOK
<1> QED BY <1>3, <1>6, CRFrame DEF Typed

-----------------------------------------------------------------------------
\* The NamespaceClass reconciler, users and restarts.

LEMMA TypeNamespaceNext ==
    ASSUME Typed, NamespaceNext
    PROVE  Typed'
<1> PICK n \in Namespace : \/ Repair(n) \/ RepairHalfway(n) \/ RecordSwitch(n)
                           \/ ReportClass(n) \/ SwitchWindowEnds(n)
  BY DEF NamespaceNext
<1>1. UNCHANGED crVars /\ UNCHANGED watcherVars
  BY DEF Repair, RepairHalfway, RecordSwitch, ReportClass, SwitchWindowEnds
<1>2. nsObj[n] \in NamespaceObject /\ nsObj[n].label \in MaybeClass
  BY DEF Typed, StateTyped, StateTypeOK, NamespaceObject
<1> USE DEF Typed, StateTyped, StateTypeOK
<1>3. CASE Repair(n)
  <2>1. actual' \in [Namespace -> Resources \cup {Tampered}]
    BY <1>2, <1>3, WantedType DEF Repair
  <2>2. StateTyped'
    BY <1>3, <2>1 DEF Repair, bounds
  <2> QED BY <1>1, <2>2, CRFrame, WatcherFrame
<1>4. CASE RepairHalfway(n)
  <2>1. faults' \in 0..MaxFaults
    BY <1>4, FaultType DEF RepairHalfway
  <2>2. StateTyped'
    BY <1>4, <2>1 DEF RepairHalfway
  <2> QED BY <1>1, <2>2, CRFrame, WatcherFrame
<1>5. CASE RecordSwitch(n)
  <2> DEFINE x == nsObj[n]
             y == [x EXCEPT !.last = x.label,
                            !.prev = IF x.last = NoClass THEN @ ELSE x.last]
  <2>1. y \in NamespaceObject
    BY <1>2 DEF NamespaceObject
  <2>2. WriteNamespace(n, y)
    BY <1>5 DEF RecordSwitch
  <2> HIDE DEF y
  <2>3. nsObj' \in [Namespace -> NamespaceObject]
    BY <2>1, <2>2, WriteNamespaceType
  <2>4. StateTyped'
    BY <1>5, <2>3 DEF RecordSwitch, bounds
  <2> QED BY <1>1, <2>4, CRFrame, WatcherFrame
<1>6. CASE ReportClass(n)
  <2>1. faults' \in 0..MaxFaults
    BY <1>6, FaultType DEF ReportClass
  <2>2. StateTyped'
    BY <1>6, <2>1 DEF ReportClass
  <2> QED BY <1>1, <2>2, CRFrame, WatcherFrame
<1>7. CASE SwitchWindowEnds(n)
  <2>1. StateTyped'
    BY <1>7 DEF SwitchWindowEnds, bounds
  <2> QED BY <1>1, <2>1, CRFrame, WatcherFrame
<1> QED BY <1>3, <1>4, <1>5, <1>6, <1>7

LEMMA EditType ==
    ASSUME StateTyped, Edit
    PROVE  edits' \in 0..MaxEdits /\ edits' # edits
BY ApprovalAssumption DEF StateTyped, StateTypeOK, Edit

\* A class as a user leaves it keeps its status.
LEMMA EditedType ==
    ASSUME StateTyped, NEW c \in Class, NEW s \in ClassSpecs, class[c] # Absent
    PROVE  LET v == [class[c] EXCEPT !.res = s.res, !.allow = s.allow,
                                     !.gate = s.gate, !.suggest = s.suggest]
           IN  v \in ClassObject /\ v.recs = class[c].recs /\ v.cond = class[c].cond
<1>1. s \in [res : Resources, allow : BOOLEAN, gate : BOOLEAN, suggest : BOOLEAN]
  BY ApprovalAssumption
<1>2. class[c] \in ClassObject
  BY DEF StateTyped, StateTypeOK
<1> QED BY <1>1, <1>2 DEF ClassObject

\* What a user does to a class.
LEMMA ClassEdited ==
    ASSUME Typed, NEW c \in Class,
           DeleteClass(c) \/ \E s \in ClassSpecs : EditClass(c, s)
    PROVE  \E v \in ClassObject \cup {Absent} :
              /\ WriteClass(c, v)
              /\ v # Absent => \/ /\ class[c] # Absent
                                  /\ v.recs = class[c].recs /\ v.cond = class[c].cond
                               \/ v.recs = <<>> /\ v.cond = "Unset"
<1>1. CASE DeleteClass(c)
  BY <1>1 DEF DeleteClass
<1>2. ASSUME NEW s \in ClassSpecs, EditClass(c, s), class[c] = Absent
      PROVE  /\ WriteClass(c, NewClass(s)) /\ NewClass(s) \in ClassObject
             /\ NewClass(s).recs = <<>> /\ NewClass(s).cond = "Unset"
  BY <1>2, NewClassType DEF EditClass, NewClass
<1>3. ASSUME NEW s \in ClassSpecs, EditClass(c, s), class[c] # Absent
      PROVE  LET v == [class[c] EXCEPT !.res = s.res, !.allow = s.allow,
                                       !.gate = s.gate, !.suggest = s.suggest]
             IN  /\ WriteClass(c, v) /\ v \in ClassObject
                 /\ v.recs = class[c].recs /\ v.cond = class[c].cond
  BY <1>3, EditedType DEF EditClass, Typed
<1> QED BY <1>1, <1>2, <1>3

LEMMA PutRequestType ==
    ASSUME StateTyped, NEW q \in Request, NEW c \in MaybeClass, NEW id \in 0..MaxRecs,
           NEW d \in RequestSpecs, PutRequest(q, c, id, d)
    PROVE  request' \in [Request -> RequestObject \cup {Absent}]
<1> DEFINE phase == IF request[q] = Absent THEN "None" ELSE request[q].phase
           audit == IF request[q] = Absent THEN NoAudit ELSE request[q].audit
           new == [cls |-> c, rec |-> id, approved |-> d.approved, high |-> d.high,
                   url |-> d.url, phase |-> phase, audit |-> audit]
<1>1. d \in [approved : BOOLEAN, high : BOOLEAN, url : {"none", "bad", "ok"}]
  BY ApprovalAssumption
<1>2. NoAudit \in Audit
  BY ApprovalAssumption DEF NoAudit, Audit
<1>3. phase \in {"None", "Pending", "Rejected", "Applied"} /\ audit \in Audit
  BY <1>2 DEF StateTyped, StateTypeOK, RequestObject
<1>4. request' = [request EXCEPT ![q] = new]
  BY DEF PutRequest
<1> HIDE DEF phase, audit
<1>5. new \in RequestObject
  BY <1>1, <1>3 DEF RequestObject
<1> HIDE DEF new
<1> QED BY <1>4, <1>5 DEF StateTyped, StateTypeOK

LEMMA TypeUsers ==
    ASSUME Typed, Users
    PROVE  Typed'
<1>1. UNCHANGED watcherVars /\ UNCHANGED <<faults, crPass, nsCache>>
  BY DEF Users, Tamper, Relabel, DeleteClass, EditClass, DeleteRequest, PutRequest, crVars
<1>2. edits' \in 0..MaxEdits
  BY EditType DEF Typed, Users, Tamper, Relabel, DeleteClass, EditClass, DeleteRequest,
     PutRequest
<1>3. crQueue' \subseteq Request
  BY DEF Typed, CRTyped, CRTypeOK, Users, Tamper, Relabel, DeleteClass, EditClass,
     DeleteRequest, PutRequest, crVars
<1>4. CRTyped'
  BY <1>1, <1>3 DEF Typed, CRTyped, CRTypeOK
<1> USE DEF Typed, StateTyped, StateTypeOK
<1>5. ASSUME NEW n \in Namespace, Tamper(n)
      PROVE  StateTyped'
  BY <1>2, <1>5 DEF Tamper
<1>6. ASSUME NEW n \in Namespace, NEW l \in MaybeClass, Relabel(n, l)
      PROVE  StateTyped'
  <2> DEFINE y == [nsObj[n] EXCEPT !.label = l]
  <2>1. y \in NamespaceObject
    BY DEF NamespaceObject
  <2>2. WriteNamespace(n, y)
    BY <1>6 DEF Relabel
  <2> HIDE DEF y
  <2>3. nsObj' \in [Namespace -> NamespaceObject]
    BY <2>1, <2>2, WriteNamespaceType
  <2> QED BY <1>2, <1>6, <2>3 DEF Relabel
<1>7. ASSUME NEW c \in Class, DeleteClass(c) \/ \E s \in ClassSpecs : EditClass(c, s)
      PROVE  StateTyped'
  <2>1. /\ class' \in [Class -> ClassObject \cup {Absent}]
        /\ seen' \subseteq Class
        /\ \A d \in seen' : class'[d] # Absent
    BY <1>7, ClassEdited, WriteClassType
  <2> QED BY <1>2, <1>7, <2>1 DEF DeleteClass, EditClass
<1>8. ASSUME NEW q \in Request, DeleteRequest(q)
      PROVE  StateTyped'
  BY <1>2, <1>8 DEF DeleteRequest
<1>9. ASSUME NEW q \in Request, NEW c \in MaybeClass, NEW id \in 0..MaxRecs,
             NEW d \in RequestSpecs, PutRequest(q, c, id, d)
      PROVE  StateTyped'
  <2>1. request' \in [Request -> RequestObject \cup {Absent}]
    BY <1>9, PutRequestType
  <2> QED BY <1>2, <1>9, <2>1 DEF PutRequest
<1>10. StateTyped'
  BY <1>5, <1>6, <1>7, <1>8, <1>9 DEF Users
<1> QED BY <1>1, <1>4, <1>10, WatcherFrame

LEMMA TypeRestart ==
    ASSUME Typed, Restart
    PROVE  Typed'
<1>1. faults' \in 0..MaxFaults
  BY FaultType DEF Restart, Typed, StateTyped, StateTypeOK
<1>2. StateTyped'
  BY <1>1 DEF Typed, StateTyped, StateTypeOK, Restart, served
<1>3. CRTyped'
  BY DEF Typed, StateTyped, StateTypeOK, CRTyped, CRTypeOK, Restart, NoPass
<1>4. WatcherTyped'
  BY DEF WatcherTyped, WatcherTypeOK, Restart, NoPoll
<1> QED BY <1>2, <1>3, <1>4 DEF Typed

LEMMA TypedStep == Typed /\ [Next]_vars => Typed'
<1> SUFFICES ASSUME Typed, [Next]_vars PROVE Typed'
  OBVIOUS
<1>1. CASE ChangeRequestNext /\ UNCHANGED watcherVars
  BY <1>1, TypeTakeRequest, TypeGetClass, TypeUpdateClass, TypeListNamespaces,
     TypeCheckPreviousClass, TypeRollBackNamespace, TypeUpdateNamespaceClassStatus,
     TypeUpdateChangeRequestStatus, TypeRefreshNamespace, TypeRequestFails,
     TypeClassStatusFails DEF ChangeRequestNext, ReconcileRequest
<1>2. CASE WatcherNext /\ UNCHANGED crVars
  BY <1>2, TypeStartPoll, TypeEndPoll, TypeNextClass, TypeDetectDrift, TypeCannotRead,
     TypeCompareDigest, TypeChooseBase, TypeAskOpenAI, TypeWriteClassStatus,
     TypeWatcherFails DEF WatcherNext, ReconcileClasses
<1>3. CASE UNCHANGED vars
  BY <1>3, StateFrame, CRFrame, WatcherFrame DEF vars, Typed
<1> QED BY <1>1, <1>2, <1>3, TypeNamespaceNext, TypeUsers, TypeRestart DEF Next

\* Every state of classes, requests, Namespaces, pass, poll and queues is well
\* typed: whatever fails or is deleted between two calls, no step computes with an
\* object that is not there.
THEOREM FlowTypeCorrect == Spec => []TypeOK
<1>1. Typed => TypeOK
  BY DEF Typed, StateTyped, CRTyped, WatcherTyped, TypeOK
<1> QED BY <1>1, TypedInit, TypedStep, PTL DEF Spec

\* The same of the invariant, by which a step finds in its pass or poll what it uses.
LEMMA AlwaysTyped == Spec => []Typed
BY TypedInit, TypedStep, PTL DEF Spec

-----------------------------------------------------------------------------
\* What is applied.  A class in seen is as the pass found it, so the check of
\* GetClass still holds when UpdateClass writes.

CopyChecked ==
    crPass.pc = "update" /\ crPass.req.cls \in seen =>
        LET k == class[crPass.req.cls]
        IN  /\ ~Rejects(crPass.req, k)
            /\ crPass.idx \in Places(k, crPass.req.rec)
            /\ crPass.rec = k.recs[crPass.idx]

\* A write leaves seen to the classes it does not touch.
LEMMA WriteClassSeen ==
    ASSUME StateTyped, NEW c, NEW v, WriteClass(c, v)
    PROVE  seen' \subseteq seen /\ \A d \in seen' : class'[d] = class[d]
BY DEF StateTyped, StateTypeOK, WriteClass

\* Only GetClass adds to seen, and who writes a class takes it out.
LEMMA SeenKept ==
    ASSUME Typed, [Next]_vars, ~GetClass
    PROVE  seen' \subseteq seen /\ \A d \in seen' : class'[d] = class[d]
<1>1. ASSUME NEW c \in Class, DeleteClass(c) \/ \E s \in ClassSpecs : EditClass(c, s)
      PROVE  seen' \subseteq seen /\ \A d \in seen' : class'[d] = class[d]
  BY <1>1, ClassEdited, WriteClassSeen DEF Typed
<1>2. CASE UpdateClass
  BY <1>2, WriteClassSeen DEF UpdateClass, Typed
<1>3. CASE UpdateNamespaceClassStatus
  BY <1>3, WriteClassSeen DEF UpdateNamespaceClassStatus, Typed
<1>4. CASE WriteClassStatus
  BY <1>4, ClassStatusWritten, WriteClassSeen DEF Typed
<1>5. CASE NamespaceNext
  BY <1>5 DEF NamespaceNext, Repair, RepairHalfway, RecordSwitch, ReportClass,
     SwitchWindowEnds
<1>6. CASE ChangeRequestNext /\ ~UpdateClass /\ ~UpdateNamespaceClassStatus
  BY <1>6 DEF ChangeRequestNext, ReconcileRequest, TakeRequest, ListNamespaces,
     CheckPreviousClass, RollBackNamespace, UpdateChangeRequestStatus, RefreshNamespace,
     RequestFails, ClassStatusFails, served
<1>7. CASE WatcherNext /\ ~WriteClassStatus
  BY <1>7 DEF WatcherNext, ReconcileClasses, StartPoll, EndPoll, NextClass, DetectDrift,
     CannotRead, CompareDigest, ChooseBase, AskOpenAI, OpenAIFails, ClassFails, BaseFails,
     served
<1>8. CASE Users
  BY <1>1, <1>8 DEF Users, Tamper, Relabel, DeleteRequest, PutRequest
<1>9. CASE Restart \/ UNCHANGED vars
  BY <1>9 DEF Restart, vars, served
<1> QED BY <1>2, <1>3, <1>4, <1>5, <1>6, <1>7, <1>8, <1>9 DEF Next

\* The four steps between the reading of a class and the answer.
Applying == {"update", "list", "rollback", "write"}

\* A pass goes on with what it has found, to its end in an Applied answer.
PassGoesOn ==
    /\ crPass \in Pass /\ crPass' \in Pass
    /\ crPass'.q = crPass.q /\ crPass'.req = crPass.req
    /\ crPass'.rec = crPass.rec /\ crPass'.idx = crPass.idx
    /\ crPass.pc \in Applying
    /\ \/ crPass'.pc \in Applying \ {"update"}
       \/ crPass'.pc = "answer" /\ crPass'.phase = "Applied"

LEMMA PassType ==
    ASSUME Typed, [Next]_vars
    PROVE  crPass' \in Pass \cup {NoPass}
BY TypedStep DEF Typed, CRTyped, CRTypeOK

\* How a pass moves.
LEMMA PassMoves ==
    ASSUME Typed, [Next]_vars
    PROVE  \/ crPass' = crPass
           \/ crPass' = NoPass
           \/ \E q \in Request : TakeRequest(q)
           \/ GetClass
           \/ PassGoesOn
<1>1. crPass.pc # "idle" => crPass \in Pass
  BY PassIsRunning DEF Typed
<1>2. crPass' \in Pass \cup {NoPass}
  BY PassType
<1>3. CASE UpdateClass \/ RollBackNamespace \/ UpdateChangeRequestStatus \/ RequestFails
  BY <1>1, <1>2, <1>3 DEF UpdateClass, RollBackNamespace, UpdateChangeRequestStatus,
     RequestFails, RequeueRequest, Pass, PassGoesOn, Applying
<1>4. CASE ListNamespaces
  BY <1>1, <1>2, <1>4 DEF ListNamespaces, Pass, PassGoesOn, Applying, NoPass
<1>5. CASE CheckPreviousClass
  BY <1>1, <1>2, <1>5 DEF CheckPreviousClass, Pass, PassGoesOn, Applying, NoPass
<1>6. CASE UpdateNamespaceClassStatus \/ ClassStatusFails
  <2>1. crPass \in Pass /\ crPass.pc = "rollback" /\ crPass' = Answer(crPass, "Applied")
    BY <1>1, <1>6 DEF UpdateNamespaceClassStatus, ClassStatusFails
  <2>2. /\ crPass' \in Pass /\ crPass'.pc = "answer" /\ crPass'.phase = "Applied"
        /\ crPass'.q = crPass.q /\ crPass'.req = crPass.req /\ crPass'.rec = crPass.rec
    BY <2>1, AnswerType
  <2>3. crPass'.idx = crPass.idx
    BY <2>1 DEF Answer, Pass
  <2> QED BY <2>1, <2>2, <2>3 DEF PassGoesOn, Applying
<1>7. CASE \E n \in Namespace : RefreshNamespace(n)
  BY <1>7 DEF RefreshNamespace
<1>8. CASE NamespaceNext \/ UNCHANGED crVars
  BY <1>8 DEF NamespaceNext, Repair, RepairHalfway, RecordSwitch, ReportClass,
     SwitchWindowEnds, crVars
<1>9. CASE Users
  BY <1>9 DEF Users, Tamper, Relabel, DeleteClass, EditClass, DeleteRequest, PutRequest,
     crVars
<1>10. CASE Restart \/ UNCHANGED vars
  BY <1>10 DEF Restart, vars, crVars
<1> QED BY <1>3, <1>4, <1>5, <1>6, <1>7, <1>8, <1>9, <1>10
    DEF Next, ChangeRequestNext, ReconcileRequest

\* How a pass begins: with an answer, or with a class to read.
LEMMA PassBegins ==
    ASSUME Typed, NEW q \in Request, TakeRequest(q)
    PROVE  \/ request[q] = Absent /\ crPass' = NoPass
           \/ /\ request[q] \in RequestObject /\ request[q] # Absent
              /\ crPass' \in Pass /\ crPass'.q = q /\ crPass'.req = request[q]
              /\ \/ /\ crPass'.pc = "answer"
                    /\ crPass'.phase = IF request[q].approved THEN "Rejected" ELSE "Pending"
                 \/ crPass'.pc = "getClass" /\ request[q].approved
<1>1. CASE request[q] = Absent
  BY <1>1 DEF TakeRequest
<1>2. CASE request[q] # Absent
  <2>1. request[q] \in RequestObject /\ StartPass(q) \in Pass
    BY <1>2, StartPassType DEF Typed, StateTyped, StateTypeOK
  <2>2. /\ StartPass(q).q = q /\ StartPass(q).req = request[q]
        /\ StartPass(q).pc = "getClass"
    BY DEF StartPass
  <2>3. CASE ~request[q].approved /\ crPass' = Answer(StartPass(q), "Pending")
    BY <1>2, <2>1, <2>2, <2>3, AnswerType
  <2>4. CASE request[q].approved /\ crPass' = Answer(StartPass(q), "Rejected")
    BY <1>2, <2>1, <2>2, <2>4, AnswerType
  <2>5. CASE request[q].approved /\ crPass' = StartPass(q)
    BY <1>2, <2>1, <2>2, <2>5
  <2> QED BY <1>2, <2>3, <2>4, <2>5 DEF TakeRequest
<1> QED BY <1>1, <1>2

\* What a pass finds in the class: a reason to reject, or what it will apply.
LEMMA PassFinds ==
    ASSUME Typed, GetClass
    PROVE  /\ crPass \in Pass /\ crPass' \in Pass
           /\ crPass'.q = crPass.q /\ crPass'.req = crPass.req
           /\ \/ crPass'.pc = "answer" /\ crPass'.phase = "Rejected"
              \/ LET k == class[crPass.req.cls]
                 IN  /\ crPass'.pc = "update"
                     /\ k \in ClassObject /\ k # Absent
                     /\ ~Rejects(crPass.req, k)
                     /\ crPass'.idx \in Places(k, crPass.req.rec)
                     /\ crPass'.rec = k.recs[crPass'.idx]
<1> DEFINE k == class[crPass.req.cls]
<1>1. crPass \in Pass /\ k \in ClassObject \cup {Absent}
  BY PassIsRunning DEF Typed, CRTyped, StateTyped, StateTypeOK, GetClass
<1>2. CASE crPass' = Answer(crPass, "Rejected")
  BY <1>1, <1>2, AnswerType
<1>3. ASSUME k # Absent, ~Rejects(crPass.req, k), NEW i \in Places(k, crPass.req.rec),
             crPass' = [crPass EXCEPT !.rec = k.recs[i], !.idx = i, !.pc = "update"]
      PROVE  /\ crPass' \in Pass
             /\ crPass'.pc = "update" /\ crPass'.idx = i /\ crPass'.rec = k.recs[i]
             /\ crPass'.q = crPass.q /\ crPass'.req = crPass.req
  <2>1. k.recs \in Seq(Recommendation) /\ i \in DOMAIN k.recs
    BY <1>1, <1>3 DEF ClassObject, Places
  <2>2. k.recs[i] \in Recommendation /\ i \in Nat
    BY <2>1
  <2> QED BY <1>1, <1>3, <2>2 DEF Pass
<1> QED BY <1>1, <1>2, <1>3 DEF GetClass

LEMMA CopyCheckedByGetClass ==
    ASSUME Typed, GetClass
    PROVE  CopyChecked'
<1>1. CASE crPass'.pc = "answer"
  BY <1>1 DEF CopyChecked
<1>2. CASE crPass'.pc = "update"
  <2>1. class'[crPass'.req.cls] = class[crPass.req.cls] /\ crPass'.req = crPass.req
    BY PassFinds DEF GetClass
  <2> QED BY <1>2, <2>1, PassFinds DEF CopyChecked
<1> QED BY <1>1, <1>2, PassFinds

LEMMA CopyStaysChecked ==
    ASSUME Typed, CopyChecked, [Next]_vars
    PROVE  CopyChecked'
<1>1. CASE GetClass
  BY <1>1, CopyCheckedByGetClass
<1>2. CASE ~GetClass
  <2> SUFFICES ASSUME crPass'.pc = "update", crPass'.req.cls \in seen'
               PROVE  CopyChecked'
    BY DEF CopyChecked
  <2>1. crPass' = crPass
    BY <1>2, PassMoves, PassBegins DEF PassGoesOn, NoPass
  <2>2. crPass.req.cls \in seen /\ class'[crPass.req.cls] = class[crPass.req.cls]
    BY <1>2, <2>1, SeenKept
  <2> QED BY <2>1, <2>2 DEF CopyChecked, Rejects, Places
<1> QED BY <1>1, <1>2

LEMMA AlwaysCopyChecked == Spec => []CopyChecked
<1>1. Init => CopyChecked
  BY DEF Init, CRInit, CopyChecked, NoPass
<1> QED BY <1>1, CopyStaysChecked, AlwaysTyped, PTL DEF Spec

\* Steps that leave classes alone.
LEMMA ClassesKept ==
    ASSUME [Next]_vars, ~UpdateClass, ~UpdateNamespaceClassStatus, ~WriteClassStatus,
           \A c \in Class : ~DeleteClass(c) /\ \A s \in ClassSpecs : ~EditClass(c, s)
    PROVE  UNCHANGED class
<1>1. CASE ChangeRequestNext
  BY <1>1 DEF ChangeRequestNext, ReconcileRequest, TakeRequest, GetClass, ListNamespaces,
     CheckPreviousClass, RollBackNamespace, UpdateChangeRequestStatus, RefreshNamespace,
     RequestFails, ClassStatusFails, served
<1>2. CASE WatcherNext
  BY <1>2 DEF WatcherNext, ReconcileClasses, StartPoll, EndPoll, NextClass, DetectDrift,
     CannotRead, CompareDigest, ChooseBase, AskOpenAI, OpenAIFails, ClassFails, BaseFails,
     served
<1>3. CASE NamespaceNext
  BY <1>3 DEF NamespaceNext, Repair, RepairHalfway, RecordSwitch, ReportClass,
     SwitchWindowEnds
<1>4. CASE Users
  BY <1>4 DEF Users, Tamper, Relabel, DeleteRequest, PutRequest
<1>5. CASE Restart \/ UNCHANGED vars
  BY <1>5 DEF Restart, vars, served
<1> QED BY <1>1, <1>2, <1>3, <1>4, <1>5 DEF Next

\* The update of a class by an approved request.
ApplyFound(c) ==
    /\ c = crPass.req.cls
    /\ class[c] \in ClassObject
    /\ crPass.rec \in Recommendation
    /\ crPass.req.high \in BOOLEAN
    /\ ~Rejects(crPass.req, class[c])
    /\ crPass.idx \in Places(class[c], crPass.req.rec)
    /\ crPass.rec = class[c].recs[crPass.idx]
    /\ class'[c] = Applied(class[c], crPass.rec, crPass.req.high)

LEMMA UpdateApplies ==
    ASSUME Typed, CopyChecked, UpdateClass, NEW c \in Class, class'[c] # class[c]
    PROVE  ApplyFound(c)
<1> DEFINE d == crPass.req.cls
<1>1. crPass \in Pass /\ d \in Class /\ crPass.rec \in Recommendation
  BY PassIsRunning DEF Typed, CRTyped, UpdateClass
<1>2. crPass.req.high \in BOOLEAN
  BY <1>1 DEF Pass, RequestObject
<1>3. CopyCurrent(d) /\ class' = [class EXCEPT ![d] = Applied(class[d], crPass.rec,
                                                             crPass.req.high)]
  BY DEF UpdateClass, WriteClass
<1>4. class \in [Class -> ClassObject \cup {Absent}]
  BY DEF Typed, StateTyped, StateTypeOK
<1>5. c = d
  BY <1>1, <1>3, <1>4
<1>6. d \in seen /\ class[d] \in ClassObject
  BY <1>1, <1>3, <1>4 DEF CopyCurrent, Typed, StateTyped
<1>7. class'[d] = Applied(class[d], crPass.rec, crPass.req.high)
  BY <1>1, <1>3, <1>4
<1> QED BY <1>1, <1>2, <1>5, <1>6, <1>7 DEF ApplyFound, CopyChecked, UpdateClass

\* Nobody but users and the update writes resources.
LEMMA ResourcesApplied ==
    ASSUME Typed, CopyChecked, [Next]_vars, edits' = edits,
           NEW c \in Class, class'[c] # class[c], class'[c].res # class[c].res
    PROVE  ApplyFound(c)
<1>1. class \in [Class -> ClassObject \cup {Absent}]
  BY DEF Typed, StateTyped, StateTypeOK
<1>2. ~\E d \in Class : DeleteClass(d) \/ \E s \in ClassSpecs : EditClass(d, s)
  BY EditType DEF DeleteClass, EditClass, Typed
<1>3. CASE UpdateClass
  BY <1>3, UpdateApplies
<1>4. CASE UpdateNamespaceClassStatus
  <2> DEFINE d == crPass.req.cls
             recs == [i \in DOMAIN class[d].recs |->
                        IF i = crPass.idx THEN [crPass.rec EXCEPT !.status = "Applied"]
                                          ELSE class[d].recs[i]]
             v == [class[d] EXCEPT !.cond = "False", !.recs = recs]
  <2>1. UNCHANGED class \/ (class[d] # Absent /\ class' = [class EXCEPT ![d] = v])
    BY <1>4 DEF UpdateNamespaceClassStatus, WriteClass
  <2>2. CASE c # d
    <3> HIDE DEF v
    <3> QED BY <1>1, <2>1, <2>2
  <2>3. CASE c = d /\ class[c] # Absent /\ class' = [class EXCEPT ![d] = v]
    <3>1. v.res = class[c].res
      <4>1. class[d] \in ClassObject
        BY <1>1, <2>3
      <4> HIDE DEF recs
      <4> QED BY <2>3, <4>1 DEF ClassObject
    <3> HIDE DEF v
    <3> QED BY <1>1, <2>3, <3>1
  <2> QED BY <2>1, <2>2, <2>3
<1>5. CASE WriteClassStatus
  <2> DEFINE d == poll.item.c
             recs == Recommended(class[d])
             cond == Reported(poll.pending, recs)
             v == [class[d] EXCEPT !.recs = recs, !.cond = cond]
  <2>1. \/ UNCHANGED class
        \/ class[d] \in ClassObject /\ class' = [class EXCEPT ![d] = v]
    BY <1>5, ClassStatusWritten DEF WriteClass
  <2>2. CASE c # d
    <3> HIDE DEF v
    <3> QED BY <1>1, <2>1, <2>2
  <2>3. CASE c = d /\ class[d] \in ClassObject /\ class' = [class EXCEPT ![d] = v]
    <3>1. v.res = class[c].res
      <4> HIDE DEF recs, cond
      <4> QED BY <2>3 DEF ClassObject
    <3> HIDE DEF v
    <3> QED BY <1>1, <2>3, <3>1
  <2> QED BY <2>1, <2>2, <2>3
<1> QED BY <1>2, <1>3, <1>4, <1>5, ClassesKept

\* Resources no user wrote are those of the recommendation named, as it stands on
\* the class at that moment (README, "applies proposedResources").
THEOREM AppliedAsRecommendedCorrect == Spec => AppliedAsRecommended
<1>1. Typed /\ CopyChecked /\ [Next]_vars =>
        [\A c \in Class :
            edits' = edits /\ class'[c] # class[c] /\ class'[c].res # class[c].res =>
              \E i \in DOMAIN class[c].recs :
                  /\ class[c].recs[i].id = crPass.req.rec
                  /\ class[c].recs[i].res = class'[c].res]_vars
  <2> SUFFICES ASSUME Typed, CopyChecked, [Next]_vars, NEW c \in Class, edits' = edits,
                      class'[c] # class[c], class'[c].res # class[c].res
               PROVE  \E i \in DOMAIN class[c].recs :
                         /\ class[c].recs[i].id = crPass.req.rec
                         /\ class[c].recs[i].res = class'[c].res
    OBVIOUS
  <2>1. ApplyFound(c)
    BY ResourcesApplied
  <2>2. class'[c].res = crPass.rec.res
    BY <2>1, AppliedType DEF ApplyFound
  <2> QED BY <2>1, <2>2 DEF ApplyFound, Places
<1> QED BY <1>1, AlwaysTyped, AlwaysCopyChecked, PTL DEF Spec, AppliedAsRecommended

\* What a request puts in a class is not refused as high-risk by the NamespaceClass
\* reconciler: it is of another kind, or the class allows it by then.
THEOREM AppliedIsAcceptedCorrect == Spec => AppliedIsAccepted
<1>1. Typed /\ CopyChecked /\ [Next]_vars =>
        [\A c \in Class :
            edits' = edits /\ class'[c] # class[c] /\ class'[c].res # class[c].res =>
              (class'[c].res \in HighRisk => class'[c].allow)]_vars
  <2> SUFFICES ASSUME Typed, CopyChecked, [Next]_vars, NEW c \in Class, edits' = edits,
                      class'[c] # class[c], class'[c].res # class[c].res,
                      class'[c].res \in HighRisk
               PROVE  class'[c].allow
    OBVIOUS
  <2>1. ApplyFound(c)
    BY ResourcesApplied
  <2>2. /\ class'[c].res = crPass.rec.res
        /\ class'[c].allow = (class[c].allow \/ crPass.req.high)
    BY <2>1, AppliedType DEF ApplyFound
  <2>3. crPass.req.high
    BY <2>1, <2>2 DEF ApplyFound, Rejects
  <2> QED BY <2>2, <2>3
<1> QED BY <1>1, AlwaysTyped, AlwaysCopyChecked, PTL DEF Spec, AppliedIsAccepted

\* What a request puts in a class behind the pull request gate has a URL, even if
\* the class came behind it after the pass read it (pullRequestGateMessage).
THEOREM GateRespectedCorrect == Spec => GateRespected
<1>1. Typed /\ CopyChecked /\ [Next]_vars =>
        [\A c \in Class :
            edits' = edits /\ class'[c] # class[c] /\ class'[c].res # class[c].res =>
              (class[c].gate => crPass.req.url = "ok")]_vars
  BY ResourcesApplied DEF ApplyFound, Rejects
<1> QED BY <1>1, AlwaysTyped, AlwaysCopyChecked, PTL DEF Spec, GateRespected

-----------------------------------------------------------------------------
\* The condition RecommendationPending.  A class has one recommendation at most,
\* so the place that a pass remembers is where a waiting one would be, and after
\* it is marked none waits, although the list may have been replaced meanwhile.

OneRecommendation ==
    /\ \A c \in Class : class[c] # Absent => DOMAIN class[c].recs \subseteq {1}
    /\ crPass.pc \in Applying => crPass.idx = 1

ClassReported(k) ==
    k # Absent => /\ DOMAIN k.recs \subseteq {1}
                  /\ k.cond = "True" <=> Pending(k.recs)

\* The update changes neither list nor condition.
LEMMA ReportedByUpdate ==
    ASSUME Typed, CopyChecked, UpdateClass, NEW c \in Class, ClassReported(class[c])
    PROVE  ClassReported(class'[c])
<1>1. CASE class'[c] = class[c]
  BY <1>1
<1>2. CASE class'[c] # class[c]
  <2>1. ApplyFound(c)
    BY <1>2, UpdateApplies
  <2>2. class'[c].recs = class[c].recs /\ class'[c].cond = class[c].cond
    BY <2>1, AppliedType DEF ApplyFound
  <2>3. class[c] # Absent
    <3>1. CopyCurrent(c)
      BY <2>1, <1>2 DEF UpdateClass, ApplyFound
    <3> QED BY <3>1 DEF CopyCurrent, Typed, StateTyped
  <2> QED BY <2>2, <2>3 DEF ClassReported
<1> QED BY <1>1, <1>2

\* Marking the one recommendation leaves none that waits.
LEMMA ReportedByMark ==
    ASSUME Typed, OneRecommendation, UpdateNamespaceClassStatus,
           NEW c \in Class, ClassReported(class[c])
    PROVE  ClassReported(class'[c])
<1> DEFINE d == crPass.req.cls
           k == class[d]
           done == [crPass.rec EXCEPT !.status = "Applied"]
           recs == [i \in DOMAIN k.recs |-> IF i = crPass.idx THEN done ELSE k.recs[i]]
           v == [k EXCEPT !.cond = "False", !.recs = recs]
<1>1. crPass \in Pass /\ d \in Class /\ crPass.rec \in Recommendation /\ crPass.idx = 1
  BY PassIsRunning DEF Typed, CRTyped, UpdateNamespaceClassStatus, OneRecommendation,
     Applying
<1>2. class \in [Class -> ClassObject \cup {Absent}]
  BY DEF Typed, StateTyped, StateTypeOK
<1>3. UNCHANGED class \/ (k # Absent /\ class' = [class EXCEPT ![d] = v])
  BY DEF UpdateNamespaceClassStatus, WriteClass
<1>4. CASE c # d
  <2> HIDE DEF v
  <2>1. class'[c] = class[c]
    BY <1>2, <1>3, <1>4
  <2> QED BY <2>1
<1>5. CASE c = d /\ k # Absent /\ class' = [class EXCEPT ![d] = v]
  <2>1. k \in ClassObject /\ DOMAIN k.recs \subseteq {1}
    BY <1>1, <1>2, <1>5 DEF ClassReported
  <2>2. DOMAIN recs = DOMAIN k.recs
    OBVIOUS
  <2>3. done.status = "Applied"
    BY <1>1 DEF Recommendation
  <2>4. \A i \in DOMAIN recs : recs[i] = done
    <3> HIDE DEF done, k
    <3> QED BY <1>1, <2>1
  <2>5. ~Pending(recs)
    <3> HIDE DEF recs, done
    <3> QED BY <2>3, <2>4 DEF Pending
  <2>6. v.recs = recs /\ v.cond = "False"
    <3> HIDE DEF recs, k
    <3> QED BY <2>1 DEF ClassObject
  <2> HIDE DEF v, recs
  <2>7. class'[c] = v
    BY <1>2, <1>5
  <2> QED BY <2>1, <2>2, <2>5, <2>6, <2>7 DEF ClassReported
<1>6. CASE UNCHANGED class
  BY <1>6
<1> QED BY <1>3, <1>4, <1>5, <1>6

\* The watcher reports what it leaves in the list.
LEMMA ReportedByWatcher ==
    ASSUME Typed, WriteClassStatus, NEW c \in Class, ClassReported(class[c])
    PROVE  ClassReported(class'[c])
<1> DEFINE d == poll.item.c
           recs == Recommended(class[d])
           cond == Reported(poll.pending, recs)
           v == [class[d] EXCEPT !.recs = recs, !.cond = cond]
<1>1. class \in [Class -> ClassObject \cup {Absent}]
  BY DEF Typed, StateTyped, StateTypeOK
<1>2. \/ UNCHANGED class
      \/ d \in Class /\ class[d] \in ClassObject /\ class' = [class EXCEPT ![d] = v]
  BY ClassStatusWritten DEF WriteClass
<1>3. \/ UNCHANGED class
      \/ class[d] # Absent
  BY DEF WriteClassStatus
<1>4. CASE UNCHANGED class \/ c # d
  <2> HIDE DEF v
  <2>1. class'[c] = class[c]
    BY <1>1, <1>2, <1>4
  <2> QED BY <2>1
<1>5. CASE c = d /\ class[d] \in ClassObject /\ class[d] # Absent
           /\ class' = [class EXCEPT ![d] = v]
  <2>1. v.recs = recs /\ v.cond = cond
    <3> HIDE DEF recs, cond
    <3> QED BY <1>5 DEF ClassObject
  <2>2. poll.pending => Pending(recs)
    <3> SUFFICES ASSUME poll.pending PROVE Pending(recs)
      OBVIOUS
    <3>1. recs = <<[id |-> NewId, status |-> "Pending", res |-> poll.proposed]>>
      BY DEF Recommended
    <3>2. recs[1].status = "Pending" /\ 1 \in DOMAIN recs
      BY <3>1
    <3> QED BY <3>2 DEF Pending
  <2>3. DOMAIN recs \subseteq {1}
    BY <1>5 DEF Recommended, ClassReported
  <2>4. cond = "True" <=> Pending(recs)
    BY <2>2 DEF Reported
  <2> HIDE DEF v, recs, cond
  <2>5. class'[c] = v
    BY <1>1, <1>5
  <2> QED BY <2>1, <2>3, <2>4, <2>5 DEF ClassReported
<1> QED BY <1>2, <1>3, <1>4, <1>5

\* Users leave list and condition, or begin with neither.
LEMMA ReportedByUsers ==
    ASSUME Typed, NEW d \in Class,
           DeleteClass(d) \/ \E s \in ClassSpecs : EditClass(d, s),
           NEW c \in Class, ClassReported(class[c])
    PROVE  ClassReported(class'[c])
<1>1. class \in [Class -> ClassObject \cup {Absent}]
  BY DEF Typed, StateTyped, StateTypeOK
<1>2. PICK v \in ClassObject \cup {Absent} :
         /\ WriteClass(d, v)
         /\ v # Absent => \/ /\ class[d] # Absent
                             /\ v.recs = class[d].recs /\ v.cond = class[d].cond
                          \/ v.recs = <<>> /\ v.cond = "Unset"
  BY ClassEdited
<1>3. class' = [class EXCEPT ![d] = v]
  BY <1>2 DEF WriteClass
<1>4. class'[c] = IF c = d THEN v ELSE class[c]
  BY <1>1, <1>3
<1>5. ~Pending(<<>>) /\ DOMAIN <<>> = {}
  BY DEF Pending
<1> QED BY <1>2, <1>4, <1>5 DEF ClassReported

LEMMA AllReported ==
    ASSUME Typed, CopyChecked, OneRecommendation, PendingIsReported, [Next]_vars
    PROVE  OneRecommendation' /\ PendingIsReported'
<1>1. ASSUME NEW c \in Class PROVE ClassReported(class[c])
  BY DEF OneRecommendation, PendingIsReported, ClassReported
<1>2. ASSUME NEW c \in Class PROVE ClassReported(class'[c])
  <2>1. CASE UNCHANGED class
    BY <1>1, <2>1
  <2> QED BY <1>1, <2>1, ReportedByUpdate, ReportedByMark, ReportedByWatcher,
          ReportedByUsers, ClassesKept
<1>3. crPass'.pc \in Applying => crPass'.idx = 1
  <2> SUFFICES ASSUME crPass'.pc \in Applying PROVE crPass'.idx = 1
    OBVIOUS
  <2>1. CASE GetClass
    <3>1. crPass.req.cls \in Class
      BY <2>1 DEF GetClass, Typed, CRTyped
    <3> QED BY <1>1, <2>1, <3>1, PassFinds DEF Applying, ClassReported, Places
  <2>2. CASE PassGoesOn \/ crPass' = crPass
    BY <2>2 DEF PassGoesOn, OneRecommendation
  <2>3. CASE crPass' = NoPass \/ \E q \in Request : TakeRequest(q)
    BY <2>3, PassBegins DEF NoPass, Applying
  <2> QED BY <2>1, <2>2, <2>3, PassMoves
<1> QED BY <1>2, <1>3 DEF OneRecommendation, PendingIsReported, ClassReported

\* Whoever wrote the status last, the condition RecommendationPending is true just
\* when a recommendation waits (writeClassStatus, updateNamespaceClassStatus).
THEOREM PendingIsReportedCorrect == Spec => []PendingIsReported
<1>1. Init => OneRecommendation /\ PendingIsReported
  <2> SUFFICES ASSUME Init PROVE OneRecommendation /\ PendingIsReported
    OBVIOUS
  <2>1. ASSUME NEW c \in Class, class[c] # Absent
        PROVE  class[c].recs = <<>> /\ class[c].cond = "Unset"
    BY <2>1 DEF Init, StateInit, NewClass
  <2>2. ~Pending(<<>>) /\ DOMAIN <<>> = {}
    BY DEF Pending
  <2>3. crPass.pc \notin Applying
    BY DEF Init, CRInit, NoPass, Applying
  <2> QED BY <2>1, <2>2, <2>3 DEF OneRecommendation, PendingIsReported
<1> QED BY <1>1, AllReported, AlwaysTyped, AlwaysCopyChecked, PTL DEF Spec

-----------------------------------------------------------------------------
\* Answers.  A pass answers as the approval it read asks for, and by what it put
\* in the class; a request whose approval changes meanwhile is queued again.

AnswersFor(approved) == IF approved THEN {"Applied", "Rejected"} ELSE {"Pending"}

HasApplied(p) ==
    \/ p.pc \in Applying \ {"update"}
    \/ p.pc = "answer" /\ p.phase = "Applied"

PassAnswers ==
    crPass # NoPass =>
        /\ crPass.pc = "answer" => crPass.phase \in AnswersFor(crPass.req.approved)
        /\ crPass.pc # "answer" => crPass.req.approved
        /\ crPass.q \notin crQueue /\ request[crPass.q] # Absent =>
              request[crPass.q].approved = crPass.req.approved
        /\ HasApplied(crPass) =>
              applied[crPass.q] = [res |-> crPass.rec.res, url |-> crPass.req.url]

AtRest(q) == q \notin crQueue /\ (crPass # NoPass => crPass.q # q)

\* Only users and answers write requests, and what users write is queued.
LEMMA RequestKept ==
    ASSUME Typed, [Next]_vars, NEW q \in Request, q \notin crQueue', request'[q] # Absent
    PROVE  /\ request[q] # Absent
           /\ request'[q].approved = request[q].approved
           /\ q \notin crQueue \/ TakeRequest(q)
           /\ ~UpdateChangeRequestStatus => request'[q] = request[q]
<1>1. CASE UpdateChangeRequestStatus
  <2>1. q \notin crQueue
    BY <1>1 DEF UpdateChangeRequestStatus, RequeueRequest
  <2>2. request \in [Request -> RequestObject \cup {Absent}]
    BY DEF Typed, StateTyped, StateTypeOK
  <2>3. CASE request[crPass.q] = Absent
    BY <1>1, <2>1, <2>3 DEF UpdateChangeRequestStatus
  <2>4. CASE request[crPass.q] # Absent
    <3> DEFINE a == Audited(crPass, request[crPass.q].audit)
               v == [request[crPass.q] EXCEPT !.phase = crPass.phase, !.audit = a]
    <3>1. request' = [request EXCEPT ![crPass.q] = v]
      BY <1>1, <2>4, AnswerStored
    <3>2. crPass.q \in Request
      BY <1>1, PassIsRunning DEF UpdateChangeRequestStatus, Typed, Pass
    <3>3. v.approved = request[crPass.q].approved
      <4>1. request[crPass.q] \in RequestObject
        BY <2>2, <2>4, <3>2
      <4> HIDE DEF a
      <4> QED BY <4>1 DEF RequestObject
    <3> HIDE DEF v
    <3> QED BY <1>1, <2>1, <2>2, <2>4, <3>1, <3>3
  <2> QED BY <2>3, <2>4
<1>2. CASE Users
  BY <1>2 DEF Users, Tamper, Relabel, DeleteClass, EditClass, DeleteRequest, PutRequest,
     crVars, Typed, StateTyped, StateTypeOK
<1>3. CASE ChangeRequestNext /\ ~UpdateChangeRequestStatus
  BY <1>3 DEF ChangeRequestNext, ReconcileRequest, TakeRequest, GetClass, UpdateClass,
     ListNamespaces, CheckPreviousClass, RollBackNamespace, UpdateNamespaceClassStatus,
     RefreshNamespace, RequestFails, ClassStatusFails, RequeueRequest, served
<1>4. CASE WatcherNext /\ UNCHANGED crVars
  BY <1>4 DEF WatcherNext, ReconcileClasses, StartPoll, EndPoll, NextClass, DetectDrift,
     CannotRead, CompareDigest, ChooseBase, AskOpenAI, OpenAIFails, ClassFails, BaseFails,
     WriteClassStatus, served, crVars
<1>5. CASE NamespaceNext
  BY <1>5 DEF NamespaceNext, Repair, RepairHalfway, RecordSwitch, ReportClass,
     SwitchWindowEnds, crVars
<1>6. CASE Restart \/ UNCHANGED vars
  BY <1>6 DEF Restart, vars, served, crVars
<1> QED BY <1>1, <1>2, <1>3, <1>4, <1>5, <1>6 DEF Next

\* The history changes with the update alone, and with it the pass goes on or ends.
LEMMA AppliedKept ==
    ASSUME [Next]_vars, ~UpdateClass
    PROVE  UNCHANGED applied
<1>1. CASE ChangeRequestNext
  BY <1>1 DEF ChangeRequestNext, ReconcileRequest, TakeRequest, GetClass, ListNamespaces,
     CheckPreviousClass, RollBackNamespace, UpdateNamespaceClassStatus,
     UpdateChangeRequestStatus, RefreshNamespace, RequestFails, ClassStatusFails, served
<1>2. CASE WatcherNext
  BY <1>2 DEF WatcherNext, ReconcileClasses, StartPoll, EndPoll, NextClass, DetectDrift,
     CannotRead, CompareDigest, ChooseBase, AskOpenAI, OpenAIFails, ClassFails, BaseFails,
     WriteClassStatus, served
<1>3. CASE NamespaceNext \/ Users
  BY <1>3 DEF NamespaceNext, Repair, RepairHalfway, RecordSwitch, ReportClass,
     SwitchWindowEnds, Users, Tamper, Relabel, DeleteClass, EditClass, DeleteRequest,
     PutRequest
<1>4. CASE Restart \/ UNCHANGED vars
  BY <1>4 DEF Restart, vars, served
<1> QED BY <1>1, <1>2, <1>3, <1>4 DEF Next

LEMMA UpdateApplied ==
    ASSUME Typed, UpdateClass
    PROVE  /\ crPass \in Pass /\ crPass.q \in Request /\ crPass.pc = "update"
           /\ \/ /\ crPass' = NoPass /\ crQueue' = crQueue \cup {crPass.q}
                 /\ UNCHANGED applied
              \/ /\ crPass' \in Pass /\ crPass'.pc = "list" /\ UNCHANGED crQueue
                 /\ crPass'.q = crPass.q /\ crPass'.req = crPass.req
                 /\ crPass'.rec = crPass.rec
                 /\ applied' = [applied EXCEPT ![crPass.q] =
                                  [res |-> crPass.rec.res, url |-> crPass.req.url]]
<1>1. crPass \in Pass /\ crPass.q \in Request /\ crPass.pc = "update"
  BY PassIsRunning DEF Typed, UpdateClass, Pass
<1>2. CASE CopyCurrent(crPass.req.cls)
  <2>1. crPass' = [crPass EXCEPT !.pc = "list"] /\ UNCHANGED crQueue
    BY <1>2 DEF UpdateClass
  <2>2. /\ crPass' \in Pass /\ crPass'.pc = "list" /\ crPass'.q = crPass.q
        /\ crPass'.req = crPass.req /\ crPass'.rec = crPass.rec
    BY <1>1, <2>1 DEF Pass
  <2> QED BY <1>1, <1>2, <2>1, <2>2 DEF UpdateClass
<1>3. CASE ~CopyCurrent(crPass.req.cls)
  BY <1>1, <1>3 DEF UpdateClass, RequeueRequest
<1> QED BY <1>2, <1>3

\* Nothing but its update moves a pass on from there.
LEMMA OnlyUpdateGoesOn ==
    ASSUME Typed, [Next]_vars, PassGoesOn, crPass.pc = "update"
    PROVE  UpdateClass
<1>1. crPass' # crPass /\ crPass' # NoPass /\ crPass # NoPass
  BY DEF PassGoesOn, Applying, NoPass, Pass
<1>2. ~UNCHANGED crVars /\ ~UNCHANGED vars /\ ~NamespaceNext /\ ~Users /\ ~Restart
  BY <1>1 DEF NamespaceNext, Repair, RepairHalfway, RecordSwitch, ReportClass,
     SwitchWindowEnds, Users, Tamper, Relabel, DeleteClass, EditClass, DeleteRequest,
     PutRequest, Restart, vars, crVars
<1>3. ChangeRequestNext
  BY <1>2 DEF Next
<1> QED BY <1>1, <1>3 DEF ChangeRequestNext, ReconcileRequest, TakeRequest, GetClass,
        ListNamespaces, CheckPreviousClass, RollBackNamespace, UpdateNamespaceClassStatus,
        UpdateChangeRequestStatus, RefreshNamespace, RequestFails, ClassStatusFails,
        RequeueRequest

LEMMA IdleIsNoPass == NoPass \notin Pass
BY DEF NoPass, Pass

LEMMA PassStillAnswers ==
    ASSUME Typed, PassAnswers, [Next]_vars
    PROVE  PassAnswers'
<1> SUFFICES ASSUME crPass' # NoPass PROVE PassAnswers'
  BY DEF PassAnswers
<1>1. CASE \E q \in Request : TakeRequest(q)
  <2> PICK q \in Request : TakeRequest(q)
    BY <1>1
  <2>1. UNCHANGED request
    BY DEF TakeRequest, served
  <2>2. /\ crPass'.q = q /\ crPass'.req = request[q] /\ request[q].approved \in BOOLEAN
        /\ \/ /\ crPass'.pc = "answer"
              /\ crPass'.phase = IF request[q].approved THEN "Rejected" ELSE "Pending"
           \/ crPass'.pc = "getClass" /\ request[q].approved
    BY PassBegins DEF RequestObject
  <2> QED BY <2>1, <2>2 DEF PassAnswers, AnswersFor, HasApplied, Applying
<1>2. ASSUME crPass # NoPass, crPass'.q = crPass.q, crPass'.req = crPass.req,
             crPass.q \in Request,
             crPass'.q \notin crQueue', request'[crPass'.q] # Absent
      PROVE  request'[crPass'.q].approved = crPass'.req.approved
  <2>1. ~TakeRequest(crPass.q)
    BY <1>2 DEF TakeRequest
  <2>2. /\ request[crPass.q] # Absent /\ crPass.q \notin crQueue
        /\ request'[crPass.q].approved = request[crPass.q].approved
    BY <1>2, <2>1, RequestKept
  <2> QED BY <1>2, <2>2 DEF PassAnswers
<1>3. CASE crPass' = crPass
  <2>1. crPass \in Pass /\ crPass.q \in Request
    BY <1>3 DEF Typed, CRTyped, CRTypeOK, Pass
  <2>2. ~UpdateClass
    BY <1>3, UpdateApplied DEF NoPass
  <2>3. UNCHANGED applied
    BY <2>2, AppliedKept
  <2> QED BY <1>2, <1>3, <2>1, <2>3 DEF PassAnswers, HasApplied
<1>4. CASE GetClass
  <2>1. /\ crPass \in Pass /\ crPass.q \in Request /\ crPass # NoPass
        /\ crPass.pc = "getClass"
    <3>1. crPass \in Pass /\ crPass.pc = "getClass"
      BY <1>4, PassFinds DEF GetClass
    <3> QED BY <3>1, IdleIsNoPass DEF Pass
  <2>2. /\ crPass'.q = crPass.q /\ crPass'.req = crPass.req
        /\ crPass'.pc = "update" \/ (crPass'.pc = "answer" /\ crPass'.phase = "Rejected")
    BY <1>4, PassFinds
  <2> QED BY <1>2, <2>1, <2>2 DEF PassAnswers, AnswersFor, HasApplied, Applying
<1>5. CASE PassGoesOn
  <2>1. /\ crPass.q \in Request /\ crPass # NoPass /\ crPass.pc # "answer"
        /\ crPass'.q = crPass.q /\ crPass'.req = crPass.req /\ crPass'.rec = crPass.rec
    BY <1>5 DEF PassGoesOn, Applying, Pass, NoPass
  <2>2. applied'[crPass'.q] = [res |-> crPass'.rec.res, url |-> crPass'.req.url]
    <3>1. CASE crPass.pc = "update"
      <4>1. applied' = [applied EXCEPT ![crPass.q] =
                          [res |-> crPass.rec.res, url |-> crPass.req.url]]
        BY <1>5, <3>1, OnlyUpdateGoesOn, UpdateApplied
      <4>2. applied \in [Request -> Audit]
        BY DEF Typed, StateTyped, StateTypeOK
      <4> QED BY <2>1, <4>1, <4>2
    <3>2. CASE crPass.pc # "update"
      <4>1. ~UpdateClass
        BY <3>2, UpdateApplied
      <4>2. UNCHANGED applied
        BY <4>1, AppliedKept
      <4>3. HasApplied(crPass)
        <5>1. crPass.pc \in Applying
          BY <1>5 DEF PassGoesOn
        <5> QED BY <3>2, <5>1 DEF HasApplied
      <4> QED BY <2>1, <4>2, <4>3 DEF PassAnswers
    <3> QED BY <3>1, <3>2
  <2>3. crPass'.pc = "answer" => crPass'.phase = "Applied"
    BY <1>5 DEF PassGoesOn, Applying
  <2> QED BY <1>2, <2>1, <2>2, <2>3 DEF PassAnswers, AnswersFor
<1> QED BY <1>1, <1>3, <1>4, <1>5, PassMoves

\* How a request comes to rest: it was, or is not there, or has just been answered.
LEMMA ComesToRest ==
    ASSUME Typed, [Next]_vars, NEW q \in Request, request'[q] # Absent,
           q \notin crQueue', crPass' # NoPass => crPass'.q # q
    PROVE  \/ AtRest(q) /\ request'[q] = request[q] /\ applied'[q] = applied[q]
           \/ UpdateChangeRequestStatus /\ crPass.q = q /\ request[q] # Absent
<1>1. request[q] # Absent /\ (q \notin crQueue \/ TakeRequest(q))
  BY RequestKept
<1>2. ~TakeRequest(q)
  BY <1>1, PassBegins DEF Pass, NoPass
<1>3. CASE UpdateChangeRequestStatus
  <2>1. crPass \in Pass /\ crPass' = NoPass /\ crPass.q \in Request
    BY <1>3, PassIsRunning DEF UpdateChangeRequestStatus, RequeueRequest, Typed, Pass
  <2>2. crPass.q # q => request'[q] = request[q]
    BY <1>3, <2>1 DEF UpdateChangeRequestStatus, Typed, StateTyped, StateTypeOK
  <2>3. UNCHANGED applied
    BY <1>3 DEF UpdateChangeRequestStatus
  <2> QED BY <1>1, <1>2, <1>3, <2>2, <2>3 DEF AtRest
<1>4. CASE ~UpdateChangeRequestStatus
  <2>1. request'[q] = request[q] /\ q \notin crQueue
    BY <1>1, <1>2, <1>4, RequestKept
  <2>2. crPass # NoPass => crPass.q # q
    <3>1. CASE crPass' = NoPass
      <4> SUFFICES ASSUME crPass # NoPass, crPass.q = q PROVE FALSE
        OBVIOUS
      <4>1. crPass' # crPass
        BY <3>1
      <4>2. ~UNCHANGED crVars /\ ~UNCHANGED vars /\ ~NamespaceNext /\ ~Users
        BY <4>1 DEF NamespaceNext, Repair, RepairHalfway, RecordSwitch, ReportClass,
           SwitchWindowEnds, Users, Tamper, Relabel, DeleteClass, EditClass,
           DeleteRequest, PutRequest, vars, crVars
      <4>3. ~Restart
        BY <1>1 DEF Restart, served
      <4>4. ChangeRequestNext
        BY <4>2, <4>3 DEF Next
      <4>5. ~RequeueRequest
        BY DEF RequeueRequest
      <4>6. crPass \in Pass
        BY DEF Typed, CRTyped, CRTypeOK
      <4>7. /\ ~GetClass /\ ~ListNamespaces /\ ~CheckPreviousClass
            /\ ~UpdateNamespaceClassStatus /\ ~ClassStatusFails
        <5>1. crPass'.pc = "idle"
          BY <3>1 DEF NoPass
        <5>2. GetClass => crPass'.pc # "idle"
          BY PassFinds
        <5>3. ListNamespaces \/ CheckPreviousClass => crPass'.pc # "idle"
          BY <4>6 DEF Pass, ListNamespaces, CheckPreviousClass
        <5>4. UpdateNamespaceClassStatus \/ ClassStatusFails => crPass'.pc # "idle"
          BY <4>6, AnswerType DEF UpdateNamespaceClassStatus, ClassStatusFails
        <5> QED BY <5>1, <5>2, <5>3, <5>4
      <4>8. ~UpdateClass /\ ~RollBackNamespace
        BY <3>1, <4>5, <4>6 DEF UpdateClass, RollBackNamespace, NoPass, Pass
      <4> QED BY <1>4, <4>1, <4>4, <4>5, <4>7, <4>8
          DEF ChangeRequestNext, ReconcileRequest, TakeRequest, RefreshNamespace,
              RequestFails
    <3>2. CASE crPass' # NoPass
      <4>1. CASE \E p \in Request : TakeRequest(p)
        BY <4>1 DEF TakeRequest
      <4>2. CASE GetClass \/ PassGoesOn \/ crPass' = crPass
        BY <3>2, <4>2, PassFinds DEF PassGoesOn
      <4> QED BY <3>2, <4>1, <4>2, PassMoves
    <3> QED BY <3>1, <3>2
  <2>3. applied'[q] = applied[q]
    <3>1. CASE UpdateClass
      <4>1. crPass \in Pass /\ crPass # NoPass
        BY <3>1, UpdateApplied DEF Pass, NoPass
      <4>2. crPass.q # q
        BY <2>2, <4>1
      <4> QED BY <3>1, <4>2, UpdateApplied DEF Typed, StateTyped, StateTypeOK
    <3>2. CASE ~UpdateClass
      BY <3>2, AppliedKept
    <3> QED BY <3>1, <3>2
  <2> QED BY <2>1, <2>2, <2>3 DEF AtRest
<1> QED BY <1>3, <1>4

LEMMA AlwaysPassAnswers == Spec => []PassAnswers
<1>1. Init => PassAnswers
  BY DEF Init, CRInit, PassAnswers
<1> QED BY <1>1, PassStillAnswers, AlwaysTyped, PTL DEF Spec

\* What the answer makes of the request, when it is the last word on it.
LEMMA AnswerSettles ==
    ASSUME Typed, PassAnswers, UpdateChangeRequestStatus, NEW q \in Request,
           crPass.q = q, request[q] # Absent, q \notin crQueue'
    PROVE  /\ request'[q].approved = crPass.req.approved
           /\ request'[q].phase = crPass.phase
           /\ request'[q].audit = Audited(crPass, request[q].audit)
           /\ crPass.phase \in AnswersFor(crPass.req.approved)
           /\ crPass.phase = "Applied" =>
                 applied'[q] = [res |-> crPass.rec.res, url |-> crPass.req.url]
<1> DEFINE a == Audited(crPass, request[q].audit)
           v == [request[q] EXCEPT !.phase = crPass.phase, !.audit = a]
<1>1. request \in [Request -> RequestObject \cup {Absent}]
  BY DEF Typed, StateTyped, StateTypeOK
<1>2. request' = [request EXCEPT ![q] = v]
  BY AnswerStored
<1>3. crPass # NoPass /\ crPass.pc = "answer" /\ q \notin crQueue /\ UNCHANGED applied
  BY DEF UpdateChangeRequestStatus, RequeueRequest, NoPass
<1>4. /\ v.phase = crPass.phase /\ v.audit = a
      /\ v.approved = request[q].approved
  <2> HIDE DEF a
  <2> QED BY <1>1 DEF RequestObject
<1>5. request[q].approved = crPass.req.approved
  BY <1>3 DEF PassAnswers
<1> HIDE DEF v
<1>6. request'[q] = v
  BY <1>1, <1>2
<1> QED BY <1>3, <1>4, <1>5, <1>6 DEF PassAnswers, HasApplied

\* No wakeup is lost: with conflicts, failed calls, restarts and users who edit or
\* delete a request at any moment, one that is neither queued nor in a pass has been
\* answered as its approval stands (Reconcile, updateChangeRequestStatus).
THEOREM SettledAnsweredCorrect == Spec => []SettledAnswered
<1>1. Init => SettledAnswered
  BY DEF Init, StateInit, SettledAnswered
<1>2. SettledAnswered /\ Typed /\ PassAnswers /\ [Next]_vars => SettledAnswered'
  <2> SUFFICES ASSUME SettledAnswered, Typed, PassAnswers, [Next]_vars,
                      NEW q \in Request, request'[q] # Absent, q \notin crQueue',
                      crPass' # NoPass => crPass'.q # q
               PROVE  request'[q].phase \in AnswersFor(request'[q].approved)
    BY DEF SettledAnswered, AnswersFor
  <2>1. CASE AtRest(q) /\ request'[q] = request[q]
    BY <2>1 DEF SettledAnswered, AtRest, AnswersFor
  <2>2. CASE UpdateChangeRequestStatus /\ crPass.q = q /\ request[q] # Absent
    BY <2>2, AnswerSettles
  <2> QED BY <2>1, <2>2, ComesToRest
<1> QED BY <1>1, <1>2, AlwaysTyped, AlwaysPassAnswers, PTL DEF Spec

\* The audit fields of a request at rest that says Applied tell what was last put
\* in the class for it, and on whose review (updateChangeRequestStatus).
THEOREM AuditTruthfulCorrect == Spec => []AuditTruthful
<1>1. Init => AuditTruthful
  BY DEF Init, StateInit, AuditTruthful
<1>2. AuditTruthful /\ Typed /\ PassAnswers /\ [Next]_vars => AuditTruthful'
  <2> SUFFICES ASSUME AuditTruthful, Typed, PassAnswers, [Next]_vars,
                      NEW q \in Request, request'[q] # Absent,
                      request'[q].phase = "Applied", q \notin crQueue',
                      crPass' # NoPass => crPass'.q # q
               PROVE  /\ request'[q].audit.res = applied'[q].res
                      /\ applied'[q].url # "none" =>
                            request'[q].audit.url = applied'[q].url
    BY DEF AuditTruthful
  <2>1. CASE AtRest(q) /\ request'[q] = request[q] /\ applied'[q] = applied[q]
    BY <2>1 DEF AuditTruthful, AtRest
  <2>2. CASE UpdateChangeRequestStatus /\ crPass.q = q /\ request[q] # Absent
    <3>1. /\ crPass.phase = "Applied"
          /\ request'[q].audit = Audited(crPass, request[q].audit)
          /\ applied'[q] = [res |-> crPass.rec.res, url |-> crPass.req.url]
      BY <2>2, AnswerSettles
    <3> QED BY <3>1 DEF Audited
  <2> QED BY <2>1, <2>2, ComesToRest
<1> QED BY <1>1, <1>2, AlwaysTyped, AlwaysPassAnswers, PTL DEF Spec

-----------------------------------------------------------------------------
\* Rollbacks.  The cache and a pass hold versions of Namespaces that the server had,
\* so a copy with the server's version number is what the server holds.

Held(n, x) == x.rv <= nsObj[n].rv /\ (x.rv = nsObj[n].rv => x = nsObj[n])

GoesBack(x) == x.prev \notin {NoClass, x.label}

Items(p) == IF p = NoPass THEN {}
            ELSE p.todo \cup (IF p.pc = "write" THEN {p.item} ELSE {})

CopiesHeld ==
    /\ \A n \in Namespace : Held(n, nsCache[n])
    /\ \A x \in Items(crPass) : Held(x.n, x.ns) /\ GoesBack(x.ns)

\* What changes a Namespace.
NamespaceChange ==
    \/ \E n \in Namespace, l \in MaybeClass : Relabel(n, l)
    \/ \E n \in Namespace : RecordSwitch(n)
    \/ RollBackNamespace /\ ItemCurrent(crPass.item)

LEMMA NamespacesChange ==
    ASSUME Typed, [Next]_vars
    PROVE  UNCHANGED nsObj \/ NamespaceChange
<1>1. CASE ChangeRequestNext /\ ~RollBackNamespace
  BY <1>1 DEF ChangeRequestNext, ReconcileRequest, TakeRequest, GetClass, UpdateClass,
     ListNamespaces, CheckPreviousClass, UpdateNamespaceClassStatus,
     UpdateChangeRequestStatus, RefreshNamespace, RequestFails, ClassStatusFails, served
<1>2. CASE RollBackNamespace
  BY <1>2 DEF RollBackNamespace, NamespaceChange
<1>3. CASE WatcherNext
  BY <1>3 DEF WatcherNext, ReconcileClasses, StartPoll, EndPoll, NextClass, DetectDrift,
     CannotRead, CompareDigest, ChooseBase, AskOpenAI, OpenAIFails, ClassFails, BaseFails,
     WriteClassStatus, served
<1>4. CASE NamespaceNext
  BY <1>4 DEF NamespaceNext, Repair, RepairHalfway, ReportClass, SwitchWindowEnds,
     NamespaceChange
<1>5. CASE Users
  BY <1>5 DEF Users, Tamper, DeleteClass, EditClass, DeleteRequest, PutRequest,
     NamespaceChange
<1>6. CASE Restart \/ UNCHANGED vars
  BY <1>6 DEF Restart, vars, served
<1> QED BY <1>1, <1>2, <1>3, <1>4, <1>5, <1>6 DEF Next

\* A rollback writes the copy, which is the server's, and goes back to its prev.
LEMMA RollBackWrites ==
    ASSUME Typed, CopiesHeld, RollBackNamespace, ItemCurrent(crPass.item)
    PROVE  \E n \in Namespace :
              /\ GoesBack(nsObj[n])
              /\ WriteNamespace(n, [nsObj[n] EXCEPT !.label = nsObj[n].prev,
                                                    !.last = nsObj[n].prev,
                                                    !.prev = NoClass])
<1> DEFINE x == crPass.item
<1>1. crPass \in Pass /\ x \in Item /\ crPass.pc = "write" /\ crPass # NoPass
  BY PassIsRunning DEF Typed, CRTyped, RollBackNamespace, NoPass
<1>2. x.n \in Namespace /\ x \in Items(crPass)
  BY <1>1 DEF Item, Items
<1>3. x.ns = nsObj[x.n] /\ GoesBack(x.ns)
  BY <1>2 DEF CopiesHeld, Held, ItemCurrent
<1>4. WriteNamespace(x.n, [x.ns EXCEPT !.label = x.ns.prev, !.last = x.ns.prev,
                                       !.prev = NoClass])
  <2>1. x.ns.rv = nsObj[x.n].rv
    BY DEF ItemCurrent
  <2> QED BY <2>1 DEF RollBackNamespace, ItemCurrent
<1> HIDE DEF x
<1> QED BY <1>2, <1>3, <1>4

\* A Namespace stays, or its next version is one above.
LEMMA VersionsGrow ==
    ASSUME Typed, CopiesHeld, [Next]_vars, NEW n \in Namespace
    PROVE  nsObj'[n] = nsObj[n] \/ nsObj'[n].rv = nsObj[n].rv + 1
<1>1. ASSUME NEW m \in Namespace, NEW y \in NamespaceObject, WriteNamespace(m, y)
      PROVE  nsObj'[n] = nsObj[n] \/ nsObj'[n].rv = nsObj[n].rv + 1
  <2>1. nsObj \in [Namespace -> NamespaceObject]
    BY DEF Typed, StateTyped, StateTypeOK
  <2>2. nsObj' = [nsObj EXCEPT ![m] = [y EXCEPT !.rv = nsObj[m].rv + 1]]
    BY <1>1 DEF WriteNamespace
  <2> QED BY <2>1, <2>2 DEF NamespaceObject
<1>2. \A m \in Namespace : nsObj[m] \in NamespaceObject
  BY DEF Typed, StateTyped, StateTypeOK
<1>3. ASSUME NEW m \in Namespace, NEW l \in MaybeClass, Relabel(m, l)
      PROVE  \E y \in NamespaceObject : WriteNamespace(m, y)
  <2>1. [nsObj[m] EXCEPT !.label = l] \in NamespaceObject
    BY <1>2 DEF NamespaceObject
  <2> QED BY <1>3, <2>1 DEF Relabel
<1>4. ASSUME NEW m \in Namespace, RecordSwitch(m)
      PROVE  \E y \in NamespaceObject : WriteNamespace(m, y)
  <2> DEFINE o == nsObj[m]
             y == [o EXCEPT !.last = o.label,
                            !.prev = IF o.last = NoClass THEN o.prev ELSE o.last]
  <2>1. y \in NamespaceObject
    BY <1>2 DEF NamespaceObject
  <2>2. WriteNamespace(m, y)
    BY <1>4 DEF RecordSwitch
  <2> HIDE DEF y
  <2> QED BY <2>1, <2>2
<1>5. CASE RollBackNamespace /\ ItemCurrent(crPass.item)
  <2> PICK m \in Namespace :
         WriteNamespace(m, [nsObj[m] EXCEPT !.label = nsObj[m].prev,
                                            !.last = nsObj[m].prev, !.prev = NoClass])
    BY <1>5, RollBackWrites
  <2>1. [nsObj[m] EXCEPT !.label = nsObj[m].prev, !.last = nsObj[m].prev,
                         !.prev = NoClass] \in NamespaceObject
    BY <1>2 DEF NamespaceObject, MaybeClass
  <2> QED BY <1>1, <2>1
<1> QED BY <1>1, <1>3, <1>4, <1>5, NamespacesChange DEF NamespaceChange

LEMMA HeldStays ==
    ASSUME Typed, CopiesHeld, [Next]_vars, NEW n \in Namespace, NEW x \in NamespaceObject,
           Held(n, x)
    PROVE  Held(n, x)'
<1>1. nsObj[n].rv \in Nat /\ x.rv \in Nat
  BY DEF Typed, StateTyped, StateTypeOK, NamespaceObject
<1> QED BY <1>1, VersionsGrow DEF Held

\* The cache keeps a copy or takes the server's.
LEMMA CacheFollows ==
    ASSUME Typed, [Next]_vars, NEW n \in Namespace
    PROVE  nsCache'[n] = nsCache[n] \/ (UNCHANGED nsObj /\ nsCache'[n] = nsObj[n])
<1>1. CASE \E m \in Namespace : RefreshNamespace(m)
  BY <1>1 DEF RefreshNamespace, served, Typed, CRTyped, CRTypeOK
<1>2. CASE ChangeRequestNext /\ ~(\E m \in Namespace : RefreshNamespace(m))
  BY <1>2 DEF ChangeRequestNext, ReconcileRequest, TakeRequest, GetClass, UpdateClass,
     ListNamespaces, CheckPreviousClass, RollBackNamespace, UpdateNamespaceClassStatus,
     UpdateChangeRequestStatus, RequestFails, ClassStatusFails
<1>3. CASE NamespaceNext
  BY <1>3 DEF NamespaceNext, Repair, RepairHalfway, RecordSwitch, ReportClass,
     SwitchWindowEnds, crVars
<1>4. CASE Users
  BY <1>4 DEF Users, Tamper, Relabel, DeleteClass, EditClass, DeleteRequest, PutRequest,
     crVars
<1>5. CASE Restart \/ UNCHANGED vars \/ UNCHANGED crVars
  BY <1>5 DEF Restart, vars, served, crVars
<1> QED BY <1>1, <1>2, <1>3, <1>4, <1>5 DEF Next

\* The Namespaces a pass will roll back are those its list found in the cache.
LEMMA ItemsFollow ==
    ASSUME Typed, [Next]_vars, NEW x \in Items(crPass')
    PROVE  \/ x \in Items(crPass)
           \/ /\ UNCHANGED nsObj
              /\ x.n \in Namespace /\ x.ns = nsCache[x.n] /\ GoesBack(x.ns)
<1> DEFINE Goal == \/ x \in Items(crPass)
                   \/ /\ UNCHANGED nsObj
                      /\ x.n \in Namespace /\ x.ns = nsCache[x.n] /\ GoesBack(x.ns)
<1>1. crPass.pc # "idle" => crPass \in Pass /\ crPass # NoPass
  BY PassIsRunning DEF Typed, NoPass
<1>2. crPass' # NoPass
  BY DEF Items
<1>3. CASE crPass' = crPass
  BY <1>3
<1>4. CASE \E q \in Request : TakeRequest(q)
  <2> PICK q \in Request : TakeRequest(q)
    BY <1>4
  <2>1. StartPass(q).todo = {} /\ StartPass(q).pc = "getClass"
    BY DEF StartPass
  <2>2. \A phase \in {"Pending", "Rejected"} :
           request[q] # Absent => /\ Answer(StartPass(q), phase).todo = {}
                                  /\ Answer(StartPass(q), phase).pc = "answer"
    BY <2>1, StartPassType DEF Answer, Pass, Typed
  <2>3. crPass'.todo = {} /\ crPass'.pc # "write"
    BY <1>2, <2>1, <2>2 DEF TakeRequest
  <2> QED BY <2>3 DEF Items
<1>5. CASE GetClass \/ UpdateClass \/ UpdateNamespaceClassStatus \/ ClassStatusFails
           \/ RollBackNamespace
  <2>1. crPass \in Pass /\ crPass # NoPass
    BY <1>1, <1>5 DEF GetClass, UpdateClass, UpdateNamespaceClassStatus, ClassStatusFails,
       RollBackNamespace
  <2>2. crPass'.todo = crPass.todo /\ crPass'.pc # "write"
    BY <1>2, <1>5, <2>1 DEF GetClass, UpdateClass, UpdateNamespaceClassStatus,
       ClassStatusFails, RollBackNamespace, RequeueRequest, Answer, Pass
  <2> QED BY <2>1, <2>2 DEF Items
<1>6. CASE ListNamespaces
  <2> DEFINE c == crPass.req.cls
             T == {[n |-> n, ns |-> nsCache[n]] :
                      n \in {m \in Namespace : /\ nsCache[m].label = c
                                               /\ nsCache[m].prev \notin {NoClass, c}}}
  <2>1. crPass \in Pass /\ UNCHANGED nsObj
    BY <1>1, <1>6 DEF ListNamespaces, served
  <2>2. crPass'.todo = T /\ crPass'.pc = "rollback"
    <3>1. crPass' = [crPass EXCEPT !.pc = "rollback", !.todo = T]
      BY <1>6 DEF ListNamespaces
    <3> HIDE DEF T
    <3> QED BY <2>1, <3>1 DEF Pass
  <2>3. x \in T
    BY <1>2, <2>2 DEF Items
  <2> QED BY <2>1, <2>3 DEF GoesBack
<1>7. CASE CheckPreviousClass
  <2>1. crPass \in Pass /\ crPass # NoPass
    BY <1>1, <1>7 DEF CheckPreviousClass
  <2>2. PICK y \in crPass.todo :
           \/ crPass' = [crPass EXCEPT !.todo = @ \ {y}]
           \/ crPass' = [crPass EXCEPT !.todo = @ \ {y}, !.item = y, !.pc = "write"]
    BY <1>7 DEF CheckPreviousClass
  <2>3. crPass'.todo \subseteq crPass.todo
        /\ (crPass'.pc = "write" => crPass'.item \in crPass.todo)
    <3>1. CASE crPass' = [crPass EXCEPT !.todo = @ \ {y}]
      BY <1>7, <2>1, <3>1 DEF Pass, CheckPreviousClass
    <3>2. CASE crPass' = [crPass EXCEPT !.todo = @ \ {y}, !.item = y, !.pc = "write"]
      BY <2>1, <3>2 DEF Pass
    <3> QED BY <2>2, <3>1, <3>2
  <2> QED BY <2>1, <2>3 DEF Items
<1>8. CASE UpdateChangeRequestStatus \/ RequestFails
  BY <1>2, <1>8 DEF UpdateChangeRequestStatus, RequestFails, RequeueRequest
<1>9. CASE \E n \in Namespace : RefreshNamespace(n)
  BY <1>3, <1>9 DEF RefreshNamespace
<1>10. CASE NamespaceNext \/ UNCHANGED crVars
  BY <1>3, <1>10 DEF NamespaceNext, Repair, RepairHalfway, RecordSwitch, ReportClass,
     SwitchWindowEnds, crVars
<1>11. CASE Users
  BY <1>3, <1>11 DEF Users, Tamper, Relabel, DeleteClass, EditClass, DeleteRequest,
     PutRequest, crVars
<1>12. CASE Restart \/ UNCHANGED vars
  BY <1>2, <1>3, <1>12 DEF Restart, vars, crVars
<1> QED BY <1>4, <1>5, <1>6, <1>7, <1>8, <1>9, <1>10, <1>11, <1>12
    DEF Next, ChangeRequestNext, ReconcileRequest

LEMMA ItemType ==
    ASSUME Typed, NEW x \in Items(crPass)
    PROVE  x.n \in Namespace /\ x.ns \in NamespaceObject
<1>1. crPass \in Pass
  BY DEF Typed, CRTyped, CRTypeOK, Items
<1>2. x \in Item
  BY <1>1 DEF Items, Pass, Typed, CRTyped
<1> QED BY <1>2 DEF Item

LEMMA AlwaysCopiesHeld == Spec => []CopiesHeld
<1>1. Init => CopiesHeld
  <2> SUFFICES ASSUME Init PROVE CopiesHeld
    OBVIOUS
  <2>1. \A n \in Namespace : nsObj[n].rv \in Nat
    BY TypedInit DEF Typed, StateTyped, StateTypeOK, NamespaceObject
  <2> QED BY <2>1 DEF Init, CRInit, CopiesHeld, Held, Items
<1>2. Typed /\ CopiesHeld /\ [Next]_vars => CopiesHeld'
  <2> SUFFICES ASSUME Typed, CopiesHeld, [Next]_vars PROVE CopiesHeld'
    OBVIOUS
  <2>1. ASSUME NEW n \in Namespace
        PROVE  /\ nsObj[n].rv \in Nat /\ nsCache[n] \in NamespaceObject
               /\ Held(n, nsCache[n])
    BY DEF Typed, StateTyped, StateTypeOK, CRTyped, CRTypeOK, NamespaceObject, CopiesHeld
  <2>2. ASSUME NEW n \in Namespace PROVE Held(n, nsCache[n])'
    <3>1. CASE nsCache'[n] = nsCache[n]
      BY <2>1, <3>1, HeldStays DEF Held
    <3>2. CASE UNCHANGED nsObj /\ nsCache'[n] = nsObj[n]
      BY <2>1, <3>2 DEF Held
    <3> QED BY <3>1, <3>2, CacheFollows
  <2>3. ASSUME NEW x \in Items(crPass') PROVE Held(x.n, x.ns)' /\ GoesBack(x.ns)
    <3>1. CASE x \in Items(crPass)
      BY <3>1, HeldStays, ItemType DEF CopiesHeld
    <3>2. CASE UNCHANGED nsObj /\ x.n \in Namespace /\ x.ns = nsCache[x.n]
               /\ GoesBack(x.ns)
      BY <2>1, <3>2 DEF Held
    <3> QED BY <3>1, <3>2, ItemsFollow
  <2> QED BY <2>2, <2>3 DEF CopiesHeld, Held, GoesBack
<1> QED BY <1>1, <1>2, AlwaysTyped, PTL DEF Spec

\* What a write to one Namespace does to its entries, and that it does no more.
Entries(n, l, a, p) ==
    \A m \in Namespace : /\ nsObj'[m].label = IF m = n THEN l ELSE nsObj[m].label
                         /\ nsObj'[m].last = IF m = n THEN a ELSE nsObj[m].last
                         /\ nsObj'[m].prev = IF m = n THEN p ELSE nsObj[m].prev

LEMMA EntriesWritten ==
    ASSUME Typed, NEW n \in Namespace, NEW y \in NamespaceObject, WriteNamespace(n, y)
    PROVE  Entries(n, y.label, y.last, y.prev)
<1>1. nsObj \in [Namespace -> NamespaceObject]
  BY DEF Typed, StateTyped, StateTypeOK
<1> DEFINE z == [y EXCEPT !.rv = nsObj[n].rv + 1]
<1>2. z.label = y.label /\ z.last = y.last /\ z.prev = y.prev
  BY DEF NamespaceObject
<1>3. nsObj' = [nsObj EXCEPT ![n] = z]
  BY DEF WriteNamespace
<1> HIDE DEF z
<1>4. \A m \in Namespace : nsObj'[m] = IF m = n THEN z ELSE nsObj[m]
  BY <1>1, <1>3
<1> QED BY <1>2, <1>4 DEF Entries

\* The approval flow implements SwitchRecord: a rollback made from a cached copy
\* undoes the last recorded switch of the label the Namespace has now, or conflicts
\* (rollbackNamespacesForSwitch).
THEOREM RollbacksRecordedCorrect == Spec => SwitchesRecorded
<1>1. Init => Log!Init
  <2> SUFFICES ASSUME Init PROVE Log!Init
    OBVIOUS
  <2> PICK l \in [Namespace -> MaybeClass], p \in [Namespace -> MaybeClass] :
         /\ \A n \in Namespace : p[n] = NoClass \/ l[n] \notin {NoClass, p[n]}
         /\ nsObj = [n \in Namespace |->
                       [label |-> l[n], last |-> l[n], prev |-> p[n], rv |-> 1]]
    BY DEF Init, StateInit
  <2> QED BY DEF Log!Init, Log!MaybeClass, MaybeClass
<1>2. Typed /\ CopiesHeld /\ [Next]_vars => [Log!Next]_(Log!vars)
  <2> SUFFICES ASSUME Typed, CopiesHeld, [Next]_vars
               PROVE  Log!Next \/ UNCHANGED Log!vars
    OBVIOUS
  <2>1. \A n \in Namespace : nsObj[n] \in NamespaceObject
    BY DEF Typed, StateTyped, StateTypeOK
  <2>2. CASE UNCHANGED nsObj
    BY <2>2 DEF Log!vars
  <2>3. ASSUME NEW n \in Namespace, NEW l \in MaybeClass, Relabel(n, l)
        PROVE  Log!Next
    <3> DEFINE y == [nsObj[n] EXCEPT !.label = l]
    <3>1. y \in NamespaceObject /\ y.label = l /\ y.last = nsObj[n].last
          /\ y.prev = nsObj[n].prev
      BY <2>1 DEF NamespaceObject
    <3>2. WriteNamespace(n, y)
      BY <2>3 DEF Relabel
    <3> HIDE DEF y
    <3>3. Entries(n, l, nsObj[n].last, nsObj[n].prev)
      BY <3>1, <3>2, EntriesWritten DEF Entries
    <3>4. Log!Relabel(n, l)
      BY <3>3 DEF Entries, Log!Relabel, Log!Write, Log!Put
    <3> QED BY <3>4 DEF Log!Next, Log!MaybeClass, MaybeClass
  <2>4. ASSUME NEW n \in Namespace, RecordSwitch(n)
        PROVE  Log!Next
    <3> DEFINE o == nsObj[n]
               p == IF o.last = NoClass THEN o.prev ELSE o.last
               y == [o EXCEPT !.last = o.label, !.prev = p]
    <3>1. y \in NamespaceObject /\ y.label = o.label /\ y.last = o.label /\ y.prev = p
      BY <2>1 DEF NamespaceObject
    <3>2. WriteNamespace(n, y) /\ o.last # o.label
      BY <2>4 DEF RecordSwitch
    <3> HIDE DEF y
    <3> HIDE DEF p
    <3>3. Entries(n, o.label, o.label, p)
      BY <3>1, <3>2, EntriesWritten DEF Entries
    <3> USE DEF p
    <3>4. Log!Record(n)
      BY <3>2, <3>3 DEF Entries, Log!Record, Log!Write, Log!Put
    <3> QED BY <3>4 DEF Log!Next
  <2>5. CASE RollBackNamespace /\ ItemCurrent(crPass.item)
    <3> PICK n \in Namespace :
           /\ GoesBack(nsObj[n])
           /\ WriteNamespace(n, [nsObj[n] EXCEPT !.label = nsObj[n].prev,
                                                 !.last = nsObj[n].prev,
                                                 !.prev = NoClass])
      BY <2>5, RollBackWrites
    <3> DEFINE o == nsObj[n]
               y == [o EXCEPT !.label = o.prev, !.last = o.prev, !.prev = NoClass]
    <3>1. y \in NamespaceObject /\ y.label = o.prev /\ y.last = o.prev
          /\ y.prev = NoClass
      BY <2>1 DEF NamespaceObject, MaybeClass
    <3>2. WriteNamespace(n, y)
      OBVIOUS
    <3> HIDE DEF y
    <3>3. Entries(n, o.prev, o.prev, NoClass)
      BY <3>1, <3>2, EntriesWritten DEF Entries
    <3>4. Log!RollBack(n)
      BY <3>3 DEF Entries, Log!RollBack, Log!Write, Log!Put, GoesBack
    <3> QED BY <3>4 DEF Log!Next
  <2> QED BY <2>2, <2>3, <2>4, <2>5, NamespacesChange DEF NamespaceChange
<1> QED BY <1>1, <1>2, AlwaysTyped, AlwaysCopiesHeld, PTL
        DEF Spec, SwitchesRecorded, Log!Spec
=============================================================================
