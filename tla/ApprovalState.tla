--------------------------- MODULE ApprovalState ---------------------------
(***************************************************************************)
(* What the change request reconciler and the AI watcher share through the  *)
(* API server: classes with their status, change requests, and the          *)
(* Namespaces that follow the classes.                                       *)
(***************************************************************************)
EXTENDS Naturals, Sequences, FiniteSets

CONSTANTS
    Namespace,      \* names of Namespaces
    Class,          \* names of NamespaceClasses
    NoClass,        \* the empty string: no label, or no annotation
    Request,        \* names of NamespaceClassChangeRequests
    Resources,      \* what spec.resources and proposedResources may hold
    Empty,          \* no resources
    HighRisk,       \* resources with a template of a high-risk kind
    Tampered,       \* objects that are those of no class
    Absent,         \* no such class or request
    ClassSpecs,     \* what users give classes: spec.resources and annotations
    RequestSpecs,   \* what users decide in change requests
    Faults,         \* the faults that may happen
    MaxEdits,       \* bound on what users do
    MaxFaults,      \* bound on failed calls and restarts
    MaxRecs         \* bound on recommendations

MaybeClass == Class \cup {NoClass}

ASSUME ApprovalAssumption ==
    /\ NoClass \notin Class
    /\ Empty \in Resources
    /\ HighRisk \subseteq Resources \ {Empty}
    /\ Tampered \notin Resources
    /\ ClassSpecs \subseteq
          [res : Resources, allow : BOOLEAN, gate : BOOLEAN, suggest : BOOLEAN]
    /\ RequestSpecs \subseteq
          [approved : BOOLEAN, high : BOOLEAN, url : {"none", "bad", "ok"}]
    /\ Faults \subseteq {"api", "openai", "restart", "busy"}
    /\ MaxEdits \in Nat /\ MaxFaults \in Nat /\ MaxRecs \in Nat

VARIABLES
    class,      \* NamespaceClasses: spec, annotations and status
    seen,       \* classes unchanged since a change request pass read them
    request,    \* NamespaceClassChangeRequests: spec and status.phase
    nsObj,      \* Namespaces: label and class annotations
    recent,     \* Namespaces whose switched-at is within switchDriftWindow
    actual,     \* what the managed objects and the inventory amount to
    issued,     \* recommendations written so far
    applied,    \* history: what was put in a class last for each request
    edits, faults

served == <<class, seen, request, nsObj, recent, actual, issued, applied>>
bounds == <<edits, faults>>

\* status.recommendations[i]: its id, whether it waits, and what it proposes.
Recommendation ==
    [id : 1..MaxRecs, status : {"Pending", "Applied"}, res : Resources]

\* cond is the status of the condition RecommendationPending.
ClassObject ==
    [res : Resources, allow : BOOLEAN, gate : BOOLEAN, suggest : BOOLEAN,
     recs : Seq(Recommendation), cond : {"Unset", "True", "False"}]

\* appliedSpecSnapshot and appliedPullRequestURL.
Audit == [res : Resources, url : {"none", "bad", "ok"}]
NoAudit == [res |-> Empty, url |-> "none"]

\* rec is 0 when the request names no recommendation.
RequestObject ==
    [cls : MaybeClass, rec : 0..MaxRecs, approved : BOOLEAN, high : BOOLEAN,
     url : {"none", "bad", "ok"}, phase : {"None", "Pending", "Rejected", "Applied"},
     audit : Audit]

NamespaceObject ==
    [label : MaybeClass, last : MaybeClass, prev : MaybeClass, rv : Nat]

StateTypeOK ==
    /\ class \in [Class -> ClassObject \cup {Absent}]
    /\ seen \subseteq Class
    /\ request \in [Request -> RequestObject \cup {Absent}]
    /\ nsObj \in [Namespace -> NamespaceObject]
    /\ recent \subseteq Namespace
    /\ actual \in [Namespace -> Resources \cup {Tampered}]
    /\ issued \in 0..MaxRecs
    /\ applied \in [Request -> Audit]
    /\ edits \in 0..MaxEdits
    /\ faults \in 0..MaxFaults

\* A class as a user first applies it.
NewClass(s) ==
    [res |-> s.res, allow |-> s.allow, gate |-> s.gate, suggest |-> s.suggest,
     recs |-> <<>>, cond |-> "Unset"]

\* What the objects of a Namespace with label l should be.
Wanted(l) ==
    IF l = NoClass THEN Empty ELSE IF class[l] = Absent THEN Empty ELSE class[l].res

\* The flow begins with Namespaces that follow their classes, some of which they
\* have switched to.
StateInit ==
    /\ class \in [Class -> {NewClass(s) : s \in ClassSpecs} \cup {Absent}]
    /\ seen = {}
    /\ request = [q \in Request |-> Absent]
    /\ \E l, p \in [Namespace -> MaybeClass] :
          /\ \A n \in Namespace : p[n] = NoClass \/ l[n] \notin {NoClass, p[n]}
          /\ nsObj = [n \in Namespace |->
                        [label |-> l[n], last |-> l[n], prev |-> p[n], rv |-> 1]]
          /\ recent \in SUBSET {n \in Namespace : p[n] # NoClass}
    /\ actual = [n \in Namespace |-> Wanted(nsObj[n].label)]
    /\ issued = 0
    /\ applied = [q \in Request |-> NoAudit]
    /\ edits = 0
    /\ faults = 0

\* The server stores v as the next version of class c.
WriteClass(c, v) ==
    /\ class' = [class EXCEPT ![c] = v]
    /\ seen' = seen \ {c}

\* The server stores x as the next version of Namespace n.
WriteNamespace(n, x) == nsObj' = [nsObj EXCEPT ![n] = [x EXCEPT !.rv = nsObj[n].rv + 1]]

Pending(recs) == \E i \in DOMAIN recs : recs[i].status = "Pending"

\* A failure of one of the kinds that may happen.
Fault(kind) == kind \in Faults /\ faults < MaxFaults /\ faults' = faults + 1
=============================================================================
