----------------------------- MODULE AIWatcher -----------------------------
(***************************************************************************)
(* The AI watcher: a goroutine that polls all classes, looks for drift in   *)
(* their Namespaces, asks for a proposal and writes it into the status of   *)
(* the class.  What it has analysed it remembers in memory only.            *)
(***************************************************************************)
EXTENDS ApprovalState

VARIABLES
    lastDigest, \* what was analysed last of each class
    poll        \* the poll that is running

watcherVars == <<lastDigest, poll>>

NoPoll == [pc |-> "idle"]

\* A class as the poll listed it, and what may be reported of a Namespace: that
\* it switched from a class, what its objects are, or that they were not read.
Listing == [c : Class, res : Resources, suggest : BOOLEAN]
Message ==
    [n : Namespace, kind : {"switched"}, what : Class]
        \cup [n : Namespace, kind : {"objects"}, what : Resources \cup {Tampered}]
        \cup [n : Namespace, kind : {"unreadable"}, what : {Absent}]
Digest == [res : Resources, drift : SUBSET Message]
NoDigest == [res |-> Absent, drift |-> {}]

\* todo are the classes still to come, item the one in hand, left its Namespaces
\* still to be read and proposed what the status will propose.
Poll ==
    [pc : {"next", "detect", "base", "ask", "write"}, todo : SUBSET Listing,
     item : Listing \cup {Absent}, left : SUBSET Namespace,
     drift : SUBSET Message, proposed : Resources, pending : BOOLEAN]

WatcherTypeOK ==
    /\ lastDigest \in [Class -> Digest \cup {NoDigest}]
    /\ poll \in Poll \cup {NoPoll}

WatcherInit ==
    /\ lastDigest = [c \in Class |-> NoDigest]
    /\ poll = NoPoll

NextItem == [poll EXCEPT !.pc = "next", !.item = Absent, !.left = {}, !.drift = {},
                         !.proposed = Empty, !.pending = FALSE]

-----------------------------------------------------------------------------
\* The ticker fires and the classes are listed.
StartPoll ==
    /\ poll = NoPoll
    /\ poll' = [pc |-> "next", item |-> Absent, left |-> {}, drift |-> {},
                proposed |-> Empty, pending |-> FALSE,
                todo |-> {[c |-> c, res |-> class[c].res, suggest |-> class[c].suggest] :
                             c \in {x \in Class : class[x] # Absent}}]
    /\ UNCHANGED <<served, bounds, lastDigest>>

EndPoll ==
    /\ poll.pc = "next"
    /\ poll.todo = {}
    /\ poll' = NoPoll
    /\ UNCHANGED <<served, bounds, lastDigest>>

\* buildSwitchDriftMessage, for every Namespace of class c.
SwitchMessages(c) ==
    {[n |-> n, kind |-> "switched", what |-> nsObj[n].prev] :
        n \in {m \in recent : /\ nsObj[m].label = c
                              /\ nsObj[m].prev \notin {NoClass, c}}}

\* reconcileClass begins: the Namespaces of the class are listed.
NextClass ==
    /\ poll.pc = "next"
    /\ \E x \in poll.todo :
          poll' = [poll EXCEPT !.pc = "detect", !.todo = @ \ {x}, !.item = x,
                               !.left = {n \in Namespace : nsObj[n].label = x.c},
                               !.drift = SwitchMessages(x.c)]
    /\ UNCHANGED <<served, bounds, lastDigest>>

\* detectDrift reads the objects and the inventory of Namespace n.  How one object
\* is compared with its template is in DriftComparison.
DetectDrift(n) ==
    /\ poll.pc = "detect"
    /\ n \in poll.left
    /\ poll' = [poll EXCEPT !.left = @ \ {n}, !.drift = @ \cup
                  {m \in {[n |-> n, kind |-> "objects", what |-> actual[n]]} :
                      actual[n] # poll.item.res}]
    /\ UNCHANGED <<served, bounds, lastDigest>>

\* An object that cannot be read counts as drift.
CannotRead(n) ==
    /\ Fault("api")
    /\ poll.pc = "detect"
    /\ n \in poll.left
    /\ poll' = [poll EXCEPT !.left = @ \ {n}, !.drift = @ \cup
                  {[n |-> n, kind |-> "unreadable", what |-> Absent]}]
    /\ UNCHANGED <<served, edits, lastDigest>>

\* Nothing is done about what was analysed before.
CompareDigest ==
    LET d == [res |-> poll.item.res, drift |-> poll.drift] IN
    /\ poll.pc = "detect"
    /\ poll.left = {}
    /\ lastDigest' = [lastDigest EXCEPT ![poll.item.c] = d]
    /\ \/ /\ lastDigest[poll.item.c] = d
          /\ poll' = NextItem
       \/ /\ lastDigest[poll.item.c] # d
          /\ poll' = [poll EXCEPT !.pc = IF poll.drift = {} THEN "write" ELSE "base"]
    /\ UNCHANGED <<served, bounds>>

\* Classes the Namespaces in hand have switched from.
Hints == {m.what : m \in {x \in poll.drift : x.kind = "switched"}}

\* rollbackProposalResources: the resources of the one class switched from, if
\* the class suggests a rollback and they can be read.
RollbackResources ==
    {class[p].res : p \in {x \in Hints : Hints = {x} /\ class[x] # Absent}} \ {Empty}

ChooseBase ==
    /\ poll.pc = "base"
    /\ \/ /\ poll.item.suggest /\ RollbackResources # {}
          /\ \E r \in RollbackResources :
                poll' = [poll EXCEPT !.pc = "ask", !.proposed = r]
       \/ /\ ~poll.item.suggest \/ RollbackResources = {}
          /\ poll' = [poll EXCEPT !.pc = "ask", !.proposed = poll.item.res]
    /\ UNCHANGED <<served, bounds, lastDigest>>

\* askOpenAIForProposal: any answer may come, and one without resources stands
\* for those it was asked about.
AskOpenAI ==
    /\ poll.pc = "ask"
    /\ \E r \in Resources :
          poll' = [poll EXCEPT !.pc = "write", !.pending = TRUE,
                               !.proposed = IF r = Empty THEN @ ELSE r]
    /\ UNCHANGED <<served, bounds, lastDigest>>

\* Mutants: the condition follows the new analysis alone, and the id is that of
\* the recommendation before.
ReportedNew(pending, recs) == IF pending THEN "True" ELSE "False"
IdOfLast == issued

\* The condition RecommendationPending.
Reported(pending, recs) == IF pending \/ Pending(recs) THEN "True" ELSE "False"

NewId == issued + 1

\* writeClassStatus, on the latest version of the class and again on conflicts.
\* Without drift a recommendation that waits is kept.
WriteClassStatus ==
    LET c == poll.item.c
        k == class[c]
        recs == IF poll.pending
                  THEN <<[id |-> NewId, status |-> "Pending", res |-> poll.proposed]>>
                  ELSE IF Pending(k.recs) THEN k.recs ELSE <<>>
    IN  /\ poll.pc = "write"
        /\ \/ k = Absent /\ UNCHANGED <<class, seen, issued>>
           \/ /\ k # Absent
              /\ WriteClass(c, [k EXCEPT !.recs = recs,
                                         !.cond = Reported(poll.pending, recs)])
              /\ poll.pending => issued < MaxRecs
              /\ issued' = IF poll.pending THEN issued + 1 ELSE issued
        /\ poll' = NextItem
        /\ UNCHANGED <<request, nsObj, recent, actual, applied, bounds, lastDigest>>

-----------------------------------------------------------------------------
\* No answer from OpenAI, or an error: the class is left for the next poll.
OpenAIFails ==
    /\ Fault("openai")
    /\ poll.pc = "ask"
    /\ poll' = NextItem
    /\ UNCHANGED <<served, edits, lastDigest>>

\* Listing the Namespaces of a class, or writing its status, fails.
ClassFails ==
    /\ Fault("api")
    /\ \/ poll.pc = "next" /\ \E x \in poll.todo : poll' = [poll EXCEPT !.todo = @ \ {x}]
       \/ poll.pc = "write" /\ poll' = NextItem
    /\ UNCHANGED <<served, edits, lastDigest>>

\* The class switched from cannot be read.
BaseFails ==
    /\ Fault("api")
    /\ poll.pc = "base" /\ poll.item.suggest
    /\ poll' = [poll EXCEPT !.pc = "ask", !.proposed = poll.item.res]
    /\ UNCHANGED <<served, edits, lastDigest>>

ReconcileClasses ==
    \/ StartPoll
    \/ EndPoll
    \/ NextClass
    \/ \E n \in Namespace : DetectDrift(n)
    \/ CompareDigest
    \/ ChooseBase
    \/ AskOpenAI
    \/ WriteClassStatus

WatcherNext ==
    \/ ReconcileClasses
    \/ \E n \in Namespace : CannotRead(n)
    \/ OpenAIFails
    \/ ClassFails
    \/ BaseFails

WatcherFairness == WF_watcherVars(ReconcileClasses)
=============================================================================
