---------------------------- MODULE SwitchRecord ----------------------------
(***************************************************************************)
(* What the annotations of Namespaces promise about their classes: label   *)
(* names the desired class, last-class the class that was acted on last,   *)
(* previous-class the one a rollback returns to.  NamespaceReconciler      *)
(* implements this specification, whatever caches, conflicts, failures and *)
(* restarts lie between reading a Namespace and writing it.                *)
(***************************************************************************)
CONSTANTS Namespace, \* names of Namespaces
          Class,     \* names of NamespaceClasses
          NoClass    \* the empty string: no label, or no annotation

VARIABLES existing,           \* the Namespaces that exist
          label, last, prev   \* their annotations

vars == <<existing, label, last, prev>>

MaybeClass == Class \cup {NoClass}

\* A Namespace is new to the controller, or as it left it.
Init ==
    /\ existing \subseteq Namespace
    /\ label \in [Namespace -> MaybeClass]
    /\ last \in [Namespace -> MaybeClass]
    /\ prev \in [Namespace -> MaybeClass]
    /\ \A n \in Namespace : /\ last[n] \in {NoClass, label[n]}
                            /\ prev[n] = NoClass \/ prev[n] # last[n]

\* The annotations of one Namespace.
Put(n, l, a, p) ==
    /\ label' = [label EXCEPT ![n] = l]
    /\ last' = [last EXCEPT ![n] = a]
    /\ prev' = [prev EXCEPT ![n] = p]

Write(n, l, a, p) ==
    /\ n \in existing
    /\ UNCHANGED existing
    /\ Put(n, l, a, p)

\* Somebody sets, changes or removes the label; nothing else moves with it.
Relabel(n, l) == Write(n, l, last[n], prev[n])

\* The controller acknowledges the label, and the class it acknowledged before
\* becomes the rollback target: once per switch, and never the label itself.
Record(n) ==
    /\ last[n] # label[n]
    /\ Write(n, label[n], label[n],
             IF last[n] = NoClass THEN prev[n] ELSE last[n])

\* A rollback returns to the previous class and spends it.
RollBack(n) ==
    /\ prev[n] \notin {NoClass, label[n]}
    /\ Write(n, prev[n], prev[n], NoClass)

\* Only with the Namespace itself are its annotations lost.
Delete(n) ==
    /\ n \in existing
    /\ existing' = existing \ {n}
    /\ Put(n, NoClass, NoClass, NoClass)

Create(n, l) ==
    /\ n \notin existing
    /\ existing' = existing \cup {n}
    /\ Put(n, l, NoClass, NoClass)

Next ==
    \E n \in Namespace :
        \/ \E l \in MaybeClass : Relabel(n, l)
        \/ Record(n)
        \/ RollBack(n)
        \/ Delete(n)
        \/ \E l \in MaybeClass : Create(n, l)

Spec == Init /\ [][Next]_vars
=============================================================================
