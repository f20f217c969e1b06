-------------------------- MODULE DriftComparison --------------------------
(***************************************************************************)
(* How the AI watcher compares one object with its template: by strategies  *)
(* that choose fields per kind and put lists in a normal order.  Beside it  *)
(* what can happen to the object: what the server makes of it, and users.   *)
(*                                                                          *)
(* A template and an object are functions of the fields they have: entries  *)
(* of data, fields of spec, or fields at the top.  A field is a number or a *)
(* list of them; an item of ItemLists is <<sort key, what else is compared, *)
(* what is not>>.  Numbers are ordered as the JSON they stand for.          *)
(***************************************************************************)
EXTENDS Naturals, Sequences, FiniteSets, Functions

CONSTANTS
    Templates,      \* kinds with the templates that classes may hold of them
    FieldsOf,       \* the fields objects of a kind may have
    ValuesOf,       \* the values users may give a field
    Absent,         \* no such object
    MaxEdits        \* bound on what users do

VARIABLES
    kind,       \* the kind of the template and the object
    template,   \* what the class asks for
    object,     \* what the server stores
    edits

vars == <<kind, template, object, edits>>

-----------------------------------------------------------------------------
\* The strategies: fields compared, those whose order does not matter, and
\* those that are empty when they are not there.

Strategy(fields, sorted, filled) ==
    [fields |-> fields, sorted |-> sorted, filled |-> filled]

\* Entries of data stand beside binaryData, so none may have that name.
DataField == Strategy({"profile", "note", "binaryData"}, {}, {})

NetworkPolicySpec ==
    Strategy({"podSelector", "policyTypes", "ingress", "egress"},
             {"policyTypes", "ingress", "egress"}, {})

RulesField == Strategy({"rules"}, {"rules"}, {"rules"})

WebhooksField == Strategy({"webhooks"}, {"webhooks"}, {"webhooks"})

ServiceAccountFields ==
    Strategy({"automountServiceAccountToken", "imagePullSecrets", "secrets"},
             {"imagePullSecrets", "secrets"}, {"imagePullSecrets", "secrets"})

ResourceQuotaFields ==
    Strategy({"hard", "scopes", "scopeSelector"}, {"scopes"}, {})

LimitRangeFields == Strategy({"limits"}, {"limits"}, {"limits"})

SpecField(k) == Strategy(FieldsOf[k], {}, {})

StrategyForKind(k) ==
    CASE k \in {"ConfigMap", "Secret"} -> DataField
      [] k = "NetworkPolicy" -> NetworkPolicySpec
      [] k \in {"Role", "ClusterRole"} -> RulesField
      [] k \in {"MutatingWebhookConfiguration",
                "ValidatingWebhookConfiguration"} -> WebhooksField
      [] k = "ServiceAccount" -> ServiceAccountFields
      [] k = "ResourceQuota" -> ResourceQuotaFields
      [] k = "LimitRange" -> LimitRangeFields
      [] OTHER -> SpecField(k)

NamedRefs == {"imagePullSecrets", "secrets"}
ItemLists == {"rules", "webhooks", "limits"}
NoName == 0

\* What is compared of an item.
Compared == Nat \X Nat
Projected(list) == [i \in DOMAIN list |-> <<list[i][1], list[i][2]>>]

\* The orders the lists are sorted by.
Less == {p \in Nat \X Nat : p[1] < p[2]}
KeyLess == {p \in Compared \X Compared : p[1][1] < p[2][1]}
ItemLess ==
    {p \in Compared \X Compared :
        p[1][1] < p[2][1] \/ (p[1][1] = p[2][1] /\ p[1][2] < p[2][2])}

\* What sort.Slice makes of the items at some places of a list: an arrangement in
\* which none comes after a greater one.
InOrder(list, places, less) ==
    LET n == Cardinality(places)
        p == CHOOSE p \in Bijection(1..n, places) :
                \A i, j \in 1..n : i < j => <<list[p[j]], list[p[i]]>> \notin less
    IN  [i \in 1..n |-> list[p[i]]]

\* References without a name are left out.
Named(list) == {i \in DOMAIN list : list[i] # NoName}
NormalizedNamedRefs(list) == InOrder(list, Named(list), Less)

\* Rules are in the order of all that is compared.
NormalizedRules(list) == InOrder(Projected(list), DOMAIN list, ItemLess)

\* Webhooks are in the order of their names and limits of their types.
NormalizedByKey(list) == InOrder(Projected(list), DOMAIN list, KeyLess)

\* Plain values, as normalizeStringSlice and sortJSONStableSlice have them.
NormalizedValues(list) == InOrder(list, DOMAIN list, Less)

Normalized(f, list) ==
    CASE f \in NamedRefs -> NormalizedNamedRefs(list)
      [] f = "rules" -> NormalizedRules(list)
      [] f \in {"webhooks", "limits"} -> NormalizedByKey(list)
      [] OTHER -> NormalizedValues(list)

\* Mutant: a list that is not there is left out, an empty one is not.
ExtractedUnfilled(k, x) ==
    LET s == StrategyForKind(k)
    IN  [f \in DOMAIN x \cap s.fields |->
            IF f \in s.sorted THEN Normalized(f, x[f]) ELSE x[f]]

\* The extractor of the strategy.
Extracted(k, x) ==
    LET s == StrategyForKind(k)
    IN  [f \in (DOMAIN x \cap s.fields) \cup s.filled |->
            IF f \notin s.sorted THEN x[f]
            ELSE IF f \in DOMAIN x THEN Normalized(f, x[f]) ELSE <<>>]

\* detectDrift, for one template.
WatcherSeesDrift(k, t, o) ==
    o = Absent \/ (o # Absent /\ Extracted(k, t) # Extracted(k, o))

-----------------------------------------------------------------------------
\* Objects and templates.

\* The lists whose order does not matter.
Unordered == {"policyTypes", "ingress", "egress", "scopes"} \cup NamedRefs \cup ItemLists

\* The server refuses lists in which two webhooks have one name, or two limits one
\* type.
ListsOf(f) ==
    IF f \notin ItemLists THEN Seq(Nat)
    ELSE {s \in Seq(Nat \X Nat \X Nat) :
            f # "rules" => \A i, j \in DOMAIN s : s[i][1] = s[j][1] => i = j}

IsBody(k, x) ==
    /\ x = [f \in DOMAIN x |-> x[f]]
    /\ DOMAIN x \subseteq FieldsOf[k]
    /\ \A f \in DOMAIN x \cap Unordered : x[f] \in ListsOf(f)

KindsWithStrategy ==
    {"ConfigMap", "Secret", "NetworkPolicy", "Role", "ClusterRole",
     "MutatingWebhookConfiguration", "ValidatingWebhookConfiguration",
     "ServiceAccount", "ResourceQuota", "LimitRange"}

\* Fields are named for what they mean: other kinds have other ones.
ASSUME ComparisonAssumption ==
    /\ \A x \in Templates : x.kind \in DOMAIN FieldsOf /\ IsBody(x.kind, x.body)
    /\ \A k \in DOMAIN FieldsOf :
          /\ FieldsOf[k] \subseteq DOMAIN ValuesOf
          /\ k \notin KindsWithStrategy => FieldsOf[k] \cap Unordered = {}
          /\ k = "NetworkPolicy" => "policyTypes" \in FieldsOf[k]
    /\ \A f \in DOMAIN ValuesOf \cap Unordered : ValuesOf[f] \subseteq ListsOf(f)
    /\ MaxEdits \in Nat

-----------------------------------------------------------------------------
\* The object on the server.

Ingress == 1
Egress == 2

\* Lists the server does not store when they are empty.
OmitEmpty == {"ingress", "egress", "policyTypes", "scopes", "webhooks",
              "imagePullSecrets", "secrets"}

\* A limit may leave its defaults to the server, which sets them.
NoDefaults == 0
ServerDefaults == 1
Defaulted(x) == IF x[2] = NoDefaults THEN [x EXCEPT ![2] = ServerDefaults] ELSE x

\* What the server makes of an object it is given.
Stored(k, x) ==
    LET kept == {f \in DOMAIN x : f \notin OmitEmpty \/ x[f] # <<>>}
        always == IF k = "NetworkPolicy" THEN {"policyTypes"} ELSE {}
        types == IF "egress" \in kept THEN <<Ingress, Egress>> ELSE <<Ingress>>
    IN  [f \in kept \cup always |->
            IF f \notin kept THEN types
            ELSE IF f = "limits" THEN [i \in DOMAIN x[f] |-> Defaulted(x[f][i])]
            ELSE x[f]]

Init ==
    /\ \E x \in Templates : kind = x.kind /\ template = x.body
    /\ object = Absent
    /\ edits = 0

\* applyClassResources creates or replaces the object.
ApplyClassResource ==
    /\ object' = Stored(kind, template)
    /\ UNCHANGED <<kind, template, edits>>

Edit == edits < MaxEdits /\ edits' = edits + 1

WithField(x, f, v) == [g \in DOMAIN x \cup {f} |-> IF g = f THEN v ELSE x[g]]

SetField(f, v) ==
    /\ Edit
    /\ object # Absent
    /\ object' = Stored(kind, WithField(object, f, v))
    /\ UNCHANGED <<kind, template>>

RemoveField(f) ==
    /\ Edit
    /\ object # Absent
    /\ f \in DOMAIN object
    /\ object' = Stored(kind, [g \in DOMAIN object \ {f} |-> object[g]])
    /\ UNCHANGED <<kind, template>>

DeleteObject ==
    /\ Edit
    /\ object # Absent
    /\ object' = Absent
    /\ UNCHANGED <<kind, template>>

\* The class is edited.
Upgrade(t) ==
    /\ Edit
    /\ template' = t
    /\ UNCHANGED <<kind, object>>

Next ==
    \/ ApplyClassResource
    \/ \E f \in FieldsOf[kind] : RemoveField(f) \/ \E v \in ValuesOf[f] : SetField(f, v)
    \/ DeleteObject
    \/ \E x \in Templates : x.kind = kind /\ Upgrade(x.body)

Spec == Init /\ [][Next]_vars

-----------------------------------------------------------------------------
\* Properties.

\* Templates and objects are well formed: no two webhooks have one name, no two
\* limits one type.  Sorting by key alone is exact only for such lists.
TypeOK ==
    /\ kind \in DOMAIN FieldsOf
    /\ IsBody(kind, template)
    /\ object = Absent \/ (object # Absent /\ IsBody(kind, object))
    /\ edits \in 0..MaxEdits

\* What the documents say is compared (README, "Current field strategies").
Documented(k) ==
    CASE k \in {"ConfigMap", "Secret"} -> {"profile", "note", "binaryData"}
      [] k = "NetworkPolicy" -> {"podSelector", "policyTypes", "ingress", "egress"}
      [] k \in {"Role", "ClusterRole"} -> {"rules"}
      [] k \in {"MutatingWebhookConfiguration",
                "ValidatingWebhookConfiguration"} -> {"webhooks"}
      [] k = "ServiceAccount" ->
            {"automountServiceAccountToken", "imagePullSecrets", "secrets"}
      [] k = "ResourceQuota" -> {"hard", "scopes", "scopeSelector"}
      [] k = "LimitRange" -> {"limits"}
      [] OTHER -> FieldsOf[k]

\* How often each value that counts is in a list.
Occurrences(f, list) ==
    LET Seen(x) == IF f \in ItemLists THEN <<x[1], x[2]>> ELSE x
        places == {i \in DOMAIN list : f \notin NamedRefs \/ list[i] # NoName}
    IN  [v \in {Seen(list[i]) : i \in places} |->
            Cardinality({i \in places : Seen(list[i]) = v})]

\* A field means the same in both: there or not, and up to order in lists.  No
\* list and an empty one mean the same where the kind knows no difference.
SameField(f, t, o) ==
    IF f \in DOMAIN t /\ f \in DOMAIN o
      THEN IF f \in Unordered THEN Occurrences(f, t[f]) = Occurrences(f, o[f])
                              ELSE t[f] = o[f]
      ELSE \A x \in {t, o} : f \in DOMAIN x =>
              f \in NamedRefs \cup ItemLists /\ Occurrences(f, x[f]) = <<>>

\* The comparison is exact: the watcher reports drift if the object is gone or
\* means something else in a field that is documented as compared, and else not,
\* whatever order users, server and templates put lists in
\* (extractNetworkPolicySpec: "across rule order churn"), and however many edits
\* and applications led there.  A default that the server filled in is such a
\* difference.
DriftExact ==
    WatcherSeesDrift(kind, template, object) <=>
        \/ object = Absent
        \/ /\ object # Absent
           /\ \E f \in Documented(kind) : ~SameField(f, template, object)

\* README:400 says of the class upgrade of its sample that "by itself it does not
\* create AI drift recommendation": an object that is what the server made of the
\* template is not reported (normalizeLimitRangeFields).
AppliedIsClean ==
    object # Absent /\ object = Stored(kind, template) =>
        ~WatcherSeesDrift(kind, template, object)
=============================================================================
