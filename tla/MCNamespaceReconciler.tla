----------------------- MODULE MCNamespaceReconciler -----------------------
(***************************************************************************)
(* Instances of NamespaceReconciler for TLC.                                *)
(***************************************************************************)
EXTENDS NamespaceReconciler, TLC

CONSTANTS A, B, n1, n2

\* Classes have no contents of their own at first, and Namespaces no
\* objects, so each are interchangeable.
ClassSymmetry == Permutations({A, B})
NamespaceSymmetry == Permutations({n1, n2})

\* A NetworkPolicy in two versions, a ConfigMap, a Role, a CustomResource-
\* Definition and a template without a name.
MCTemplate == {"np1", "np2", "cm", "role", "crd", "unnamed"}
MCRef == {"np", "cm", "role", "crd", "unnamed"}
MCRefOf == [t \in MCTemplate |-> IF t \in {"np1", "np2"} THEN "np" ELSE t]
MCObjectOf == [r \in MCRef |-> r]

Contents(res, allow, hold) == [res |-> res, allow |-> allow, hold |-> hold]

\* A class that holds back repairs and one that does not.
SwitchContents ==
    {Contents(<<"np1">>, FALSE, TRUE), Contents(<<"cm", "role">>, TRUE, FALSE)}

\* A class whose second template is refused until the class allows it.
RefusedContents ==
    {Contents(<<"np1">>, FALSE, FALSE), Contents(<<"cm", "role">>, FALSE, FALSE),
     Contents(<<"cm", "role">>, TRUE, FALSE)}

\* Classes that all hold back repairs.
RearmContents ==
    {Contents(<<"np1">>, FALSE, TRUE), Contents(<<"cm">>, FALSE, TRUE)}

\* With a class whose only template can never be applied.
ConvergeContents ==
    {Contents(<<"np1">>, FALSE, TRUE), Contents(<<"cm", "np2">>, FALSE, FALSE),
     Contents(<<"unnamed">>, FALSE, TRUE)}

\* Namespaces that share a class and, with it, a cluster-scoped object, which an
\* edit of the annotations alone allows or forbids.
SharedContents ==
    {Contents(<<"np1">>, FALSE, FALSE), Contents(<<"crd", "np2">>, FALSE, FALSE),
     Contents(<<"crd", "np2">>, TRUE, FALSE)}

\* Two Refs of one object: a HorizontalPodAutoscaler by autoscaling/v1 and v2.
AliasTemplate == {"hpaV1", "hpaV2"}
AliasRefOf == [t \in AliasTemplate |-> t]
AliasObjectOf == [r \in AliasTemplate |-> "hpa"]
AliasContents ==
    {Contents(<<"hpaV1">>, FALSE, FALSE), Contents(<<"hpaV2">>, FALSE, FALSE)}
=============================================================================
