------------------------- MODULE MCDriftComparison -------------------------
(***************************************************************************)
(* Instances of DriftComparison for TLC: a template or two for each strategy. *)
(***************************************************************************)
EXTENDS DriftComparison

Of(k, body) == [kind |-> k, body |-> body]

\* Lists in an order of their own, with duplicates, empty and missing; fields
\* left to the server.
MCTemplates ==
    {Of("ConfigMap", [profile |-> 1]),
     Of("ConfigMap", [profile |-> 2, note |-> 1, binaryData |-> 1]),
     Of("NetworkPolicy", [podSelector |-> 1, policyTypes |-> <<2, 1>>,
                          ingress |-> <<2, 1>>, egress |-> <<1>>]),
     Of("NetworkPolicy", [podSelector |-> 1, ingress |-> <<>>]),
     Of("NetworkPolicy", [podSelector |-> 2, policyTypes |-> <<1>>,
                          ingress |-> <<1, 2, 1>>]),
     Of("Role", [rules |-> <<<<2, 1, 0>>, <<1, 2, 0>>, <<1, 1, 0>>>>]),
     Of("Role", << >>),
     Of("ValidatingWebhookConfiguration", [webhooks |-> <<<<2, 1, 1>>, <<1, 1, 1>>>>]),
     Of("ServiceAccount", << >>),
     Of("ServiceAccount", [automountServiceAccountToken |-> 1,
                           imagePullSecrets |-> <<2, 1>>, secrets |-> <<>>]),
     Of("ResourceQuota", [hard |-> 1, scopes |-> <<2, 1>>]),
     Of("ResourceQuota", [hard |-> 1, scopeSelector |-> 1]),
     Of("LimitRange", [limits |-> <<<<1, NoDefaults, 0>>>>]),
     Of("LimitRange", [limits |-> <<<<2, 1, 0>>, <<1, 2, 0>>>>]),
     Of("Service", [ports |-> <<2, 1>>, selector |-> 1])}

\* What config/samples/namespaceclass-multikind-v1 and -v2 ask for.
SampleTemplates ==
    {Of("ServiceAccount", << >>),
     Of("ConfigMap", [profile |-> 1]),
     Of("ConfigMap", [profile |-> 2, note |-> 1]),
     Of("LimitRange", [limits |-> <<<<1, NoDefaults, 0>>>>])}

MCFieldsOf ==
    [ConfigMap |-> {"profile", "note", "binaryData", "immutable"},
     NetworkPolicy |-> {"podSelector", "policyTypes", "ingress", "egress"},
     Role |-> {"rules"},
     ValidatingWebhookConfiguration |-> {"webhooks"},
     ServiceAccount |-> {"automountServiceAccountToken", "imagePullSecrets", "secrets"},
     ResourceQuota |-> {"hard", "scopes", "scopeSelector"},
     LimitRange |-> {"limits"},
     Service |-> {"ports", "selector"}]

Lists(S) == UNION {[1..n -> S] : n \in 0..3}

\* Lists of items with different names or types.
Keyed(S) == {s \in UNION {[1..n -> S] : n \in 0..2} : Len(s) = 2 => s[1][1] # s[2][1]}

MCValuesOf ==
    [profile |-> 1..2, note |-> 1..2, binaryData |-> 1..2, immutable |-> 1..2,
     podSelector |-> 1..2, hard |-> 1..2, scopeSelector |-> 1..2, selector |-> 1..2,
     automountServiceAccountToken |-> 1..2,
     policyTypes |-> {<<>>, <<1>>, <<2>>, <<1, 2>>, <<2, 1>>},
     scopes |-> {<<>>, <<1>>, <<2>>, <<1, 2>>, <<2, 1>>},
     ingress |-> Lists(1..2), egress |-> Lists(1..2), ports |-> Lists(1..2),
     imagePullSecrets |-> Lists(0..2), secrets |-> Lists(0..2),
     rules |-> Lists((1..2) \X (1..2) \X {0}),
     webhooks |-> Keyed((1..2) \X (1..2) \X (1..2)),
     limits |-> Keyed((1..2) \X (0..2) \X {0})]
=============================================================================
