SPECIFICATION Spec
CONSTANTS
    A = A
    B = B
    n1 = n1
    n2 = n2
    NoClass = NoClass
    Absent = Absent
    Tampered = Tampered
    ClusterScope = ClusterScope
    Namespace = {n1, n2}
    Class = {A}
    Template <- MCTemplate
    Ref <- MCRef
    Object <- MCRef
    RefOf <- MCRefOf
    ObjectOf <- MCObjectOf
    ClusterScoped = {"crd"}
    Watched = {"np", "cm"}
    HasSpec = {"np", "crd"}
    Malformed = {"unnamed"}
    HighRisk = {"role", "crd"}
    DriftObjects = {"np"}
    ClassContents <- SharedContents
    Faults = {"discovery", "lag", "api"}
    MaxEdits = 1
    MaxFaults = 1
INVARIANTS
    SettledInSync
SYMMETRY NamespaceSymmetry
CHECK_DEADLOCK FALSE
