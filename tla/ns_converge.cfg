SPECIFICATION FairSpec
CONSTANTS
    A = A
    B = B
    n1 = n1
    n2 = n2
    NoClass = NoClass
    Absent = Absent
    Tampered = Tampered
    ClusterScope = ClusterScope
    Namespace = {n1}
    Class = {A}
    Template <- MCTemplate
    Ref <- MCRef
    Object <- MCRef
    RefOf <- MCRefOf
    ObjectOf <- MCObjectOf
    ClusterScoped = {"crd"}
    Watched = {"np", "cm"}
    HasSpec = {"np", "crd"}
    Malformed = {"unnamed"}
    HighRisk = {"role", "crd"}
    DriftObjects = {"np"}
    ClassContents <- ConvergeContents
    Faults = {"resync"}
    MaxEdits = 2
    MaxFaults = 0
INVARIANTS
    SettledNoOrphan
PROPERTIES
    Converges
CHECK_DEADLOCK FALSE
