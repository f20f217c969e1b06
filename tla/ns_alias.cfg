SPECIFICATION Spec
CONSTANTS
    A = A
    B = B
    n1 = n1
    n2 = n2
    NoClass = NoClass
    Absent = Absent
    Tampered = Tampered
    ClusterScope = ClusterScope
    Namespace = {n1}
    Class = {A, B}
    Template <- AliasTemplate
    Ref <- AliasTemplate
    Object = {"hpa"}
    RefOf <- AliasRefOf
    ObjectOf <- AliasObjectOf
    ClusterScoped = {}
    Watched = {}
    HasSpec = {"hpa"}
    Malformed = {}
    HighRisk = {}
    DriftObjects = {}
    ClassContents <- AliasContents
    Faults = {}
    MaxEdits = 1
    MaxFaults = 0
PROPERTIES
    AppliedNotDeleted
SYMMETRY ClassSymmetry
CHECK_DEADLOCK FALSE
