SPECIFICATION FairSpec
CONSTANTS
    A = A
    B = B
    n1 = n1
    q1 = q1
    Namespace = {n1}
    Class = {A}
    NoClass = NoClass
    Request = {q1}
    Resources = {"none", "plain", "role"}
    Empty = "none"
    HighRisk = {"role"}
    Tampered = Tampered
    Absent = Absent
    ClassSpecs <- OneSpec
    RequestSpecs <- OneRequest
    Faults = {"openai"}
    MaxEdits = 1
    MaxFaults = 1
    MaxRecs = 1
PROPERTIES
    DriftIsReported
CHECK_DEADLOCK FALSE
