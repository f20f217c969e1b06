SPECIFICATION FairSpec
CONSTANTS
    A = A
    B = B
    n1 = n1
    q1 = q1
    Namespace = {n1}
    Class = {A}
    NoClass = NoClass
    Request = {q1}
    Resources = {"none", "plain", "role"}
    Empty = "none"
    HighRisk = {"role"}
    Tampered = Tampered
    Absent = Absent
    ClassSpecs <- GatedSpecs
    RequestSpecs <- MCRequestSpecs
    Faults = {"api", "openai", "restart", "busy"}
    MaxEdits = 2
    MaxFaults = 1
    MaxRecs = 2
INVARIANTS
    TypeOK
    PendingIsReported
    AuditTruthful
PROPERTIES
    AppliedAsRecommended
    AppliedIsAccepted
    GateRespected
    Answered
CHECK_DEADLOCK FALSE
