SPECIFICATION Spec
CONSTANTS
    A = A
    B = B
    n1 = n1
    q1 = q1
    Namespace = {n1}
    Class = {A, B}
    NoClass = NoClass
    Request = {q1}
    Resources = {"none", "plain"}
    Empty = "none"
    HighRisk = {}
    Tampered = Tampered
    Absent = Absent
    ClassSpecs <- OneSpec
    RequestSpecs <- LateApproval
    Faults = {"restart"}
    MaxEdits = 2
    MaxFaults = 1
    MaxRecs = 1
SYMMETRY ClassSymmetry
INVARIANTS
    SettledAnswered
PROPERTIES
    SwitchesRecorded
CHECK_DEADLOCK FALSE
