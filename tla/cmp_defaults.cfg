SPECIFICATION Spec
CONSTANTS
    Templates <- SampleTemplates
    FieldsOf <- MCFieldsOf
    ValuesOf <- MCValuesOf
    Absent = Absent
    MaxEdits = 0
INVARIANTS
    AppliedIsClean
