SPECIFICATION Spec
CONSTANTS
    Templates <- MCTemplates
    FieldsOf <- MCFieldsOf
    ValuesOf <- MCValuesOf
    Absent = Absent
    MaxEdits = 3
INVARIANTS
    DriftExact
