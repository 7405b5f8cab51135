SPECIFICATION FieldsSpec
CONSTANTS
  None = None
INVARIANTS
  FieldsArrive
