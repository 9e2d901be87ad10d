CONSTANTS
  CascadeDepth = 4
  MaxEdits = 2
SPECIFICATION Spec
INVARIANTS Faithful RestoreSound Migrated
