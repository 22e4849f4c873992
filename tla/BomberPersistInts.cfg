CONSTANTS
  Value = {0, 1}
  MaxWrites = 2
SPECIFICATION Spec
INVARIANT PersistFieldsSurvive
