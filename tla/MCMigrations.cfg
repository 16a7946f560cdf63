CONSTANTS
  Containers = {k1, k2}
  Carried <- Everything
SPECIFICATION Spec
SYMMETRY ContainerSymmetry
INVARIANTS
  SchemaIsOnRecord
  ServedSchemaIsDeclared
  OnlyLongTextsKeepFromReverting
PROPERTY
  ExitsForAReason
