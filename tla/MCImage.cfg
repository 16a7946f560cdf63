CONSTANTS
  Containers = {k1, k2}
  Carried <- CopiedByDockerfile
SPECIFICATION Spec
SYMMETRY ContainerSymmetry
INVARIANT
  ServedSchemaIsDeclared
