CONSTANT Kinds <- MCKinds
SPECIFICATION Spec
CHECK_DEADLOCK FALSE
INVARIANTS
  TypeOK
  WorkHasItsDatabase
  SuccessReleasesAll
PROPERTY
  Settles
