CONSTANT
  Geometries <- Floppies
SPECIFICATION Spec
INVARIANTS
  CallsFit
  InOrder
  BelowSystem
  AllLoaded
PROPERTY
  BootEnds
CHECK_DEADLOCK FALSE
