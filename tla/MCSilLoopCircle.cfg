SPECIFICATION Spec
CONSTANTS
  Depth = 1
  MaxStarts = 1
  VelModes = {"cascade"}
INVARIANTS
  NoCircularDependency
