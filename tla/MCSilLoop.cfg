SPECIFICATION FairSpec
CONSTANTS
  Depth = 1
  MaxStarts = 2
  VelModes = {"cascade", "position_only", "velocity_only"}
INVARIANTS
  TypeOK
  ReferencesAreMeasured
PROPERTIES
  LoopCloses
  CircleOpens
