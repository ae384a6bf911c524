SPECIFICATION FairSpec
CONSTANTS
  can = can
  e1 = e1
  e2 = e2
  a1 = a1
  a2 = a2
  Null = Null
  Intfs = {can}
  Events = {e1,e2}
  Contexts = {a1,a2}
  MaxFd = 2
  MaxBatch = 2
  MaxInits = 4
  MaxFrames = 1
INVARIANTS
  TypeOK
  NoDanglingTrigger
PROPERTIES
  LoopLeavesNobodyBehind
  SetReachesCallback
CHECK_DEADLOCK FALSE
