SPECIFICATION FlapSpec
CONSTANTS
  NaN = NaN
  Motions <- MCMotions
  FlapSpeed = 1
  FlapReferences <- MCReferences
  PosCommands = {2}
  VelCommands = {1}
  Efforts = {1}
  HydroMoments = {1, 3}
  FlapLaunches <- MCLaunch
  FlapRequests <- MCRequests
  FlapAgeCap = 3
  Window = 2
INVARIANT SyncAsConfigured
