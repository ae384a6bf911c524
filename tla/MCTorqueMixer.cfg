SPECIFICATION FairSpec
CONSTANTS
  NaN = NaN
  PidSamples <- MCPidSamples
  LoadSamples <- MCLoadSamples
  LaunchParams <- MCLaunch
  DefaultParams <- MCDefaults
  ParamRequests <- MCRequests
  MaxClip = 3
  MaxTimeout = 2
  Period = 2
  Jitter = 1
INVARIANT TypeOK
PROPERTIES
  PidIsDeadMan
  LoadIsDeadMan
  DisabledLoadLeaves
  ClipTakesEffect
  CommandIsClamped
\* The node may be shut down at any time.
CHECK_DEADLOCK FALSE
