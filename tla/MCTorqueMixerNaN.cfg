SPECIFICATION Spec
CONSTANTS
  NaN = NaN
  PidSamples <- MCPidSamplesNaN
  LoadSamples <- MCLoadSamples
  LaunchParams <- MCLaunch
  DefaultParams <- MCDefaults
  ParamRequests <- MCRequests
  MaxClip = 3
  MaxTimeout = 2
  Period = 2
  Jitter = 1
PROPERTY CommandIsClamped
CHECK_DEADLOCK FALSE
