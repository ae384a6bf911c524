SPECIFICATION Spec
CONSTANTS
  NaN = NaN
  Readings <- MCNaNReadings
  MaxSpeed = 1
  References <- MCReferences
  LaunchParams <- MCLaunch
  DefaultParams <- MCDefaults
  ParamRequests <- MCRequests
  MaxLimit = 3
  Period = 1
  Jitter = 0
  MaxGap = 2
PROPERTY OutputIsClamped
\* The node may be shut down at any time.
CHECK_DEADLOCK FALSE
