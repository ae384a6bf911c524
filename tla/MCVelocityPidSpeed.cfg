SPECIFICATION Spec
CONSTANTS
  NaN = NaN
  Readings <- MCReadings
  MaxSpeed = 1
  References <- MCFastReferences
  LaunchParams <- MCFastLaunch
  DefaultParams <- MCDefaults
  ParamRequests <- MCRequests
  MaxLimit = 3
  Period = 1
  Jitter = 0
  MaxGap = 2
PROPERTY SpeedCommandLimited
\* The node may be shut down at any time.
CHECK_DEADLOCK FALSE
