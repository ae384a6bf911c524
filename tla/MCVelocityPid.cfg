SPECIFICATION FairSpec
CONSTANTS
  NaN = NaN
  Readings <- MCReadings
  MaxSpeed = 1
  References <- MCReferences
  LaunchParams <- MCLaunch
  DefaultParams <- MCDefaults
  ParamRequests <- MCRequests
  MaxLimit = 3
  Period = 1
  Jitter = 0
  MaxGap = 2
INVARIANTS
  TypeOK
  RatesSpanTheirDt
PROPERTIES
  IntegralClamped
  LostJointReleases
  LimitTakesEffect
\* The node may be shut down at any time.
CHECK_DEADLOCK FALSE
