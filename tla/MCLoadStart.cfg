SPECIFICATION Spec
CONSTANTS
  NaN = NaN
  Readings <- MCReadings
  Quiet = "still"
  StubTorque <- MCStub
  HydroTorque <- MCHydro
  LaunchParams <- MCLaunch
  ParamRequests <- MCRequests
  MaxTorque = 4
  MaxTimeout = 2
  MaxRamp = 2
  Period = 2
  Jitter = 1
INVARIANT NeverEngagedIsSilent
CHECK_DEADLOCK FALSE
