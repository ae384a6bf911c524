SPECIFICATION FairSpec
CONSTANTS
  NaN = NaN
  Readings <- MCReadings
  Quiet = "still"
  StubTorque <- MCStub
  HydroTorque <- MCHydro
  LaunchParams <- MCLaunch
  ParamRequests <- MCRequests
  MaxTorque = 4
  MaxTimeout = 2
  MaxRamp = 2
  Period = 2
  Jitter = 1
INVARIANTS
  TypeOK
  ShutGateIsSilent
PROPERTIES
  FeedbackIsDeadMan
  HydroLeaves
  OpenGateDelivers
\* The node may be shut down at any time.
CHECK_DEADLOCK FALSE
