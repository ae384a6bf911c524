SPECIFICATION MCSpec
CONSTANTS
  NaN = NaN
  Readings = {"unknown", "turning"}
  NoEstimate = "unknown"
  Quiet = "turning"
  StubTorque <- MCStub
  HydroTorque <- MCStub
  LoadLaunches <- MCLoadLaunches
  LoadRequests <- MCLoadRequests
  MaxTorque = 2
  MaxFeedback = 1
  MaxRamp = 0
  LoadPeriod = 1
  LoadJitter = 1
  PidSamples = {}
  MixerLaunches <- MCMixerLaunches
  MixerDefaults <- MCMixerParams
  MixerRequests <- MCMixerRequests
  MaxClip = 3
  MaxTimeout = 1
  MixerPeriod = 1
  MixerJitter = 0
  MaxDelay = 1
  Depth = 2
  SilenceCap = 1
INVARIANTS
  TypeOK
  NothingOlderUnderWay
PROPERTY LoadPathIsDeadMan
\* Everything stops when the mixer does.
CHECK_DEADLOCK FALSE
