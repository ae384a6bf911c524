SPECIFICATION MCSpec
CONSTANTS
  NaN = NaN
  Readings = {"unknown", "turning"}
  NoEstimate = "unknown"
  Quiet = "turning"
  StubTorque <- MCStub
  HydroTorque <- MCStub
  LoadLaunches <- MCLoadLaunches
  LoadRequests <- MCLoadRequests
  MaxTorque = 2
  MaxFeedback = 1
  MaxRamp = 0
  LoadPeriod = 1
  LoadJitter = 0
  PidSamples = {}
  MixerLaunches <- MCMixerLaunches
  MixerDefaults <- MCMixerParams
  MixerRequests <- MCMixerRequests
  MaxClip = 3
  MaxTimeout = 1
  MixerPeriod = 1
  MixerJitter = 0
  MaxDelay = 0
  Depth = 1
  SilenceCap = 6
INVARIANT SilentBusSilencesLoad
CHECK_DEADLOCK FALSE
