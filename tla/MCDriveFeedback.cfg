SPECIFICATION FairSpec
CONSTANTS
  NodeIds = {0, 1}
  Strangers = {5}
  Broadcasts <- MCBroadcasts
  Depth = 2
  MaxFrames = 2
INVARIANTS
  TypeOK
  EstimatesBelongTogether
  FramesDecode
PROPERTIES
  ReadLeavesTheNewest
  QueuedFramesArrive
