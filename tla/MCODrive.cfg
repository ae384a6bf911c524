SPECIFICATION FairSpec
CONSTANTS
  N = 2
  Claims <- MCClaims
  Depth = 2
INVARIANTS
  TypeOK
  DrivesFollow
  InputsMeetTheirMode
PROPERTIES
  ArmsAsOrdered
  DeactivatedDrivesIdle
