SPECIFICATION FairPeer
CONSTANTS
  a = a
  b = b
  c = c
  NoEndpoint = NoEndpoint
  Endpoints <- MCEndpoints
  Lists <- MCLists
  LiveSets <- MCLive
  MaxRounds = 1
  RotateInterval = 2
  HandshakeFresh = 3
  RekeyAfter = 2
  MaxLag = 2
  MayFail = TRUE
  MaxChanges = 3
INVARIANTS TypeOK IndexInBounds KernelProbesCandidate
PROPERTIES NoLostHandshake ReachesLiveCandidate
