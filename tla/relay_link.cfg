SPECIFICATION FairSpec
CONSTANTS
  a = a
  b = b
  r = r
  s = s
  NoEndpoint = NoEndpoint
  Endpoints <- MCEndpoints
  Relays <- MCRelays
  Configured <- MCConfigured
  Reports <- MCReports
  LiveSets <- MCLive
  Caches <- MCCaches
  MaxCandidates = 3
  MaxRounds = 2
  RotateInterval = 1
  HandshakeFresh = 3
  RegisterInterval = 2
  RetryCooldown = 1
  RelayAfterRounds = 2
  UpgradeMaxRetries = 1
  CacheSeenMax = 1
  MayRestart = TRUE
  MaxChanges = 2
INVARIANTS LinkSound
PROPERTIES HealthyConnectionKept DeadAddressNotListed RecoveredUnlessUpgrading UpgradeEnds
