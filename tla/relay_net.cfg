SPECIFICATION FairSpec
CONSTANTS
  CurvePoints = {1, 2, 3, 4}
  Links <- MCLinks
  Homes <- MCHomes
  WgPort = 4193
  Ports <- MCPorts
  NetworkKey = "key"
  Allowlist = {1, 2, 3}
  Strays <- MCStrays
  MaxSessions = 1
  SessionTtl = 1
  SeqSkew = 0
  ChannelSize = 1
  MaxInFlight = 1
  MaxChanges = 1
  NoPort = NoPort
  NoAddr = NoAddr
INVARIANTS SessionsSound
PROPERTIES  BothReach
