CONSTANTS
  Width = 5
  OverlayLen = 2
  SiteLen = 4
  NetworkId <- MCNetworkId
  SubnetId <- MCSubnetId
  Iid <- MCIid
  NetworkKeys = {"home", "other"}
  KeyTexts = {1, 2, 3, 4, 5, 6, 7}
  PeerNames = {"bootstrap", "A", "a", "a-2", "b", "c", "d", "e", "f", "x", "y", "z", "?"}
  CurvePoints = {1, 2, 3, 4, 5, 6}
  MaxTokenLen = 1
  MaxBootstrap = 1
  MaxTtl = 1
  Cwd <- MCCwd
  ConfArg <- MCConfArg
  KeyArgs <- MCKeyArgs
  Identities = {1, 2}
  NetworkNames = {"net"}
  Unescaped = {}
  Members = {3}
  MembersKey = "home"
  AddArgs <- MCAddArgs
  HandWritten <- MCHandWritten
  HostBase <- MCHostBase
  MaxNow = 2
  MaxChanges = 2
SPECIFICATION SetupSpec
INVARIANTS Unambiguous
PROPERTIES KeyKept  
