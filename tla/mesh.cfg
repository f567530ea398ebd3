SPECIFICATION FairSpec
CONSTANTS
  CurvePoints = {1, 2, 3, 4}
  Payload <- MCPayload
  Unusable = {3}
  MaxStoreEntries = 3
  Daemons = {1, 2}
  Nodes = {1, 2, 3, 4}
  Configured <- MCConfigured
  AdminKeys = {1}
  AddrLists = {1, 2}
  Strays <- MCStrays
  Operators = {1}
  Subjects = {3}
  MaxNow = 1
  MaxOperatorNow = 0
  ChannelSize = 2
  MaxChanges = 3
INVARIANTS RevokedStaysOut
PROPERTIES StoreSound  AddressSpreads
