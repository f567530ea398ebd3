CONSTANTS
  Addrs = {1, 2, 3}
  Usable = {1, 2}
  Setups <- MCSetups
  Replicas = {"r1", "r2"}
  EventCap = 1
  KickCap = 1
  InboxCap = 1
  NetCap = 2
  BeaconMaxAddrs = 1
  MaxPublished = 1
  MaxTracked = 1
  EntryTTL = 1
  SkewTolerance = 2
  MaxNow = 3
  MaxEpoch = 2
  MaxChanges = 3
SPECIFICATION FairRendezvous
CHECK_DEADLOCK FALSE
INVARIANTS NotForgotten
PROPERTIES LanTableSound 
