SPECIFICATION LoopSpec
CONSTANTS
  a = a
  b = b
  c = c
  r = r
  NoEndpoint = NoEndpoint
  Endpoints <- MCEndpoints
  MaxCandidates = 3
  Inputs <- MCInputs
CHECK_DEADLOCK FALSE
INVARIANTS NoRepeats RelayHasPlace LeftOutOnlyWhenFull ListOrdered LoopComputesList
