CONSTANTS
  Config <- MCOne
  Gossiped = {"m"}
  RoutesOf <- MCRoutesOf
  Foreign = {}
  Platforms = {"kernel"}
  MaxChanges = 3
SPECIFICATION Spec
INVARIANTS MembersServed
CHECK_DEADLOCK FALSE
