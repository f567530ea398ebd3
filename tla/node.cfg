CONSTANTS
  Config <- MCConfig
  Gossiped = {"m"}
  RoutesOf <- MCRoutesOf
  Foreign = {"r1", "r2"}
  Platforms = {"kernel", "userspace"}
  MaxChanges = 4
SPECIFICATION FairSpec
CHECK_DEADLOCK FALSE
INVARIANTS  UsersRoutesStay ConfiguredCarried RevokedOut TablesSound
PROPERTIES RoutesFollow
