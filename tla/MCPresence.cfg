SPECIFICATION LivePresenceSpec
CONSTANTS
  Session = {s1, s2}
  WebSession = {s1}
  User = {u1, u2}
  NoUser = NoUser
  NoSession = NoSession
  Sweeper = Sweeper
  MaxRequests = 3
  MaxFaults = 1
  MayStall = FALSE
INVARIANTS
  PresenceTypeOK
  StatusAfterLogin
  RemovedFromAllIndexes
PROPERTIES
  RefinesRegistry
  SilentIsEvicted
  ClosedIsRemoved
  ImplementsDirectory
CHECK_DEADLOCK FALSE
