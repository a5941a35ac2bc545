SPECIFICATION RegistrySpec
CONSTANTS
  Session = {s1, s2}
  WebSession = {}
  User = {u1}
  NoUser = NoUser
  NoSession = NoSession
  Sweeper = Sweeper
  MaxRequests = 3
  MaxFaults = 2
  MayStall = TRUE
INVARIANTS
  StatusFollowsRegistry
CHECK_DEADLOCK FALSE
