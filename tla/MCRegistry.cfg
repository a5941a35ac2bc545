SPECIFICATION RegistrySpec
CONSTANTS
  Session = {s1, s2, s3}
  WebSession = {s1, s2, s3}
  User = {u1}
  NoUser = NoUser
  NoSession = NoSession
  Sweeper = Sweeper
  MaxRequests = 3
  MaxFaults = 2
  MayStall = TRUE
INVARIANTS
  TypeOK
  OpenIsBound
  SingleLogin
  OpenWhileLocked
PROPERTIES
  DirectorySafety
SYMMETRY Symmetry
CHECK_DEADLOCK FALSE
