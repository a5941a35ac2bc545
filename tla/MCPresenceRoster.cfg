SPECIFICATION PresenceSpec
CONSTANTS
  Session = {s1, s2}
  WebSession = {}
  User = {u1, u2}
  NoUser = NoUser
  NoSession = NoSession
  Sweeper = Sweeper
  MaxRequests = 2
  MaxFaults = 0
  MayStall = TRUE
INVARIANTS
  RosterComplete
SYMMETRY Symmetry
CHECK_DEADLOCK FALSE
