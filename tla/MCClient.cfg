SPECIFICATION ClientSpec
CONSTANTS
  Connection = {c1, c2}
  User = {u1, u2}
  NoUser = NoUser
  NoConnection = NoConnection
  MaxRequests = 3
SYMMETRY Symmetry
INVARIANTS
  ClientTypeOK
  ConnectedIsWhole
  ConfirmedIsBound
  BoundIsConfirmed
CHECK_DEADLOCK FALSE
