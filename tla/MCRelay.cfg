SPECIFICATION LiveRelaySpec
CONSTANTS
  Session = {s1, s2}
  TcpSession = {s1}
  User = {u1}
  Prompt = {p1}
  NoUser = NoUser
  NoSession = NoSession
  NoPrompt = NoPrompt
  Workers = 1
  Cooldown = 1
  MaxTime = 0
  MaxNames = 1
  MaxLosses = 1
INVARIANTS
  RelayTypeOK
  StopClosesRegistered
PROPERTIES
  AcceptedIsAnswered
  SavedIsReviewed
  TcpReadersEnd
  StopEnds
CHECK_DEADLOCK FALSE
