SPECIFICATION LiveChatSpec
CONSTANTS
  Session = {s1, s2}
  WebSession = {s1}
  User = {u1, u2}
  Insiders = {u1, u2}
  Message = {m1}
  NoUser = NoUser
  NoSession = NoSession
  NoMessage = NoMessage
  Reconnect = FALSE
  Workers = 1
  MaxRequests = 1
  MaxMoves = 2
  MaxLosses = 1
INVARIANTS
  ChatTypeOK
  NoticeFollowsContent
  WarnedFirst
PROPERTIES
  EveryMessageIsReviewed
  RejectedIsRecalled
CHECK_DEADLOCK FALSE
