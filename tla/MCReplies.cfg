SPECIFICATION AISpec
CONSTANTS
  Session = {s1, s2}
  User = {u1, u2}
  Prompt = {p1, p2, p3}
  NoUser = NoUser
  NoSession = NoSession
  NoPrompt = NoPrompt
  Workers = 2
  Cooldown = 2
  MaxTime = 3
  MaxNames = 2
SYMMETRY Symmetry
INVARIANTS
  AITypeOK
  CooldownUnlessOverlap
  RefusalHasCause
CHECK_DEADLOCK FALSE
