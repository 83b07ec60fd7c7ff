SPECIFICATION Spec
CONSTANTS
  Users = {u1}
  Tokens = {t1}
  ResetTokens = {r1}
  Passwords = {p1}
  Requests = {x1, x2}
  None = None
  RefreshTTL = 1
  ResetTTL = 1
  MaxTime = 0
PROPERTIES
  ResetTokenSingleUse
