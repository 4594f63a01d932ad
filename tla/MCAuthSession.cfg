SPECIFICATION Spec
CONSTANTS
  b1 = b1
  b2 = b2
  c1 = c1
  c2 = c2
  c3 = c3
  reset = reset
  Sessions = {1, 2}
  ResetTokens = {reset}
  Browsers = {b1, b2}
  Calls = {c1, c2, c3}
  BrowserOf <- MCBrowserOf
  May <- MCMay
  LoginLimit = 1
  MaxSends = 4
CHECK_DEADLOCK FALSE
INVARIANTS
  TypeOK
  SessionsFollowThePassword
  LogoutEndsTheSession
  RefreshIsShared
PROPERTIES
  PasswordChangesOnce
