\* Two clients of one address that are both let through before either has
\* acknowledged its login: the second count goes past the limit of one.
\* CHECK_DEADLOCK FALSE: a client whose descriptor was lost may wait for ever.
SPECIFICATION LoginSpec
CONSTANTS
  Fd = {f1, f2}
  IP = {ip1}
  MaxPlayerCount = 1
  MaxConcurrentAccount = 2
  RateLimit = 0
  CompressionOn = TRUE
  OnlineMode = TRUE
  LoginToken = {t1, t2}
  PingToken = {q1}
  NoToken = NoToken
  MaxTime = 1
  Nobody = Nobody
INVARIANTS
  OnlineWithinMax
CHECK_DEADLOCK FALSE
