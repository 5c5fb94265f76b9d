\* Two clients and a clock of two values, so that the second accept can be rate
\* limited or not; no symmetry, as LoginEnds is a liveness property.
\* CHECK_DEADLOCK FALSE: a client whose descriptor was lost may wait for ever.
SPECIFICATION LoginSpec
CONSTANTS
  Fd = {f1, f2}
  IP = {ip1}
  MaxPlayerCount = 1
  MaxConcurrentAccount = 2
  RateLimit = 0
  CompressionOn = TRUE
  OnlineMode = TRUE
  LoginToken = {t1, t2}
  PingToken = {q1}
  NoToken = NoToken
  MaxTime = 1
  Nobody = Nobody
INVARIANTS
  ModeAgreement
  TokensAgree
  KickedNeverCounted
PROPERTY
  LoginEnds
CHECK_DEADLOCK FALSE
