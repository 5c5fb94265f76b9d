\* Two peers in every combination of handlers; the player limit is reached by one.
\* CHECK_DEADLOCK FALSE: the server may really come to a stop, once failed
\* bufferevent creations have used up every descriptor.
SPECIFICATION Spec
CONSTANTS
  Fd = {f1, f2}
  IP = {ip1, ip2}
  MaxPlayerCount = 1
  MaxConcurrentAccount = 1
  RateLimit = 0
  CompressionOn = TRUE
  OnlineMode = TRUE
  LoginToken = {t1, t2}
  PingToken = {q1}
  NoToken = NoToken
  MaxTime = 1
SYMMETRY Symmetry
INVARIANTS
  TypeOK
  OnlineCountExact
  AdmittedOnly
  CountedIffPastLogin
PROPERTY
  SessionSpec
CHECK_DEADLOCK FALSE
