\* Four descriptors against a limit of two connections per address: one address
\* holds tolerated, rate-limited and over-limit connections at once, and the
\* clock outruns the rate limit twice.
\* CHECK_DEADLOCK FALSE: the server may really come to a stop, once failed
\* bufferevent creations have used up every descriptor.
SPECIFICATION QuietSpec
CONSTANTS
  Fd = {f1, f2, f3, f4}
  IP = {ip1, ip2}
  MaxPlayerCount = 1
  MaxConcurrentAccount = 2
  RateLimit = 1
  CompressionOn = TRUE
  OnlineMode = TRUE
  LoginToken = {t1, t2}
  PingToken = {q1}
  NoToken = NoToken
  MaxTime = 4
SYMMETRY Symmetry
INVARIANTS
  AccountsExact
  RateLimitSpacing
  ConcurrentLimit
  FdsTracked
CHECK_DEADLOCK FALSE
