\* Two players, two unban threads alive at once, three entries on the list, a
\* clock that reaches the end of every temporary ban set at the start.
SPECIFICATION Spec
CONSTANTS
  p1 = p1
  p2 = p2
  Player = {p1, p2}
  Nobody = Nobody
  Peers <- MCPeers
  Torn = Torn
  Thread = {t1, t2}
  Idle = Idle
  ModeratorKeys <- MCKeys
  Files <- MCFiles
  Duration = {1}
  MaxBans = 3
  MaxTime = 1
SYMMETRY Symmetry
INVARIANTS
  TypeOK
  OthersKept
  RefusalJustified
PROPERTY
  TimedBansPersist
