\* An expired ban stands before one that is in force.
SPECIFICATION Spec
CONSTANTS
  p1 = p1
  p2 = p2
  Player = {p1, p2}
  Nobody = Nobody
  Peers <- MCPlayers
  Torn = Torn
  Thread = {t1, t2}
  Idle = Idle
  ModeratorKeys <- MCKeys
  Files <- NoFile
  Duration = {1}
  MaxBans = 3
  MaxTime = 1
INVARIANT BannedKeptOut
