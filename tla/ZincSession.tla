---------------------------- MODULE ZincSession ----------------------------
(***************************************************************************)
(* What the front end promises the rest of the server about its            *)
(* connections: each comes as a visitor, becomes a player at most once,    *)
(* leaves from either stage, and the number of players that is shown and   *)
(* compared with the limit is at every moment the number of players there  *)
(* are.  ZincServer implements this specification.                         *)
(***************************************************************************)
EXTENDS FiniteSets

CONSTANT Fd

VARIABLES stage, players

vars == <<stage, players>>

Stage == {"away", "visitor", "player"}

Count == players = Cardinality({fd \in Fd : stage[fd] = "player"})

Init ==
  /\ stage = [fd \in Fd |-> "away"]
  /\ Count

Move(fd, from, to) ==
  /\ stage[fd] \in from
  /\ stage' = [stage EXCEPT ![fd] = to]

Join(fd)    == Move(fd, {"away"}, "visitor")
Promote(fd) == Move(fd, {"visitor"}, "player")
Leave(fd)   == Move(fd, {"visitor", "player"}, "away")

\* The process died: everyone is gone at once.
Crash == stage' = [fd \in Fd |-> "away"]

Next ==
  /\ \/ \E fd \in Fd : Join(fd) \/ Promote(fd) \/ Leave(fd)
     \/ Crash
  /\ players' = Cardinality({fd \in Fd : stage'[fd] = "player"})

Spec == Init /\ [][Next]_vars
=============================================================================
