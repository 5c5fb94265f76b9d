---------------------------- MODULE MCZincServer ----------------------------
(***************************************************************************)
(* Model-checking instances of ZincServer.  Descriptors, addresses and     *)
(* login tokens are interchangeable.                                       *)
(***************************************************************************)
EXTENDS ZincServer, TLC

Symmetry == Permutations(Fd) \cup Permutations(IP) \cup Permutations(LoginToken)

\* Peers that connect and leave without a word: what the accounting of
\* onAccept and onEvent alone does, on more descriptors.
QuietNext ==
  \/ \E fd \in Fd, ip \in IP : onAccept(fd, ip)
  \/ \E fd \in Fd : onEvent(fd)
  \/ Tick
  \/ Restart

QuietSpec == Init /\ [][QuietNext]_vars
=============================================================================
