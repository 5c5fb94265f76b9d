----------------------------- MODULE MCZincBans -----------------------------
(***************************************************************************)
(* Model-checking instances of ZincBans.                                   *)
(***************************************************************************)
EXTENDS ZincBans, TLC

CONSTANTS p1, p2

\* One of each way to ban: the first bites in online mode, the second in
\* offline mode, the third in both.
MCKeys == {[by |-> "uuid", of |-> p1], [by |-> "name", of |-> p2],
           [by |-> "ip", of |-> <<p1, "padded">>]}

MCEntry(p, timed) ==
  [ip |-> <<p, "written">>, name |-> p, uuid |-> p, from |-> 0, timed |-> timed, time |-> 1]

\* The address of an entry that is no IP ban.
MCBan(p, timed) == [MCEntry(p, timed) EXCEPT !.ip = NoIp]

\* Two players as they are, and a peer whose name and UUID were never read: it
\* sent LOGIN ACK without LOGIN START.
MCPlayers == {[name |-> p, uuid |-> p, ip |-> p] : p \in Player}
MCPeers   == MCPlayers \cup {[name |-> Nobody, uuid |-> Nobody, ip |-> p2]}

NoFile == {EmptyFile}

\* No file; a permanent ban; an IP ban and a ban that both carry a time.
MCFiles == NoFile \cup
           {[ipbans |-> <<>>, bans |-> <<MCBan(p1, FALSE)>>],
            [ipbans |-> <<MCEntry(p1, TRUE)>>,
             bans |-> <<MCBan(p2, TRUE)>>]}

Symmetry == Permutations(Thread)
=============================================================================
