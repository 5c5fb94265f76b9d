------------------------------ MODULE ZincBans ------------------------------
(***************************************************************************)
(* The ban list of ZincConfig: the ban and unban functions, the detached   *)
(* threads that lift a ban, the check of CONFIG INFO, and banlist.json,    *)
(* read, truncated and written again when the process starts and never     *)
(* after.  The process may die between any two steps.                      *)
(*                                                                         *)
(* A player stands for a name, a UUID and an address.  A ban is found by   *)
(* any of them; those it does not carry are empty.  Every access to the    *)
(* list is under m_banMutex, so each is one atomic action.                 *)
(***************************************************************************)
EXTENDS Integers, Sequences, FiniteSets, Functions

CONSTANTS
  Player,          \* players, and the addresses they come from
  Peers,           \* what the peers that get to CONFIG INFO say they are
  Nobody,          \* the empty name, the nil UUID
  Thread,          \* detached unban threads that can be alive at once
  Idle,            \* a thread that does not exist
  ModeratorKeys,   \* what moderators ban by
  Files,           \* contents of banlist.json at the first start
  Torn,            \* what a death in the middle of writing leaves of it
  Duration,        \* lengths of temporary bans, and what m_time may hold unset
  MaxBans,         \* bound on the length of the list
  MaxTime          \* bound on the clock

\* Addresses: as a moderator or a file writes them, and as getIP() returns
\* them, padded with NULs to INET6_ADDRSTRLEN.
Ip       == (Player \cup {Nobody}) \X {"written", "padded"}
NoIp     == <<Nobody, "written">>
getIP(p) == <<p.ip, "padded">>

\* LOGIN START takes an empty name, and LOGIN ACK none at all.
Peer   == [name : Player \cup {Nobody}, uuid : Player \cup {Nobody}, ip : Player]
NoPeer == [name |-> Nobody, uuid |-> Nobody, ip |-> Nobody]

\* What a ban is found and lifted by.
Key == [by : {"name", "uuid"}, of : Player \cup {Nobody}] \cup [by : {"ip"}, of : Ip]

\* Only IP bans have an address.
Ban == {b \in [m_isIpBan : BOOLEAN, m_playerIp : Ip, m_playerName : Player \cup {Nobody},
               m_playerUUID : Player \cup {Nobody}, m_banTime : 0..MaxTime,
               m_isTemporaryban : BOOLEAN, m_time : Duration,
               m_banId : {"drawn", "empty"}] : ~b.m_isIpBan => b.m_playerIp = NoIp}

\* An entry of banlist.json; timed: it has a "time".  Only IP bans have an "ip".
Entry(ips) == [ip : ips, name : Player \cup {Nobody}, uuid : Player \cup {Nobody},
               from : 0..MaxTime, timed : BOOLEAN, time : Duration]
File == [ipbans : Seq(Entry(Ip)), bans : Seq(Entry({NoIp}))]

\* What readJSONFile makes of a missing and of an empty file: {}.
EmptyFile == [ipbans |-> <<>>, bans |-> <<>>]

ASSUME PlayerAssumption == Nobody \notin Player /\ Idle \notin Key
ASSUME PeerAssumption == Peers \subseteq Peer
ASSUME KeyAssumption == ModeratorKeys \subseteq Key
ASSUME FileAssumption == Files \subseteq File /\ Torn \notin File
ASSUME BoundAssumption ==
  MaxTime \in Nat /\ MaxBans \in Nat /\ Duration \subseteq Nat /\ Duration # {}

VARIABLES
  stage,           \* how far the process has come: load() step by step, or "run"
  m_bans,          \* ZincConfig::m_bans
  unbanning,       \* the key each detached thread was started with
  banlist,         \* banlist.json
  m_onlineMode,
  now,             \* time(nullptr)
  verdict,         \* what the last CONFIG INFO decided
  issued,          \* history: bans loaded or set by this process
  lifted           \* history: keys its unban threads were started with

vars == <<stage, m_bans, unbanning, banlist, m_onlineMode, now, verdict, issued, lifted>>

NoVerdict == [peer |-> NoPeer, refused |-> FALSE]

\* The one way to list a finite set of positions in their order.
Listings(K) ==
  {f \in Bijection(1..Cardinality(K), K) : \A i, j \in DOMAIN f : i < j => f[i] < f[j]}

-----------------------------------------------------------------------------
(* load() and save().                                                      *)

\* BanData is not initialised: without a "time" m_isTemporaryban and m_time are
\* what the stack held.
ReadsUnset(e, isIp) ==                            \* faulty: the flag is not set
  {[m_isIpBan |-> isIp, m_playerIp |-> IF isIp THEN e.ip ELSE NoIp,
    m_playerName |-> e.name, m_playerUUID |-> e.uuid, m_banTime |-> e.from,
    m_isTemporaryban |-> temporary, m_time |-> e.time, m_banId |-> "drawn"] :
     temporary \in BOOLEAN}
Reads(e, isIp) ==
  {[m_isIpBan |-> isIp, m_playerIp |-> IF isIp THEN e.ip ELSE NoIp,
    m_playerName |-> e.name, m_playerUUID |-> e.uuid, m_banTime |-> e.from,
    m_isTemporaryban |-> until[1], m_time |-> until[2], m_banId |-> "drawn"] :
     until \in IF e.timed THEN {<<TRUE, e.time>>} ELSE BOOLEAN \X Duration}

\* The IP bans come first.
loadBanList(file) ==
  LET n == Len(file.ipbans)
      Loaded(i) == IF i <= n THEN Reads(file.ipbans[i], TRUE)
                   ELSE Reads(file.bans[i - n], FALSE)
      N == 1..(n + Len(file.bans))
  IN  {bans \in [N -> UNION {Loaded(i) : i \in N}] : \A i \in N : bans[i] \in Loaded(i)}

Written(b) ==
  [ip |-> b.m_playerIp, name |-> b.m_playerName, uuid |-> b.m_playerUUID,
   from |-> b.m_banTime, timed |-> b.m_isTemporaryban, time |-> b.m_time]

saveBanList(bans) ==
  LET Writes(f) == [i \in DOMAIN f |-> Written(bans[f[i]])]
      IpBans    == {i \in DOMAIN bans : bans[i].m_isIpBan}
  IN  {[ipbans |-> Writes(f), bans |-> Writes(g)] :
         f \in Listings(IpBans), g \in Listings(DOMAIN bans \ IpBans)}

Init ==
  /\ stage = "read"
  /\ m_bans = <<>>
  /\ banlist \in Files
  /\ unbanning = [t \in Thread |-> Idle]
  /\ m_onlineMode \in BOOLEAN
  /\ now = 0
  /\ verdict = NoVerdict
  /\ issued = {}
  /\ lifted = {}

\* The start, before any other thread runs: what is in the file becomes m_bans.
load ==
  /\ stage = "read" /\ banlist # Torn
  /\ m_bans' \in loadBanList(banlist)
  /\ issued' = Range(m_bans')
  /\ stage' = "save"
  /\ UNCHANGED <<unbanning, banlist, m_onlineMode, now, verdict, lifted>>

\* json::parse throws on half a file; main() catches it and returns.
loadThrows ==
  /\ stage = "read" /\ banlist = Torn
  /\ stage' = "ended"
  /\ UNCHANGED <<m_bans, unbanning, banlist, m_onlineMode, now, verdict, issued, lifted>>

\* writeJSONFile: to open the file is to truncate it ...
openBanList ==
  /\ stage = "save"
  /\ banlist' = EmptyFile
  /\ stage' = "write"
  /\ UNCHANGED <<m_bans, unbanning, m_onlineMode, now, verdict, issued, lifted>>

\* ... and then it is written.
writeBanList ==
  /\ stage = "write"
  /\ banlist' \in saveBanList(m_bans)
  /\ stage' = "run"
  /\ UNCHANGED <<m_bans, unbanning, m_onlineMode, now, verdict, issued, lifted>>

\* The process dies wherever it is, and the next one finds what it left on disk.
Restart ==
  /\ stage' = "read"
  /\ m_bans' = <<>>
  /\ banlist' \in IF stage = "write" THEN {banlist, Torn} ELSE {banlist}
  /\ unbanning' = [t \in Thread |-> Idle]
  /\ issued' = {}
  /\ lifted' = {}
  /\ verdict' = NoVerdict
  /\ UNCHANGED <<m_onlineMode, now>>

Tick ==
  /\ now < MaxTime
  /\ now' = now + 1
  /\ verdict' = NoVerdict
  /\ UNCHANGED <<stage, m_bans, unbanning, banlist, m_onlineMode, issued, lifted>>

-----------------------------------------------------------------------------
(* Bans are set and lifted.                                                *)

\* ban, tempBan, banIp, tempBanIp: the permanent ones leave m_time unset.
NewBan(key, temporary, time) ==
  [m_isIpBan |-> key.by = "ip",
   m_playerIp |-> IF key.by = "ip" THEN key.of ELSE NoIp,
   m_playerName |-> IF key.by = "name" THEN key.of ELSE Nobody,
   m_playerUUID |-> IF key.by = "uuid" THEN key.of ELSE Nobody,
   m_banTime |-> now, m_isTemporaryban |-> temporary, m_time |-> time,
   m_banId |-> "drawn"]

ban(key, temporary, time) ==
  LET b == NewBan(key, temporary, time)
  IN  /\ stage = "run" /\ Len(m_bans) < MaxBans
      /\ m_bans' = Append(m_bans, b)
      /\ issued' = issued \cup {b}
      /\ verdict' = NoVerdict
      /\ UNCHANGED <<stage, unbanning, banlist, m_onlineMode, now, lifted>>

\* unban and unbanIp only start a thread.
StartThread(key) ==
  /\ \E t \in Thread : unbanning[t] = Idle /\ unbanning' = [unbanning EXCEPT ![t] = key]
  /\ lifted' = lifted \cup {key}

unban(key) ==
  /\ stage = "run"
  /\ StartThread(key)
  /\ verdict' = NoVerdict
  /\ UNCHANGED <<stage, m_bans, banlist, m_onlineMode, now, issued>>

\* The predicates of _unbanName, _unbanUUID and _unbanIp.
Lifts(key, b) ==
  \/ key.by = "name" /\ b.m_playerName = key.of
  \/ key.by = "uuid" /\ b.m_playerUUID = key.of
  \/ key.by = "ip" /\ b.m_isIpBan /\ b.m_playerIp = key.of

\* What a BanData is left as when it has been moved from.
MovedFrom(b) ==
  [b EXCEPT !.m_playerIp = NoIp, !.m_playerName = Nobody, !.m_banId = "empty"]

\* std::remove_if without erase: the bans that stay move to the front; behind
\* them those to be removed stay as they are, the others moved from.
RemovedErasing(bans, f) ==                        \* faulty: erases one too many
  [r \in 1..(Len(f) - 1) |-> bans[f[r]]]
Removed(bans, f) ==
  [r \in DOMAIN bans |->
     IF r \in DOMAIN f THEN bans[f[r]]
     ELSE IF r \in Range(f) THEN MovedFrom(bans[r]) ELSE bans[r]]

\* The body of an unban thread; nothing orders it with anything else.
_unban(t) ==
  /\ stage = "run" /\ unbanning[t] # Idle
  /\ \E f \in Listings({i \in DOMAIN m_bans : ~Lifts(unbanning[t], m_bans[i])}) :
       m_bans' = Removed(m_bans, f)
  /\ unbanning' = [unbanning EXCEPT ![t] = Idle]
  /\ verdict' = NoVerdict
  /\ UNCHANGED <<stage, banlist, m_onlineMode, now, issued, lifted>>

-----------------------------------------------------------------------------
(* CONFIG INFO.                                                            *)

Matches(p, b) ==
  \/ ~m_onlineMode /\ b.m_playerName = p.name
  \/ m_onlineMode /\ b.m_playerUUID = p.uuid
  \/ b.m_isIpBan /\ b.m_playerIp = getIP(p)

\* sendBanMessage: a ban set in the future is shown as a permanent one.
ExpiredLate(b) ==                                 \* faulty: > for >=
  /\ b.m_isTemporaryban
  /\ now - b.m_banTime >= 0 /\ now - b.m_banTime > b.m_time
Expired(b) ==
  /\ b.m_isTemporaryban
  /\ now - b.m_banTime >= 0 /\ now - b.m_banTime >= b.m_time

\* What sendBanMessage lifts an expired ban by.
LiftKeyMixed(b) ==                                \* faulty: no address for IP bans
  [by |-> IF b.m_isIpBan THEN "ip" ELSE "uuid", of |-> b.m_playerUUID]
LiftKey(b) ==
  IF b.m_isIpBan THEN [by |-> "ip", of |-> b.m_playerIp]
  ELSE IF m_onlineMode THEN [by |-> "uuid", of |-> b.m_playerUUID]
  ELSE [by |-> "name", of |-> b.m_playerName]

\* The first match decides.
ConfigInfo(p) ==
  LET found == {i \in DOMAIN m_bans : Matches(p, m_bans[i])}
  IN  /\ stage = "run"
      /\ \/ /\ found = {}
            /\ verdict' = [peer |-> p, refused |-> FALSE]
            /\ UNCHANGED <<unbanning, lifted>>
         \/ \E first \in found :
              /\ \A i \in found : first <= i
              /\ verdict' = [peer |-> p, refused |-> ~Expired(m_bans[first])]
              /\ IF Expired(m_bans[first]) THEN StartThread(LiftKey(m_bans[first]))
                 ELSE UNCHANGED <<unbanning, lifted>>
      /\ UNCHANGED <<stage, m_bans, banlist, m_onlineMode, now, issued>>

Next ==
  \/ \E key \in ModeratorKeys, temporary \in BOOLEAN, time \in Duration :
       ban(key, temporary, time)
  \/ \E key \in ModeratorKeys : unban(key)
  \/ \E t \in Thread : _unban(t)
  \/ \E p \in Peers : ConfigInfo(p)
  \/ Tick
  \/ load \/ loadThrows \/ openBanList \/ writeBanList
  \/ Restart

Spec == Init /\ [][Next]_vars

-----------------------------------------------------------------------------
(* Properties.                                                             *)

TypeOK ==
  /\ stage \in {"read", "save", "write", "run", "ended"}
  /\ m_bans \in Seq(Ban)
  /\ unbanning \in [Thread -> Key \cup {Idle}]
  /\ banlist \in File \cup {Torn}
  /\ m_onlineMode \in BOOLEAN
  /\ now \in 0..MaxTime
  /\ verdict \in [peer : Peers \cup {NoPeer}, refused : BOOLEAN]
  /\ issued \subseteq Ban /\ lifted \subseteq Key

\* Lifting one ban leaves the others: a ban that no unban of this process was
\* meant for is on the list in full, however the unban threads and their
\* remove_if overtook each other and the bans set meanwhile.
OthersKept ==
  \A b \in issued : (\A key \in lifted : ~Lifts(key, b)) => b \in Range(m_bans)

InForce(b) == b.m_isTemporaryban => now < b.m_banTime + b.m_time

\* CONFIG INFO refuses a peer only when a ban that this process loaded or set for
\* it is in force: the half-empty entries remove_if leaves behind the list do not
\* refuse anyone else, nor longer.  One kind of peer pays for them: in offline
\* mode whoever has given no name matches what has none, and is refused as long
\* as any ban, lifted or not, would be in force.
RefusalJustified ==
  verdict.refused =>
    \E b \in issued : /\ InForce(b)
                      /\ \/ Matches(verdict.peer, b)
                         \/ ~m_onlineMode /\ verdict.peer.name = Nobody

\* A player with a ban in force on the list is not let in by CONFIG INFO.
BannedKeptOut ==
  verdict.peer \in Peers /\ ~verdict.refused =>
    \A i \in DOMAIN m_bans : Matches(verdict.peer, m_bans[i]) => ~InForce(m_bans[i])

Timed(entries) == {e \in entries : e.timed}

\* The timed entries that a next start would find, or that the process holds which
\* has truncated the file to write them.
OnRecord ==
  IF stage = "write" THEN Timed({Written(b) : b \in Range(m_bans)})
  ELSE IF banlist = Torn THEN {}
  ELSE Timed(Range(banlist.ipbans) \cup Range(banlist.bans))

\* Every start writes back what it read: over any number of restarts a ban with a
\* time keeps its entry in banlist.json, unless a process dies between truncating
\* the file and having written it.  Then, and only then, it is lost.
TimedBansPersist ==
  [][~(stage = "write" /\ stage' = "read") => OnRecord \subseteq OnRecord']_vars
=============================================================================
