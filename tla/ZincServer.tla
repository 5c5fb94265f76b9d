----------------------------- MODULE ZincServer -----------------------------
(***************************************************************************)
(* The Minecraft front end of Zinc: the connection table, the admission    *)
(* control of onAccept/addClient, the packet handlers of onRead, the       *)
(* removal in onEvent and the online-player counter.                       *)
(*                                                                         *)
(* All callbacks run on one libevent thread, so each is one atomic action. *)
(* An onRead action is the handling of ONE complete, well-formed packet;   *)
(* how packets are cut out of the byte stream is ZincFraming's subject.    *)
(* The peers are unconstrained here: any handler of the current state may  *)
(* be called, in any order.  ZincLogin composes this module with peers     *)
(* that follow the protocol.                                               *)
(*                                                                         *)
(* The process may die: removeClient frees a bufferevent twice, once by    *)
(* close() and once in ~TCPConnection, and an unregistered plugin channel  *)
(* or cookie calls an empty std::function.  The first may or may not kill  *)
(* the process, the second always does.  Its memory is then gone.          *)
(***************************************************************************)
EXTENDS Integers, Sequences, FiniteSets, Functions

CONSTANTS
  Fd,                    \* socket descriptors the kernel hands out
  IP,                    \* peer addresses
  MaxPlayerCount,        \* m_core.m_network.m_maxPlayerCount
  MaxConcurrentAccount,  \* m_core.m_security.m_maxConcurrentAccount
  RateLimit,             \* m_core.m_security.m_rateLimit, in clock ticks
  CompressionOn,         \* m_core.m_network.m_threshold > 0
  OnlineMode,            \* m_core.m_security.m_onlineMode
  LoginToken,            \* values of the random 64-byte verify token
  PingToken,             \* values of the random 4-byte ping payload
  NoToken,               \* the empty byte vector
  MaxTime                \* bound on the clock

ASSUME FdAssumption == IsFiniteSet(Fd)
ASSUME LimitAssumption ==
  /\ MaxPlayerCount \in Nat /\ MaxConcurrentAccount \in Nat
  /\ RateLimit \in Nat /\ MaxTime \in Nat
ASSUME ModeAssumption == CompressionOn \in BOOLEAN /\ OnlineMode \in BOOLEAN
ASSUME TokenAssumption ==
  LoginToken \cap PingToken = {} /\ NoToken \notin LoginToken \cup PingToken

VARIABLES
  running,               \* the process is alive
  now,                   \* time(nullptr)
  openFds,               \* descriptors open in the process
  m_clients,             \* fd -> ZincConnection, a partial function
  m_rateLimiterData,     \* ip -> time of the last unlimited accept, partial
  m_concurrentAccounts,  \* ip -> number of its connections, partial
  m_onlinePlayers,
  sent                   \* packets the last callback wrote, per connection

vars == <<running, now, openFds, m_clients, m_rateLimiterData,
          m_concurrentAccounts, m_onlinePlayers, sent>>

State   == {"Handshake", "Status", "Login", "Transfer", "Config", "Play"}
Version == {"unset", "older", "latest", "newer"}

\* acceptedAt is a history field: the time of the accept.
Connection ==
  [m_ip : IP, m_state : State, m_kickAtLogin : 0..2, m_loginFinished : BOOLEAN,
   m_protocolVersion : Version,
   m_verifyToken : LoginToken \cup PingToken \cup {NoToken},
   m_isCompressed : BOOLEAN, m_isEncrypted : BOOLEAN,
   m_lastKeepAlive : {"uninitialized", "sent", "answered"}, acceptedAt : Nat]

PacketType == {"StatusResponse", "Echo", "SetCompression", "EncryptionRequest",
               "LoginSuccess", "FeatureFlags", "KeepAlive", "Ping", "KnownPacks",
               "RegistryData", "PluginMessage", "Disconnect"}

\* A packet as send() frames it: in the modes its connection is in.
WirePacket == [type : PacketType, compressed : BOOLEAN, encrypted : BOOLEAN]
Wire(c, type) ==
  [type |-> type, compressed |-> c.m_isCompressed, encrypted |-> c.m_isEncrypted]

EmptyMap == [x \in {} |-> x]
Put(f, k, v) == [x \in DOMAIN f \cup {k} |-> IF x = k THEN v ELSE f[x]]
KeepEntry(f, k) == f                              \* faulty: erase forgotten
Drop(f, k) == Restrict(f, DOMAIN f \ {k})

Send(fd, packets) == sent' = [f \in Fd |-> IF f = fd THEN packets ELSE <<>>]
Silent == sent' = [f \in Fd |-> <<>>]

-----------------------------------------------------------------------------
(* Process life: the memory of a fresh process, death and restart.         *)

Init ==
  /\ running = TRUE
  /\ now = 0
  /\ openFds = {}
  /\ m_clients = EmptyMap
  /\ m_rateLimiterData = EmptyMap
  /\ m_concurrentAccounts = EmptyMap
  /\ m_onlinePlayers = 0
  /\ sent = [f \in Fd |-> <<>>]

\* Death of the process: what it held is lost, only the clock goes on.
Terminate ==
  /\ running' = FALSE
  /\ openFds' = {}
  /\ m_clients' = EmptyMap
  /\ m_rateLimiterData' = EmptyMap
  /\ m_concurrentAccounts' = EmptyMap
  /\ m_onlinePlayers' = 0
  /\ Silent
  /\ UNCHANGED now

\* main() again: the globals start from what Terminate left.
Restart ==
  /\ ~running
  /\ running' = TRUE
  /\ UNCHANGED <<now, openFds, m_clients, m_rateLimiterData, m_concurrentAccounts,
                 m_onlinePlayers, sent>>

Tick ==
  /\ now < MaxTime
  /\ now' = now + 1
  /\ Silent
  /\ UNCHANGED <<running, openFds, m_clients, m_rateLimiterData,
                 m_concurrentAccounts, m_onlinePlayers>>

-----------------------------------------------------------------------------
(* Accept and removal.                                                     *)

isConnected(fd) == fd \in DOMAIN m_clients

\* A map's operator[]: an absent count reads as 0.
Accounts(ip) == IF ip \in DOMAIN m_concurrentAccounts THEN m_concurrentAccounts[ip] ELSE 0

RateLimitedOffByOne(ip) ==                        \* faulty: <= for <
  ip \in DOMAIN m_rateLimiterData /\ ~(m_rateLimiterData[ip] + RateLimit <= now)
RateLimited(ip) ==
  ip \in DOMAIN m_rateLimiterData /\ ~(m_rateLimiterData[ip] + RateLimit < now)

\* The two checks run one after the other: the account limit has the last word.
KickVerdictBeforeCount(ip) ==                     \* faulty: compares before counting
  IF Accounts(ip) > MaxConcurrentAccount THEN 2 ELSE IF RateLimited(ip) THEN 1 ELSE 0
KickVerdictSum(ip) ==                             \* faulty: the two marks add up
  (IF Accounts(ip) + 1 > MaxConcurrentAccount THEN 2 ELSE 0) + (IF RateLimited(ip) THEN 1 ELSE 0)
KickVerdict(ip) ==
  IF Accounts(ip) + 1 > MaxConcurrentAccount THEN 2 ELSE IF RateLimited(ip) THEN 1 ELSE 0

NewConnection(ip, kick) ==
  [m_ip |-> ip, m_state |-> "Handshake", m_kickAtLogin |-> kick, m_loginFinished |-> FALSE,
   m_protocolVersion |-> "unset", m_verifyToken |-> NoToken,
   m_isCompressed |-> FALSE, m_isEncrypted |-> FALSE,
   m_lastKeepAlive |-> "uninitialized", acceptedAt |-> now]

addClient(fd, ip) ==
  IF isConnected(fd)
  THEN UNCHANGED <<m_clients, m_rateLimiterData, m_concurrentAccounts>>
  ELSE /\ m_rateLimiterData' = IF RateLimited(ip) THEN m_rateLimiterData
                               ELSE Put(m_rateLimiterData, ip, now)
       /\ m_concurrentAccounts' = Put(m_concurrentAccounts, ip, Accounts(ip) + 1)
       /\ m_clients' = Put(m_clients, fd, NewConnection(ip, KickVerdict(ip)))

\* The kernel hands out a descriptor that is not open.  When no bufferevent
\* can be made for it, onAccept returns and the descriptor stays open for good.
onAccept(fd, ip) ==
  /\ running
  /\ fd \notin openFds
  /\ openFds' = openFds \cup {fd}
  /\ \/ addClient(fd, ip)
     \/ UNCHANGED <<m_clients, m_rateLimiterData, m_concurrentAccounts>>
  /\ Silent
  /\ UNCHANGED <<running, now, m_onlinePlayers>>

AccountsAfterKept(ip) == Accounts(ip)             \* faulty: no decrement
AccountsAfter(ip) == IF Accounts(ip) > 0 THEN Accounts(ip) - 1 ELSE 0

PlayersAfterAll(c) == m_onlinePlayers - 1         \* faulty: counts every connection
PlayersAfter(c) == IF c.m_loginFinished THEN m_onlinePlayers - 1 ELSE m_onlinePlayers

removeClient(fd) ==
  LET c == m_clients[fd]
      n == AccountsAfter(c.m_ip)
  IN  /\ m_concurrentAccounts' = IF n = 0 THEN Drop(m_concurrentAccounts, c.m_ip)
                                 ELSE Put(m_concurrentAccounts, c.m_ip, n)
      /\ m_onlinePlayers' = PlayersAfter(c)
      /\ openFds' = openFds \ {fd}
      /\ m_clients' = Drop(m_clients, fd)

\* EOF or ERROR on a connection (no timeout is ever set on a bufferevent).
onEvent(fd) ==
  /\ running
  /\ isConnected(fd)
  /\ \/ removeClient(fd) /\ Silent /\ UNCHANGED <<running, now, m_rateLimiterData>>
     \/ Terminate

-----------------------------------------------------------------------------
(* onRead, one action per packet of each state.                            *)

Read(fd, state) == running /\ isConnected(fd) /\ m_clients[fd].m_state = state

\* What every handler but the accounting ones leaves alone.
server == <<running, now, openFds, m_rateLimiterData, m_concurrentAccounts>>

Update(fd, c) == m_clients' = [m_clients EXCEPT ![fd] = c]

\* A reply to a connection the handler does not change.
Reply(fd, types) ==
  /\ Send(fd, [i \in DOMAIN types |-> Wire(m_clients[fd], types[i])])
  /\ UNCHANGED <<m_clients, m_onlinePlayers, server>>

\* sendLoginError and sendDisconnect write a packet and leave the connection up.
sendDisconnect(fd) == Reply(fd, <<"Disconnect">>)

\* The requested state is a raw int cast to State; only three values stand.
NextStateRaw(intent) == intent                    \* faulty: the cast is trusted
NextState(intent) ==
  IF intent \in {"Status", "Login", "Transfer"} THEN intent ELSE "Status"

Handshake(fd, version, intent) ==
  /\ Read(fd, "Handshake")
  /\ Update(fd, [m_clients[fd] EXCEPT !.m_protocolVersion = version,
                                      !.m_state = NextState(intent)])
  /\ Silent
  /\ UNCHANGED <<m_onlinePlayers, server>>

Status(fd) ==
  /\ Read(fd, "Status")
  /\ \/ Reply(fd, <<"StatusResponse">>)
     \/ Reply(fd, <<"Echo">>)

\* The checks of LOGIN START, in the order of the code.
AdmitsKicked(c, nameFits) ==                      \* faulty: no kick check
  m_onlinePlayers < MaxPlayerCount /\ c.m_protocolVersion = "latest" /\ nameFits
Admits(c, nameFits) ==
  /\ c.m_kickAtLogin = 0
  /\ m_onlinePlayers < MaxPlayerCount
  /\ c.m_protocolVersion = "latest"
  /\ nameFits

\* setupCompression announces itself in the old mode, then switches.
setupCompression(c) == [c EXCEPT !.m_isCompressed = CompressionOn \/ @]
CompressionNotice(c) == IF CompressionOn THEN <<Wire(c, "SetCompression")>> ELSE <<>>

LoginStart(fd, nameFits) ==
  LET c == m_clients[fd]
      compressed == setupCompression(c)
  IN  /\ Read(fd, "Login")
      /\ IF Admits(c, nameFits)
         THEN \E token \in LoginToken \ {c.m_verifyToken} :
                /\ Update(fd, [compressed EXCEPT !.m_verifyToken = token])
                /\ Send(fd, CompressionNotice(c) \o <<Wire(compressed, "EncryptionRequest")>>)
                /\ UNCHANGED <<m_onlinePlayers, server>>
         ELSE sendDisconnect(fd)

setupEncryptionKeysOnly(c) == c                   \* faulty: m_isEncrypted left FALSE
setupEncryption(c) == [c EXCEPT !.m_isEncrypted = TRUE]

\* token is what the peer's block decrypts to, nothing when decryption fails: it
\* then equals a token that was never drawn, or that an answer has cleared.
\* gotData says whether an attempt on the session service returned a profile.
EncryptionResponse(fd, token, gotData) ==
  LET c == m_clients[fd]
      secured == setupEncryption([c EXCEPT !.m_verifyToken = NoToken])
      verdict == IF OnlineMode /\ ~gotData THEN "Disconnect" ELSE "LoginSuccess"
  IN  /\ Read(fd, "Login")
      /\ IF token = c.m_verifyToken
         THEN /\ Update(fd, secured)
              /\ Send(fd, <<Wire(secured, verdict)>>)
              /\ UNCHANGED <<m_onlinePlayers, server>>
         ELSE sendDisconnect(fd)

\* No channel is ever open under the four-byte id the handler looks up: ids
\* have three bytes.  Every response is refused.
LoginPluginResponse(fd) == Read(fd, "Login") /\ sendDisconnect(fd)

\* Accepted at any point of the Login state.
LoginAck(fd) ==
  /\ Read(fd, "Login")
  /\ Update(fd, [m_clients[fd] EXCEPT !.m_state = "Config", !.m_loginFinished = TRUE])
  /\ m_onlinePlayers' = m_onlinePlayers + 1
  /\ Silent
  /\ UNCHANGED server

\* g_zincCookieResponseParsers is empty: the lookup makes an empty function.
CookieResponse(fd) ==
  /\ Read(fd, "Login") \/ Read(fd, "Config")
  /\ Terminate

\* banned: the connection matches a ban and sendBanMessage says it is in force.
ConfigInfo(fd, banned) ==
  LET c == m_clients[fd]
      probes == <<"FeatureFlags", "KeepAlive", "Ping", "KnownPacks", "RegistryData",
                  "Disconnect">>
  IN  /\ Read(fd, "Config")
      /\ IF banned
         THEN sendDisconnect(fd)
         ELSE \E ping \in PingToken :
                /\ Update(fd, [c EXCEPT !.m_verifyToken = ping, !.m_lastKeepAlive = "sent"])
                /\ Send(fd, [i \in DOMAIN probes |-> Wire(c, probes[i])])
                /\ UNCHANGED <<m_onlinePlayers, server>>

\* Only "minecraft:brand" has a handler; any other channel is an empty function.
PluginMessage(fd, channel) ==
  /\ Read(fd, "Config")
  /\ IF channel = "minecraft:brand" THEN Reply(fd, <<"PluginMessage">>) ELSE Terminate

ConfigAck(fd) ==
  /\ Read(fd, "Config")
  /\ Update(fd, [m_clients[fd] EXCEPT !.m_state = "Play"])
  /\ Silent
  /\ UNCHANGED <<m_onlinePlayers, server>>

\* matches: the echoed number equals m_lastKeepAlive: indeterminate before
\* CONFIG INFO, the time it was sent after it, -1 after an answer.
KeepAliveClears(fd, matches) ==                   \* faulty: takes the ping token along
  /\ Read(fd, "Config")
  /\ Update(fd, [m_clients[fd] EXCEPT !.m_lastKeepAlive = "answered", !.m_verifyToken = NoToken])
  /\ Silent
  /\ UNCHANGED <<m_onlinePlayers, server>>
KeepAlive(fd, matches) ==
  LET c == m_clients[fd]
  IN  /\ Read(fd, "Config")
      /\ IF matches
         THEN /\ Update(fd, [c EXCEPT !.m_lastKeepAlive = "answered"])
              /\ Silent
              /\ UNCHANGED <<m_onlinePlayers, server>>
         ELSE sendDisconnect(fd)

Ping(fd, token) ==
  /\ Read(fd, "Config")
  /\ IF token = m_clients[fd].m_verifyToken THEN Reply(fd, <<>>) ELSE sendDisconnect(fd)

\* Every packet of Transfer and Play, and an unknown id elsewhere, does nothing.
Ignored(fd) ==
  /\ \E state \in State \ {"Status"} : Read(fd, state)
  /\ Reply(fd, <<>>)

onRead(fd) ==
  \/ \E version \in Version \ {"unset"}, intent \in State : Handshake(fd, version, intent)
  \/ Status(fd)
  \/ \E nameFits \in BOOLEAN : LoginStart(fd, nameFits)
  \/ \E token \in LoginToken \cup {NoToken}, gotData \in BOOLEAN :
       EncryptionResponse(fd, token, gotData)
  \/ LoginPluginResponse(fd)
  \/ LoginAck(fd)
  \/ CookieResponse(fd)
  \/ \E banned \in BOOLEAN : ConfigInfo(fd, banned)
  \/ \E channel \in {"minecraft:brand", "other"} : PluginMessage(fd, channel)
  \/ ConfigAck(fd)
  \/ \E matches \in BOOLEAN : KeepAlive(fd, matches)
  \/ \E token \in PingToken : Ping(fd, token)
  \/ Ignored(fd)

Next ==
  \/ \E fd \in Fd, ip \in IP : onAccept(fd, ip)
  \/ \E fd \in Fd : onEvent(fd)
  \/ \E fd \in Fd : onRead(fd)
  \/ Tick
  \/ Restart

Spec == Init /\ [][Next]_vars

-----------------------------------------------------------------------------
(* Properties.                                                             *)

\* Every variable keeps the shape the declarations of ZincServer.h and
\* ZincConnection.h give it.
TypeOK ==
  /\ running \in BOOLEAN
  /\ now \in 0..MaxTime
  /\ openFds \subseteq Fd
  /\ DOMAIN m_clients \subseteq Fd
  /\ m_clients \in [DOMAIN m_clients -> Connection]
  /\ DOMAIN m_rateLimiterData \subseteq IP
  /\ m_rateLimiterData \in [DOMAIN m_rateLimiterData -> 0..MaxTime]
  /\ DOMAIN m_concurrentAccounts \subseteq IP
  /\ m_concurrentAccounts \in [DOMAIN m_concurrentAccounts -> Nat \ {0}]
  /\ m_onlinePlayers \in Int
  /\ sent \in [Fd -> Seq(WirePacket)]

Online == {fd \in DOMAIN m_clients : m_clients[fd].m_loginFinished}
From(ip) == {fd \in DOMAIN m_clients : m_clients[fd].m_ip = ip}
Tolerated(ip) == {fd \in From(ip) : m_clients[fd].m_kickAtLogin # 2}

\* The player count shown and compared is the number of connections that
\* acknowledged their login: LOGIN ACK and removeClient keep it in step.
OnlineCountExact == m_onlinePlayers = Cardinality(Online)

\* m_concurrentAccounts counts the connections of each address, and has an
\* entry exactly for the addresses that have one (addClient, removeClient).
AccountsExact ==
  /\ DOMAIN m_concurrentAccounts = {ip \in IP : From(ip) # {}}
  /\ \A ip \in DOMAIN m_concurrentAccounts : m_concurrentAccounts[ip] = Cardinality(From(ip))

\* Two live connections of one address that LOGIN START will not refuse were
\* accepted more than RateLimit apart, whatever came and went in between.
RateLimitSpacing ==
  \A f, g \in DOMAIN m_clients :
    /\ f # g
    /\ m_clients[f].m_ip = m_clients[g].m_ip
    /\ m_clients[f].m_kickAtLogin = 0 /\ m_clients[g].m_kickAtLogin = 0
    => \/ m_clients[f].acceptedAt + RateLimit < m_clients[g].acceptedAt
       \/ m_clients[g].acceptedAt + RateLimit < m_clients[f].acceptedAt

\* At most MaxConcurrentAccount connections of an address are not marked as
\* over the account limit, although the mark is never taken back on removal.
ConcurrentLimit == \A ip \in IP : Cardinality(Tolerated(ip)) <= MaxConcurrentAccount

\* A connection holds a login token only when LOGIN START let it through: it
\* carries no kick mark, speaks the latest protocol and is compressed when
\* compression is configured, however long ago each of these was decided.
AdmittedOnly ==
  \A fd \in DOMAIN m_clients :
    LET c == m_clients[fd]
    IN  c.m_verifyToken \in LoginToken
        => /\ c.m_kickAtLogin = 0
           /\ c.m_protocolVersion = "latest"
           /\ c.m_isCompressed = CompressionOn

\* The states behind login are entered through LOGIN ACK alone, which counts
\* the player: no handshake intent leads there.
CountedIffPastLogin ==
  \A fd \in DOMAIN m_clients :
    m_clients[fd].m_loginFinished <=> m_clients[fd].m_state \in {"Config", "Play"}

\* The table as the rest of the server sees it: who is there and who plays.
StageOf(fd) ==
  IF fd \notin DOMAIN m_clients THEN "away"
  ELSE IF m_clients[fd].m_loginFinished THEN "player" ELSE "visitor"

Session == INSTANCE ZincSession
             WITH stage <- [fd \in Fd |-> StageOf(fd)], players <- m_onlinePlayers

\* Whatever its peers send, the server implements the abstract session: no
\* packet counts a connection twice, no removal or death leaves the count of
\* LOGIN ACK and removeClient behind.
SessionSpec == Session!Spec

\* A descriptor the kernel hands out anew is never found in the table, so
\* addClient never turns a fresh connection away as already connected.
FdsTracked == DOMAIN m_clients \subseteq openFds
=============================================================================
