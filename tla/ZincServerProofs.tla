-------------------------- MODULE ZincServerProofs --------------------------
(***************************************************************************)
(* Proofs about ZincServer for every number of descriptors and addresses,  *)
(* every limit and every clock bound.                                      *)
(***************************************************************************)
EXTENDS ZincServer, FiniteSetTheorems, TLAPS

-----------------------------------------------------------------------------
(* What the helpers return.                                                *)

\* f is a partial function from S to R.
Partial(f, S, R) == DOMAIN f \subseteq S /\ f \in [DOMAIN f -> R]

\* Putting a key into a partial function extends its domain by that key and
\* keeps its range (unordered_map::insert and operator[] assignment).
LEMMA PutType ==
  ASSUME NEW S, NEW R, NEW f, Partial(f, S, R), NEW k \in S, NEW v \in R
  PROVE  /\ Partial(Put(f, k, v), S, R)
         /\ DOMAIN Put(f, k, v) = DOMAIN f \cup {k}
         /\ Put(f, k, v)[k] = v
         /\ \A x \in DOMAIN f \ {k} : Put(f, k, v)[x] = f[x]
  BY DEF Put, Partial

\* Dropping a key removes it and nothing else (unordered_map::erase).
LEMMA DropType ==
  ASSUME NEW S, NEW R, NEW f, Partial(f, S, R), NEW k
  PROVE  /\ Partial(Drop(f, k), S, R)
         /\ DOMAIN Drop(f, k) = DOMAIN f \ {k}
         /\ \A x \in DOMAIN f \ {k} : Drop(f, k)[x] = f[x]
  BY DEF Drop, Restrict, Partial

\* The empty map is a function of every range.
LEMMA EmptyMapType ==
  ASSUME NEW R
  PROVE  DOMAIN EmptyMap = {} /\ EmptyMap \in [DOMAIN EmptyMap -> R]
  BY DEF EmptyMap

\* The three tables are partial functions.
LEMMA TablesPartial ==
  TypeOK => /\ Partial(m_clients, Fd, Connection)
            /\ Partial(m_rateLimiterData, IP, 0..MaxTime)
            /\ Partial(m_concurrentAccounts, IP, Nat \ {0})
  BY DEF TypeOK, Partial

\* A reply is a sequence of wire packets, framed in the modes of its connection.
LEMMA ReplyType ==
  ASSUME NEW c \in Connection, NEW types \in Seq(PacketType)
  PROVE  [i \in DOMAIN types |-> Wire(c, types[i])] \in Seq(WirePacket)
<1>1. ASSUME NEW t \in PacketType PROVE Wire(c, t) \in WirePacket
  BY DEF Wire, WirePacket, Connection
<1>2. \A i \in DOMAIN types : types[i] \in PacketType
  OBVIOUS
<1>3. DOMAIN types = 1..Len(types) /\ Len(types) \in Nat
  OBVIOUS
<1> QED
  BY <1>1, <1>2, <1>3

\* Whatever is sent in one callback has the type of the output variable.
LEMMA SendType ==
  /\ \A fd \in Fd, packets \in Seq(WirePacket) :
       Send(fd, packets) => sent' \in [Fd -> Seq(WirePacket)]
  /\ Silent => sent' \in [Fd -> Seq(WirePacket)]
<1>1. <<>> \in Seq(WirePacket)
  OBVIOUS
<1> QED BY <1>1 DEF Send, Silent

\* The packet lists the handlers reply with.
LEMMA ReplyLists ==
  /\ <<>> \in Seq(PacketType) /\ <<"Disconnect">> \in Seq(PacketType)
  /\ <<"StatusResponse">> \in Seq(PacketType) /\ <<"Echo">> \in Seq(PacketType)
  /\ <<"PluginMessage">> \in Seq(PacketType)
  BY DEF PacketType

\* The death of the process leaves well-typed memory behind.
LEMMA TerminateType ==
  ASSUME TypeOK, Terminate
  PROVE  TypeOK'
<1>1. /\ m_clients' = EmptyMap
      /\ m_rateLimiterData' = EmptyMap
      /\ m_concurrentAccounts' = EmptyMap
  BY DEF Terminate
<1>2. m_clients' \in [DOMAIN m_clients' -> Connection] /\ DOMAIN m_clients' \subseteq Fd
  BY <1>1, EmptyMapType
<1>3. /\ m_rateLimiterData' \in [DOMAIN m_rateLimiterData' -> 0..MaxTime]
      /\ DOMAIN m_rateLimiterData' \subseteq IP
  BY <1>1, EmptyMapType
<1>4. /\ m_concurrentAccounts' \in [DOMAIN m_concurrentAccounts' -> Nat \ {0}]
      /\ DOMAIN m_concurrentAccounts' \subseteq IP
  BY <1>1, EmptyMapType
<1>5. sent' \in [Fd -> Seq(WirePacket)]
  BY SendType DEF Terminate
<1>6. now' \in 0..MaxTime /\ openFds' \subseteq Fd /\ m_onlinePlayers' \in Int
  BY DEF Terminate, TypeOK
<1>7. running' \in BOOLEAN
  BY DEF Terminate
<1> QED BY <1>2, <1>3, <1>4, <1>5, <1>6, <1>7 DEF TypeOK

-----------------------------------------------------------------------------
(* The shapes a step can have, for the variables the accounting is about.  *)

\* What the handlers keep true of each connection.  The first two lines are
\* CountedIffPastLogin and AdmittedOnly; the third is why a handshake cannot
\* change the version of an admitted connection, the last why compression is
\* in the configured mode once a token is out.
Sound(c) ==
  /\ c.m_loginFinished <=> c.m_state \in {"Config", "Play"}
  /\ c.m_verifyToken \in LoginToken
     => /\ c.m_kickAtLogin = 0
        /\ c.m_protocolVersion = "latest"
        /\ c.m_isCompressed = CompressionOn
  /\ c.m_state = "Handshake" => c.m_verifyToken = NoToken
  /\ c.m_isCompressed => CompressionOn

\* A handler that rewrites one connection: it keeps what the accept decided,
\* and counts the player if and only if it finishes the login.
Rewrites(fd) ==
  /\ fd \in DOMAIN m_clients
  /\ \E d \in Connection :
       /\ m_clients' = [m_clients EXCEPT ![fd] = d]
       /\ Sound(d)
       /\ d.m_ip = m_clients[fd].m_ip
       /\ d.m_kickAtLogin = m_clients[fd].m_kickAtLogin
       /\ d.acceptedAt = m_clients[fd].acceptedAt
       /\ \/ /\ d.m_loginFinished = m_clients[fd].m_loginFinished
             /\ m_onlinePlayers' = m_onlinePlayers
          \/ /\ ~m_clients[fd].m_loginFinished /\ d.m_loginFinished
             /\ m_onlinePlayers' = m_onlinePlayers + 1
  /\ UNCHANGED server

\* The process keeps its table as it is; the clock may advance.
Keeps ==
  /\ UNCHANGED <<openFds, m_clients, m_rateLimiterData, m_concurrentAccounts, m_onlinePlayers>>
  /\ now' \in {now, now + 1}

Joins(fd, ip) ==
  /\ fd \in Fd \ openFds
  /\ ip \in IP
  /\ openFds' = openFds \cup {fd}
  /\ addClient(fd, ip)
  /\ UNCHANGED <<now, m_onlinePlayers>>

Leaves(fd) == isConnected(fd) /\ removeClient(fd) /\ UNCHANGED <<now, m_rateLimiterData>>

Leaks(fd) ==
  /\ openFds' = openFds \cup {fd}
  /\ UNCHANGED <<now, m_clients, m_rateLimiterData, m_concurrentAccounts, m_onlinePlayers>>

Dies ==
  /\ openFds' = {}
  /\ m_clients' = EmptyMap /\ m_rateLimiterData' = EmptyMap
  /\ m_concurrentAccounts' = EmptyMap /\ m_onlinePlayers' = 0

\* Every handler of onRead types its connection and its output.
LEMMA ReadType ==
  ASSUME TypeOK, NEW fd \in Fd, onRead(fd)
  PROVE  TypeOK'
<1> USE DEF TypeOK
<1> DEFINE c == m_clients[fd]
<1>0. ASSUME isConnected(fd) PROVE c \in Connection
  BY <1>0 DEF isConnected
<1>1. ASSUME isConnected(fd), NEW d \in Connection, Update(fd, d), UNCHANGED <<server>>,
             m_onlinePlayers' \in Int, sent' \in [Fd -> Seq(WirePacket)]
      PROVE  TypeOK'
  BY <1>1 DEF Update, server, isConnected
<1>2. ASSUME isConnected(fd), NEW types \in Seq(PacketType), Reply(fd, types)
      PROVE  TypeOK'
  BY <1>0, <1>2, ReplyType, SendType DEF Reply, server
<1>3. ASSUME isConnected(fd), sendDisconnect(fd) PROVE TypeOK'
  BY <1>2, <1>3, ReplyLists DEF sendDisconnect
<1>4. ASSUME Terminate PROVE TypeOK'
  BY <1>4, TerminateType
<1>5. ASSUME NEW d \in Connection, NEW t \in PacketType PROVE Wire(d, t) \in WirePacket
  BY DEF Wire, WirePacket, Connection
<1>6. ASSUME NEW version \in Version \ {"unset"}, NEW intent \in State,
             Handshake(fd, version, intent)
      PROVE  TypeOK'
  <2>1. [c EXCEPT !.m_protocolVersion = version, !.m_state = NextState(intent)] \in Connection
    BY <1>0, <1>6 DEF Handshake, Read, NextState, Connection, State
  <2> QED BY <1>1, <1>6, <2>1, SendType DEF Handshake, Read
<1>7. ASSUME Status(fd) PROVE TypeOK'
  BY <1>2, <1>7, ReplyLists DEF Status, Read
<1>8. ASSUME NEW nameFits \in BOOLEAN, LoginStart(fd, nameFits) PROVE TypeOK'
  <2> DEFINE z == setupCompression(c)
  <2>1. isConnected(fd) /\ c \in Connection
    BY <1>0, <1>8 DEF LoginStart, Read
  <2>2. z \in Connection
    BY <2>1, ModeAssumption DEF setupCompression, Connection
  <2>3. CASE Admits(c, nameFits)
    <3>1. PICK token \in LoginToken :
            /\ Update(fd, [z EXCEPT !.m_verifyToken = token])
            /\ Send(fd, CompressionNotice(c) \o <<Wire(z, "EncryptionRequest")>>)
            /\ UNCHANGED <<m_onlinePlayers, server>>
      BY <1>8, <2>3 DEF LoginStart
    <3>2. [z EXCEPT !.m_verifyToken = token] \in Connection
      BY <2>2 DEF Connection
    <3>3. CompressionNotice(c) \o <<Wire(z, "EncryptionRequest")>> \in Seq(WirePacket)
      BY <1>5, <2>1, <2>2 DEF CompressionNotice, PacketType
    <3> QED BY <1>1, <2>1, <3>1, <3>2, <3>3, SendType
  <2>4. CASE ~Admits(c, nameFits)
    BY <1>3, <1>8, <2>1, <2>4 DEF LoginStart
  <2> QED BY <2>3, <2>4
<1>9. ASSUME NEW token \in LoginToken \cup {NoToken}, NEW gotData \in BOOLEAN,
             EncryptionResponse(fd, token, gotData)
      PROVE  TypeOK'
  <2> DEFINE z == setupEncryption([c EXCEPT !.m_verifyToken = NoToken])
             verdict == IF OnlineMode /\ ~gotData THEN "Disconnect" ELSE "LoginSuccess"
  <2>1. isConnected(fd) /\ z \in Connection
    BY <1>0, <1>9 DEF EncryptionResponse, Read, setupEncryption, Connection
  <2>2. CASE token = c.m_verifyToken
    <3>1. <<Wire(z, verdict)>> \in Seq(WirePacket)
      BY <1>5, <2>1 DEF PacketType
    <3> QED BY <1>1, <1>9, <2>1, <2>2, <3>1, SendType DEF EncryptionResponse
  <2>3. CASE token # c.m_verifyToken
    BY <1>3, <1>9, <2>1, <2>3 DEF EncryptionResponse
  <2> QED BY <2>2, <2>3
<1>10. ASSUME LoginPluginResponse(fd) PROVE TypeOK'
  BY <1>3, <1>10 DEF LoginPluginResponse, Read
<1>11. ASSUME LoginAck(fd) PROVE TypeOK'
  <2>1. [c EXCEPT !.m_state = "Config", !.m_loginFinished = TRUE] \in Connection
    BY <1>0, <1>11 DEF LoginAck, Read, Connection, State
  <2> QED BY <1>1, <1>11, <2>1, SendType DEF LoginAck, Read
<1>12. ASSUME CookieResponse(fd) PROVE TypeOK'
  BY <1>4, <1>12 DEF CookieResponse
<1>13. ASSUME NEW banned \in BOOLEAN, ConfigInfo(fd, banned) PROVE TypeOK'
  <2> DEFINE probes == <<"FeatureFlags", "KeepAlive", "Ping", "KnownPacks", "RegistryData",
                         "Disconnect">>
  <2>1. isConnected(fd) /\ c \in Connection
    BY <1>0, <1>13 DEF ConfigInfo, Read
  <2>2. CASE banned
    BY <1>3, <1>13, <2>1, <2>2 DEF ConfigInfo
  <2>3. CASE ~banned
    <3>1. PICK ping \in PingToken :
            /\ Update(fd, [c EXCEPT !.m_verifyToken = ping, !.m_lastKeepAlive = "sent"])
            /\ Send(fd, [i \in DOMAIN probes |-> Wire(c, probes[i])])
            /\ UNCHANGED <<m_onlinePlayers, server>>
      BY <1>13, <2>3 DEF ConfigInfo
    <3>2. [c EXCEPT !.m_verifyToken = ping, !.m_lastKeepAlive = "sent"] \in Connection
      BY <2>1 DEF Connection
    <3>3. probes \in Seq(PacketType)
      BY DEF PacketType
    <3>4. [i \in DOMAIN probes |-> Wire(c, probes[i])] \in Seq(WirePacket)
      BY <2>1, <3>3, ReplyType
    <3> QED BY <1>1, <2>1, <3>1, <3>2, <3>4, SendType
  <2> QED BY <2>2, <2>3
<1>14. ASSUME NEW channel, PluginMessage(fd, channel) PROVE TypeOK'
  BY <1>2, <1>4, <1>14, ReplyLists DEF PluginMessage, Read
<1>15. ASSUME ConfigAck(fd) PROVE TypeOK'
  <2>1. [c EXCEPT !.m_state = "Play"] \in Connection
    BY <1>0, <1>15 DEF ConfigAck, Read, Connection, State
  <2> QED BY <1>1, <1>15, <2>1, SendType DEF ConfigAck, Read
<1>16. ASSUME NEW matches \in BOOLEAN, KeepAlive(fd, matches) PROVE TypeOK'
  <2>1. isConnected(fd) /\ [c EXCEPT !.m_lastKeepAlive = "answered"] \in Connection
    BY <1>0, <1>16 DEF KeepAlive, Read, Connection
  <2> QED BY <1>1, <1>3, <1>16, <2>1, SendType DEF KeepAlive
<1>17. ASSUME NEW token, Ping(fd, token) PROVE TypeOK'
  BY <1>2, <1>3, <1>17, ReplyLists DEF Ping, Read
<1>18. ASSUME Ignored(fd) PROVE TypeOK'
  BY <1>2, <1>18, ReplyLists DEF Ignored, Read
<1> QED
  BY <1>6, <1>7, <1>8, <1>9, <1>10, <1>11, <1>12, <1>13, <1>14, <1>15, <1>16, <1>17, <1>18
     DEF onRead

\* ZincServer.h, ZincConnection.h: every step keeps the declared types.
LEMMA NextType ==
  ASSUME TypeOK, [Next]_vars
  PROVE  TypeOK'
<1> USE DEF TypeOK
<1>1. ASSUME NEW fd \in Fd, NEW ip \in IP, onAccept(fd, ip) PROVE TypeOK'
  <2>1. sent' \in [Fd -> Seq(WirePacket)]
    BY <1>1, SendType DEF onAccept
  <2>2. ASSUME addClient(fd, ip), ~isConnected(fd)
        PROVE  /\ DOMAIN m_clients' \subseteq Fd
               /\ m_clients' \in [DOMAIN m_clients' -> Connection]
               /\ DOMAIN m_rateLimiterData' \subseteq IP
               /\ m_rateLimiterData' \in [DOMAIN m_rateLimiterData' -> 0..MaxTime]
               /\ DOMAIN m_concurrentAccounts' \subseteq IP
               /\ m_concurrentAccounts' \in [DOMAIN m_concurrentAccounts' -> Nat \ {0}]
    <3>1. NewConnection(ip, KickVerdict(ip)) \in Connection
      BY LimitAssumption DEF NewConnection, KickVerdict, Connection, State, Version
    <3>2. Accounts(ip) + 1 \in Nat \ {0}
      BY DEF Accounts
    <3>3. Partial(m_clients, Fd, Connection)' /\ Partial(m_concurrentAccounts, IP, Nat \ {0})'
      <4>1. /\ m_clients' = Put(m_clients, fd, NewConnection(ip, KickVerdict(ip)))
            /\ m_concurrentAccounts' = Put(m_concurrentAccounts, ip, Accounts(ip) + 1)
        BY <2>2 DEF addClient
      <4>2. /\ Partial(Put(m_clients, fd, NewConnection(ip, KickVerdict(ip))), Fd, Connection)
            /\ Partial(Put(m_concurrentAccounts, ip, Accounts(ip) + 1), IP, Nat \ {0})
        BY <3>1, <3>2, PutType, TablesPartial
      <4> QED BY <4>1, <4>2 DEF Partial
    <3>4. CASE RateLimited(ip)
      BY <2>2, <3>3, <3>4 DEF addClient, Partial
    <3>5. CASE ~RateLimited(ip)
      <4>1. Partial(m_rateLimiterData, IP, 0..MaxTime)'
        <5>1. m_rateLimiterData' = Put(m_rateLimiterData, ip, now)
          BY <2>2, <3>5 DEF addClient
        <5>2. Partial(Put(m_rateLimiterData, ip, now), IP, 0..MaxTime)
          BY PutType, TablesPartial
        <5> QED BY <5>1, <5>2 DEF Partial
      <4> QED BY <3>3, <4>1 DEF Partial
    <3> QED BY <3>4, <3>5
  <2> QED BY <1>1, <2>1, <2>2 DEF onAccept, addClient
<1>2. ASSUME NEW fd \in Fd, onEvent(fd) PROVE TypeOK'
  <2>1. CASE Terminate
    BY <2>1, TerminateType
  <2>2. CASE removeClient(fd) /\ Silent /\ UNCHANGED <<running, now, m_rateLimiterData>>
    <3> DEFINE ip == m_clients[fd].m_ip
    <3>1. m_clients[fd] \in Connection
      BY <1>2 DEF onEvent, isConnected
    <3>2. AccountsAfter(ip) \in Nat /\ ip \in IP
      BY <3>1 DEF AccountsAfter, Accounts, Connection
    <3>3. /\ DOMAIN m_concurrentAccounts' \subseteq IP
          /\ m_concurrentAccounts' \in [DOMAIN m_concurrentAccounts' -> Nat \ {0}]
      <4> DEFINE n == AccountsAfter(ip)
      <4>1. CASE n = 0
        <5>1. m_concurrentAccounts' = Drop(m_concurrentAccounts, ip)
          BY <2>2, <4>1 DEF removeClient
        <5>2. Partial(Drop(m_concurrentAccounts, ip), IP, Nat \ {0})
          BY DropType, TablesPartial
        <5> QED BY <5>1, <5>2 DEF Partial
      <4>2. CASE n # 0
        <5>1. m_concurrentAccounts' = Put(m_concurrentAccounts, ip, n)
          BY <2>2, <4>2 DEF removeClient
        <5>2. Partial(Put(m_concurrentAccounts, ip, n), IP, Nat \ {0})
          BY <3>2, <4>2, PutType, TablesPartial
        <5> QED BY <5>1, <5>2 DEF Partial
      <4> QED BY <4>1, <4>2
    <3>4. DOMAIN m_clients' \subseteq Fd /\ m_clients' \in [DOMAIN m_clients' -> Connection]
      <4>1. m_clients' = Drop(m_clients, fd)
        BY <2>2 DEF removeClient
      <4>2. Partial(Drop(m_clients, fd), Fd, Connection)
        BY DropType, TablesPartial
      <4> QED BY <4>1, <4>2 DEF Partial
    <3>5. m_onlinePlayers' \in Int
      BY <2>2 DEF removeClient, PlayersAfter
    <3>6. openFds' \subseteq Fd /\ sent' \in [Fd -> Seq(WirePacket)]
      BY <2>2, SendType DEF removeClient
    <3> QED BY <2>2, <3>3, <3>4, <3>5, <3>6
  <2> QED BY <1>2, <2>1, <2>2 DEF onEvent
<1>3. ASSUME Tick PROVE TypeOK'
  BY <1>3, SendType, LimitAssumption DEF Tick
<1>4. ASSUME Restart PROVE TypeOK'
  BY <1>4 DEF Restart
<1>5. ASSUME UNCHANGED vars PROVE TypeOK'
  BY <1>5 DEF vars
<1> QED
  BY <1>1, <1>2, <1>3, <1>4, <1>5, ReadType DEF Next

\* The type invariant of the connection table and the counters.
THEOREM TypeCorrect == Spec => []TypeOK
<1>1. Init => TypeOK
  BY LimitAssumption, EmptyMapType DEF Init, TypeOK
<1>2. TypeOK /\ [Next]_vars => TypeOK'
  BY NextType
<1> QED BY <1>1, <1>2, PTL DEF Spec

-----------------------------------------------------------------------------
(* The inductive invariant.                                                *)

\* The rate limiter remembers an accept at least as late as that of every live
\* connection it let through.
RateStamped ==
  \A fd \in DOMAIN m_clients :
    m_clients[fd].m_kickAtLogin = 0 =>
      /\ m_clients[fd].m_ip \in DOMAIN m_rateLimiterData
      /\ m_clients[fd].acceptedAt <= m_rateLimiterData[m_clients[fd].m_ip]

\* What the handlers rely on: types, descriptors, the login states.
Base ==
  /\ TypeOK
  /\ FdsTracked
  /\ \A fd \in DOMAIN m_clients : Sound(m_clients[fd])

\* Every step of the system has one of the shapes above.
LEMMA StepShapes ==
  ASSUME Base, [Next]_vars
  PROVE  \/ Keeps
         \/ Dies
         \/ \E fd \in Fd : Rewrites(fd)
         \/ \E fd \in Fd : Leaves(fd)
         \/ \E fd \in Fd : Leaks(fd)
         \/ \E fd \in Fd, ip \in IP : Joins(fd, ip)
<1> DEFINE Shape == \/ Keeps
                    \/ Dies
                    \/ \E fd \in Fd : Rewrites(fd)
                    \/ \E fd \in Fd : Leaves(fd)
                    \/ \E fd \in Fd : Leaks(fd)
                    \/ \E fd \in Fd, ip \in IP : Joins(fd, ip)
<1>1. ASSUME NEW fd \in Fd, NEW ip \in IP, onAccept(fd, ip) PROVE Shape
  BY <1>1 DEF onAccept, Joins, Leaks
<1>2. Terminate => Dies
  BY DEF Terminate, Dies
<1>3. ASSUME NEW fd \in Fd, onEvent(fd) PROVE Shape
  BY <1>2, <1>3 DEF onEvent, Leaves
<1>4. Tick \/ Restart \/ UNCHANGED vars => Keeps
  BY DEF Tick, Restart, vars, Keeps
<1>5. ASSUME NEW fd \in Fd, onRead(fd) PROVE Keeps \/ Dies \/ Rewrites(fd)
  <2> DEFINE c == m_clients[fd]
  <2>1. \A types : Reply(fd, types) => Keeps
    BY DEF Reply, server, Keeps
  <2>2. sendDisconnect(fd) => Keeps
    BY <2>1 DEF sendDisconnect
  <2>3. isConnected(fd) => c \in Connection /\ Sound(c)
    BY DEF isConnected, Base, TypeOK
  <2>4. ASSUME NEW d \in Connection, isConnected(fd), Update(fd, d), Sound(d),
               UNCHANGED <<m_onlinePlayers, server>>,
               d.m_ip = c.m_ip, d.m_kickAtLogin = c.m_kickAtLogin, d.acceptedAt = c.acceptedAt,
               d.m_loginFinished = c.m_loginFinished
        PROVE  Rewrites(fd)
    BY <2>4 DEF Rewrites, Update, isConnected
  <2>5. ASSUME NEW version \in Version \ {"unset"}, NEW intent \in State,
               Handshake(fd, version, intent)
        PROVE  Rewrites(fd)
    <3> DEFINE d == [c EXCEPT !.m_protocolVersion = version, !.m_state = NextState(intent)]
    <3>1. isConnected(fd) /\ c.m_state = "Handshake" /\ Update(fd, d)
          /\ UNCHANGED <<m_onlinePlayers, server>>
      BY <2>5 DEF Handshake, Read
    <3>2. NextState(intent) \in {"Status", "Login", "Transfer"}
      BY DEF NextState
    <3>3. d \in Connection
      BY <2>3, <3>1, <3>2 DEF Connection, State
    <3>4. Sound(d)
      BY <2>3, <3>1, <3>2, TokenAssumption DEF Connection, Sound
    <3> QED BY <2>3, <2>4, <3>1, <3>3, <3>4 DEF Connection
  <2>6. ASSUME Status(fd) PROVE Keeps
    BY <2>1, <2>6 DEF Status
  <2>7. ASSUME NEW nameFits \in BOOLEAN, LoginStart(fd, nameFits) PROVE Keeps \/ Rewrites(fd)
    <3>1. isConnected(fd) /\ c.m_state = "Login"
      BY <2>7 DEF LoginStart, Read
    <3>2. CASE Admits(c, nameFits)
      <4>1. PICK token \in LoginToken :
              /\ Update(fd, [setupCompression(c) EXCEPT !.m_verifyToken = token])
              /\ UNCHANGED <<m_onlinePlayers, server>>
        BY <2>7, <3>2 DEF LoginStart
      <4> DEFINE d == [setupCompression(c) EXCEPT !.m_verifyToken = token]
      <4>2. d \in Connection
        BY <2>3, <3>1, ModeAssumption DEF setupCompression, Connection
      <4>3. Sound(d)
        BY <2>3, <3>1, <3>2, ModeAssumption DEF setupCompression, Connection, Sound, Admits
      <4> QED BY <2>3, <2>4, <3>1, <4>1, <4>2, <4>3 DEF Connection, setupCompression
    <3>3. CASE ~Admits(c, nameFits)
      BY <2>2, <2>7, <3>3 DEF LoginStart
    <3> QED BY <3>2, <3>3
  <2>8. ASSUME NEW token \in LoginToken \cup {NoToken}, NEW gotData \in BOOLEAN,
               EncryptionResponse(fd, token, gotData)
        PROVE  Keeps \/ Rewrites(fd)
    <3> DEFINE d == setupEncryption([c EXCEPT !.m_verifyToken = NoToken])
    <3>1. isConnected(fd) /\ c.m_state = "Login"
      BY <2>8 DEF EncryptionResponse, Read
    <3>2. CASE token = c.m_verifyToken
      <4>1. Update(fd, d) /\ UNCHANGED <<m_onlinePlayers, server>>
        BY <2>8, <3>2 DEF EncryptionResponse
      <4>2. d \in Connection /\ Sound(d)
        BY <2>3, <3>1, <3>2 DEF setupEncryption, Connection, Sound
      <4> QED BY <2>3, <2>4, <3>1, <4>1, <4>2 DEF Connection, setupEncryption
    <3>3. CASE token # c.m_verifyToken
      BY <2>2, <2>8, <3>3 DEF EncryptionResponse
    <3> QED BY <3>2, <3>3
  <2>9. ASSUME LoginAck(fd) PROVE Rewrites(fd)
    <3> DEFINE d == [c EXCEPT !.m_state = "Config", !.m_loginFinished = TRUE]
    <3>1. /\ isConnected(fd) /\ c.m_state = "Login"
          /\ Update(fd, d) /\ m_onlinePlayers' = m_onlinePlayers + 1 /\ UNCHANGED server
      BY <2>9 DEF LoginAck, Read
    <3>2. d \in Connection /\ Sound(d)
      BY <2>3, <3>1 DEF Connection, Sound, State
    <3>3. ~c.m_loginFinished /\ d.m_loginFinished
      BY <2>3, <3>1 DEF Connection, Sound
    <3> QED BY <2>3, <3>1, <3>2, <3>3 DEF Rewrites, Update, isConnected, Connection
  <2>10. ASSUME NEW banned \in BOOLEAN, ConfigInfo(fd, banned) PROVE Keeps \/ Rewrites(fd)
    <3>1. isConnected(fd) /\ c.m_state = "Config"
      BY <2>10 DEF ConfigInfo, Read
    <3>2. CASE ~banned
      <4>1. PICK ping \in PingToken :
              /\ Update(fd, [c EXCEPT !.m_verifyToken = ping, !.m_lastKeepAlive = "sent"])
              /\ UNCHANGED <<m_onlinePlayers, server>>
        BY <2>10, <3>2 DEF ConfigInfo
      <4> DEFINE d == [c EXCEPT !.m_verifyToken = ping, !.m_lastKeepAlive = "sent"]
      <4>2. d \in Connection /\ Sound(d)
        BY <2>3, <3>1, TokenAssumption DEF Connection, Sound
      <4> QED BY <2>3, <2>4, <3>1, <4>1, <4>2 DEF Connection
    <3>3. CASE banned
      BY <2>2, <2>10, <3>3 DEF ConfigInfo
    <3> QED BY <3>2, <3>3
  <2>11. ASSUME ConfigAck(fd) PROVE Rewrites(fd)
    <3> DEFINE d == [c EXCEPT !.m_state = "Play"]
    <3>1. /\ isConnected(fd) /\ c.m_state = "Config" /\ Update(fd, d)
          /\ UNCHANGED <<m_onlinePlayers, server>>
      BY <2>11 DEF ConfigAck, Read
    <3>2. d \in Connection /\ Sound(d)
      BY <2>3, <3>1 DEF Connection, Sound, State
    <3> QED BY <2>3, <2>4, <3>1, <3>2 DEF Connection
  <2>12. ASSUME NEW matches \in BOOLEAN, KeepAlive(fd, matches) PROVE Keeps \/ Rewrites(fd)
    <3> DEFINE d == [c EXCEPT !.m_lastKeepAlive = "answered"]
    <3>1. isConnected(fd) /\ c.m_state = "Config"
      BY <2>12 DEF KeepAlive, Read
    <3>2. d \in Connection /\ Sound(d)
      BY <2>3, <3>1 DEF Connection, Sound
    <3>3. CASE matches
      BY <2>3, <2>4, <2>12, <3>1, <3>2, <3>3 DEF KeepAlive, Connection
    <3>4. CASE ~matches
      BY <2>2, <2>12, <3>4 DEF KeepAlive
    <3> QED BY <3>3, <3>4
  <2>13. \/ LoginPluginResponse(fd) \/ CookieResponse(fd) \/ Ignored(fd)
         \/ (\E channel : PluginMessage(fd, channel)) \/ (\E token : Ping(fd, token))
         => Keeps \/ Dies
    BY <1>2, <2>1, <2>2 DEF LoginPluginResponse, CookieResponse, Ignored, PluginMessage, Ping
  <2> QED
    BY <1>5, <2>5, <2>6, <2>7, <2>8, <2>9, <2>10, <2>11, <2>12, <2>13 DEF onRead
<1> QED BY <1>1, <1>3, <1>4, <1>5 DEF Next

\* What a join does to the table: the fresh descriptor is not in it.
LEMMA JoinTable ==
  ASSUME Base, NEW fd \in Fd, NEW ip \in IP, Joins(fd, ip)
  PROVE  /\ fd \notin DOMAIN m_clients
         /\ m_clients' = Put(m_clients, fd, NewConnection(ip, KickVerdict(ip)))
         /\ DOMAIN m_clients' = DOMAIN m_clients \cup {fd}
         /\ m_clients'[fd] = NewConnection(ip, KickVerdict(ip))
         /\ \A f \in DOMAIN m_clients : m_clients'[f] = m_clients[f]
         /\ m_concurrentAccounts' = Put(m_concurrentAccounts, ip, Accounts(ip) + 1)
         /\ m_rateLimiterData' = IF RateLimited(ip) THEN m_rateLimiterData
                                 ELSE Put(m_rateLimiterData, ip, now)
<1>1. fd \notin DOMAIN m_clients
  BY DEF Joins, Base, FdsTracked
<1>2. /\ m_clients' = Put(m_clients, fd, NewConnection(ip, KickVerdict(ip)))
      /\ m_concurrentAccounts' = Put(m_concurrentAccounts, ip, Accounts(ip) + 1)
      /\ m_rateLimiterData' = IF RateLimited(ip) THEN m_rateLimiterData
                              ELSE Put(m_rateLimiterData, ip, now)
  BY <1>1 DEF Joins, addClient, isConnected
<1>3. /\ DOMAIN m_clients' = DOMAIN m_clients \cup {fd}
      /\ m_clients'[fd] = NewConnection(ip, KickVerdict(ip))
      /\ \A f \in DOMAIN m_clients : m_clients'[f] = m_clients[f]
  BY <1>1, <1>2 DEF Put
<1> QED BY <1>1, <1>2, <1>3

\* What a removal does to the table.
LEMMA LeaveTable ==
  ASSUME Base, NEW fd \in Fd, Leaves(fd)
  PROVE  /\ fd \in DOMAIN m_clients
         /\ m_clients[fd] \in Connection
         /\ DOMAIN m_clients' = DOMAIN m_clients \ {fd}
         /\ \A f \in DOMAIN m_clients' : m_clients'[f] = m_clients[f]
         /\ openFds' = openFds \ {fd}
  BY DEF Leaves, isConnected, removeClient, Drop, Restrict, Base, TypeOK

\* What a rewrite does to the table.
LEMMA RewriteTable ==
  ASSUME Base, NEW fd \in Fd, Rewrites(fd)
  PROVE  /\ fd \in DOMAIN m_clients
         /\ DOMAIN m_clients' = DOMAIN m_clients
         /\ m_clients'[fd] \in Connection /\ Sound(m_clients'[fd])
         /\ \A f \in DOMAIN m_clients \ {fd} : m_clients'[f] = m_clients[f]
         /\ \A f \in DOMAIN m_clients :
              /\ m_clients'[f].m_ip = m_clients[f].m_ip
              /\ m_clients'[f].m_kickAtLogin = m_clients[f].m_kickAtLogin
              /\ m_clients'[f].acceptedAt = m_clients[f].acceptedAt
  BY DEF Rewrites, Base, TypeOK

\* Types, descriptors and the handlers' invariant are inductive.
LEMMA BaseInductive ==
  ASSUME Base, [Next]_vars
  PROVE  Base'
<1>1. TypeOK'
  BY NextType DEF Base
<1>2. CASE Keeps
  BY <1>1, <1>2 DEF Keeps, Base, FdsTracked
<1>3. CASE Dies
  BY <1>1, <1>3 DEF Dies, Base, FdsTracked, EmptyMap
<1>4. ASSUME NEW fd \in Fd, Rewrites(fd) PROVE Base'
  <2>1. openFds' = openFds
    BY <1>4 DEF Rewrites, server
  <2> QED BY <1>1, <1>4, <2>1, RewriteTable DEF Base, FdsTracked
<1>5. ASSUME NEW fd \in Fd, Leaves(fd) PROVE Base'
  BY <1>1, <1>5, LeaveTable DEF Base, FdsTracked
<1>6. ASSUME NEW fd \in Fd, Leaks(fd) PROVE Base'
  BY <1>1, <1>6 DEF Leaks, Base, FdsTracked
<1>7. ASSUME NEW fd \in Fd, NEW ip \in IP, Joins(fd, ip) PROVE Base'
  <2>1. Sound(NewConnection(ip, KickVerdict(ip)))
    BY TokenAssumption DEF Sound, NewConnection
  <2>2. openFds' = openFds \cup {fd}
    BY <1>7 DEF Joins
  <2>3. FdsTracked'
    BY <1>7, <2>2, JoinTable DEF Base, FdsTracked
  <2>4. \A f \in DOMAIN m_clients' : Sound(m_clients'[f])
    BY <1>7, <2>1, JoinTable DEF Base
  <2> QED BY <1>1, <2>3, <2>4 DEF Base
<1> QED BY <1>2, <1>3, <1>4, <1>5, <1>6, <1>7, StepShapes

\* The table is finite, and so is every set of connections counted in it.
LEMMA TableFinite ==
  ASSUME TypeOK
  PROVE  /\ IsFiniteSet(Online) /\ Cardinality(Online) \in Nat
         /\ \A ip : /\ IsFiniteSet(From(ip)) /\ Cardinality(From(ip)) \in Nat
                    /\ IsFiniteSet(Tolerated(ip)) /\ Cardinality(Tolerated(ip)) \in Nat
                    /\ Cardinality(Tolerated(ip)) <= Cardinality(From(ip))
<1>1. IsFiniteSet(DOMAIN m_clients)
  BY FdAssumption, FS_Subset DEF TypeOK
<1>2. IsFiniteSet(Online)
  BY <1>1, FS_Subset DEF Online
<1>3. ASSUME NEW ip PROVE IsFiniteSet(From(ip))
  BY <1>1, FS_Subset DEF From
<1>4. ASSUME NEW ip
      PROVE  IsFiniteSet(Tolerated(ip)) /\ Cardinality(Tolerated(ip)) <= Cardinality(From(ip))
  BY <1>3, FS_Subset DEF Tolerated
<1> QED BY <1>2, <1>3, <1>4, FS_CardinalityType

\* The online count follows every step: LOGIN ACK and removal are the only
\* steps that change it, each by the connection it concerns.
LEMMA OnlineInductive ==
  ASSUME Base, [Next]_vars, OnlineCountExact
  PROVE  OnlineCountExact'
<1>1. Base'
  BY BaseInductive
<1>2. CASE Keeps
  BY <1>2 DEF Keeps, OnlineCountExact, Online
<1>3. CASE Dies
  <2>1. Online' = {}
    BY <1>3 DEF Dies, Online, EmptyMap
  <2> QED BY <1>3, <2>1, FS_EmptySet DEF Dies, OnlineCountExact
<1>4. ASSUME NEW fd \in Fd, Rewrites(fd) PROVE OnlineCountExact'
  <2>1. CASE /\ m_clients'[fd].m_loginFinished = m_clients[fd].m_loginFinished
             /\ m_onlinePlayers' = m_onlinePlayers
    <3>1. Online' = Online
      BY <1>4, <2>1, RewriteTable DEF Online
    <3> QED BY <2>1, <3>1 DEF OnlineCountExact
  <2>2. CASE /\ ~m_clients[fd].m_loginFinished /\ m_clients'[fd].m_loginFinished
             /\ m_onlinePlayers' = m_onlinePlayers + 1
    <3>1. Online' = Online \cup {fd} /\ fd \notin Online
      BY <1>4, <2>2, RewriteTable DEF Online
    <3>2. Cardinality(Online \cup {fd}) = Cardinality(Online) + 1
      BY <3>1, TableFinite, FS_AddElement DEF Base
    <3> QED BY <2>2, <3>1, <3>2 DEF OnlineCountExact
  <2> QED BY <1>4, <2>1, <2>2 DEF Rewrites, Base, TypeOK
<1>5. ASSUME NEW fd \in Fd, Leaves(fd) PROVE OnlineCountExact'
  <2>1. Online' = Online \ {fd}
    BY <1>5, LeaveTable DEF Online
  <2>2. Cardinality(Online \ {fd}) =
          IF fd \in Online THEN Cardinality(Online) - 1 ELSE Cardinality(Online)
    BY TableFinite, FS_RemoveElement DEF Base
  <2>3. fd \in Online <=> m_clients[fd].m_loginFinished
    BY <1>5, LeaveTable DEF Online
  <2>4. m_onlinePlayers' =
          IF m_clients[fd].m_loginFinished THEN m_onlinePlayers - 1 ELSE m_onlinePlayers
    BY <1>5 DEF Leaves, removeClient, PlayersAfter
  <2> QED BY <2>1, <2>2, <2>3, <2>4 DEF OnlineCountExact
<1>6. ASSUME NEW fd \in Fd, Leaks(fd) PROVE OnlineCountExact'
  BY <1>6 DEF Leaks, OnlineCountExact, Online
<1>7. ASSUME NEW fd \in Fd, NEW ip \in IP, Joins(fd, ip) PROVE OnlineCountExact'
  <2>1. ~m_clients'[fd].m_loginFinished
    <3>1. m_clients'[fd] = NewConnection(ip, KickVerdict(ip))
      BY <1>7, JoinTable
    <3> QED BY <3>1 DEF NewConnection
  <2>2. Online' = Online
    BY <1>7, <2>1, JoinTable DEF Online
  <2> QED BY <1>7, <2>2 DEF Joins, OnlineCountExact
<1> QED BY <1>2, <1>3, <1>4, <1>5, <1>6, <1>7, StepShapes

\* Reading the account table gives the number of connections of the address.
LEMMA AccountsCount ==
  ASSUME TypeOK, AccountsExact, NEW ip \in IP
  PROVE  Accounts(ip) = Cardinality(From(ip))
<1>1. CASE ip \in DOMAIN m_concurrentAccounts
  BY <1>1 DEF Accounts, AccountsExact
<1>2. CASE ip \notin DOMAIN m_concurrentAccounts
  <2>1. From(ip) = {}
    BY <1>2 DEF AccountsExact
  <2> QED BY <1>2, <2>1, FS_EmptySet DEF Accounts
<1> QED BY <1>1, <1>2

\* How the connections of an address change when one joins or leaves.
LEMMA FromAfterJoin ==
  ASSUME Base, NEW fd \in Fd, NEW ip \in IP, Joins(fd, ip)
  PROVE  /\ fd \notin From(ip)
         /\ From(ip)' = From(ip) \cup {fd}
         /\ \A j \in IP \ {ip} : From(j)' = From(j)
<1>1. m_clients'[fd] = NewConnection(ip, KickVerdict(ip))
  BY JoinTable
<1>2. m_clients'[fd].m_ip = ip
  BY <1>1 DEF NewConnection
<1> QED BY <1>2, JoinTable DEF From

LEMMA FromAfterLeave ==
  ASSUME Base, NEW fd \in Fd, Leaves(fd), NEW ip, ip = m_clients[fd].m_ip
  PROVE  /\ ip \in IP
         /\ fd \in From(ip)
         /\ From(ip)' = From(ip) \ {fd}
         /\ \A j \in IP \ {ip} : From(j)' = From(j)
<1>1. ip \in IP
  BY LeaveTable DEF Connection
<1> QED BY <1>1, LeaveTable DEF From

\* The account table follows every step.
LEMMA AccountsInductive ==
  ASSUME Base, [Next]_vars, AccountsExact
  PROVE  AccountsExact'
<1> USE DEF Base
<1>1. CASE Keeps
  BY <1>1 DEF Keeps, AccountsExact, From
<1>2. CASE Dies
  <2>1. \A ip : From(ip)' = {}
    BY <1>2 DEF Dies, From, EmptyMap
  <2> QED BY <1>2, <2>1 DEF Dies, AccountsExact, EmptyMap
<1>3. ASSUME NEW fd \in Fd, Rewrites(fd) PROVE AccountsExact'
  <2>1. \A ip : From(ip)' = From(ip)
    BY <1>3, RewriteTable DEF From
  <2>2. m_concurrentAccounts' = m_concurrentAccounts
    BY <1>3 DEF Rewrites, server
  <2> QED BY <2>1, <2>2 DEF AccountsExact
<1>4. ASSUME NEW fd \in Fd, Leaks(fd) PROVE AccountsExact'
  BY <1>4 DEF Leaks, AccountsExact, From
<1>5. ASSUME NEW fd \in Fd, NEW ip \in IP, Joins(fd, ip) PROVE AccountsExact'
  <2>1. Cardinality(From(ip) \cup {fd}) = Accounts(ip) + 1
    BY <1>5, FromAfterJoin, TableFinite, AccountsCount, FS_AddElement
  <2>2. Partial(m_concurrentAccounts, IP, Nat \ {0}) /\ Accounts(ip) + 1 \in Nat \ {0}
    BY TablesPartial, AccountsCount, TableFinite
  <2>3. m_concurrentAccounts' = Put(m_concurrentAccounts, ip, Accounts(ip) + 1)
    BY <1>5, JoinTable
  <2>4. /\ DOMAIN m_concurrentAccounts' = DOMAIN m_concurrentAccounts \cup {ip}
        /\ m_concurrentAccounts'[ip] = Accounts(ip) + 1
        /\ \A j \in DOMAIN m_concurrentAccounts \ {ip} :
             m_concurrentAccounts'[j] = m_concurrentAccounts[j]
    <3> DEFINE after == Put(m_concurrentAccounts, ip, Accounts(ip) + 1)
    <3>1. /\ DOMAIN after = DOMAIN m_concurrentAccounts \cup {ip}
          /\ after[ip] = Accounts(ip) + 1
          /\ \A j \in DOMAIN m_concurrentAccounts \ {ip} : after[j] = m_concurrentAccounts[j]
      BY DEF Put
    <3> QED BY <2>3, <3>1
  <2>5. /\ From(ip)' = From(ip) \cup {fd}
        /\ \A j \in IP \ {ip} : From(j)' = From(j)
    BY <1>5, FromAfterJoin
  <2> QED BY <2>1, <2>4, <2>5 DEF AccountsExact
<1>6. ASSUME NEW fd \in Fd, Leaves(fd) PROVE AccountsExact'
  <2> DEFINE ip == m_clients[fd].m_ip
             n == AccountsAfter(ip)
             rest == From(ip) \ {fd}
  <2>1. /\ ip \in IP /\ fd \in From(ip)
        /\ \A j \in IP \ {ip} : From(j)' = From(j)
    BY <1>6, FromAfterLeave
  <2>2. \A i : i = ip => From(i)' = rest
    BY <1>6, FromAfterLeave
  <2>3. /\ Cardinality(rest) = Cardinality(From(ip)) - 1
        /\ IsFiniteSet(rest) /\ Cardinality(rest) \in Nat
    BY <2>1, TableFinite, FS_RemoveElement, FS_CardinalityType
  <2>4. n = Cardinality(rest)
    BY <2>1, <2>3, AccountsCount, TableFinite DEF AccountsAfter
  <2>5. m_concurrentAccounts' = IF n = 0 THEN Drop(m_concurrentAccounts, ip)
                                ELSE Put(m_concurrentAccounts, ip, n)
    BY <1>6 DEF Leaves, removeClient
  <2>6. CASE n = 0
    <3>1. rest = {}
      BY <2>3, <2>4, <2>6, FS_EmptySet
    <3>2. /\ DOMAIN m_concurrentAccounts' = DOMAIN m_concurrentAccounts \ {ip}
          /\ \A j \in DOMAIN m_concurrentAccounts' :
               m_concurrentAccounts'[j] = m_concurrentAccounts[j]
      <4> DEFINE after == Drop(m_concurrentAccounts, ip)
      <4>1. /\ DOMAIN after = DOMAIN m_concurrentAccounts \ {ip}
            /\ \A j \in DOMAIN after : after[j] = m_concurrentAccounts[j]
        BY DEF Drop, Restrict
      <4> QED BY <2>5, <2>6, <4>1
    <3> QED BY <2>1, <2>2, <3>1, <3>2 DEF AccountsExact
  <2>7. CASE n # 0
    <3>1. rest # {}
      BY <2>4, <2>7, FS_EmptySet
    <3>2. m_concurrentAccounts' = Put(m_concurrentAccounts, ip, n) /\ n \in Nat \ {0}
      BY <2>3, <2>4, <2>5, <2>7
    <3>3. /\ DOMAIN m_concurrentAccounts' = DOMAIN m_concurrentAccounts \cup {ip}
          /\ m_concurrentAccounts'[ip] = n
          /\ \A j \in DOMAIN m_concurrentAccounts \ {ip} :
               m_concurrentAccounts'[j] = m_concurrentAccounts[j]
      <4> DEFINE after == Put(m_concurrentAccounts, ip, n)
      <4>1. /\ DOMAIN after = DOMAIN m_concurrentAccounts \cup {ip}
            /\ after[ip] = n
            /\ \A j \in DOMAIN m_concurrentAccounts \ {ip} : after[j] = m_concurrentAccounts[j]
        BY DEF Put
      <4> HIDE DEF n
      <4> QED BY <3>2, <4>1
    <3> QED BY <2>1, <2>2, <2>4, <3>1, <3>3 DEF AccountsExact
  <2> QED BY <2>6, <2>7
<1> QED BY <1>1, <1>2, <1>3, <1>4, <1>5, <1>6, StepShapes

\* The connection limit of an address survives every step.  A join that is not
\* marked found room for itself among all connections of the address.
LEMMA ConcurrentInductive ==
  ASSUME Base, [Next]_vars, AccountsExact, ConcurrentLimit
  PROVE  ConcurrentLimit'
<1> USE DEF Base
<1>1. CASE Keeps
  BY <1>1 DEF Keeps, ConcurrentLimit, Tolerated, From
<1>2. CASE Dies
  <2>1. \A ip : Tolerated(ip)' = {}
    BY <1>2 DEF Dies, Tolerated, From, EmptyMap
  <2> QED BY <2>1, FS_EmptySet, LimitAssumption DEF ConcurrentLimit
<1>3. ASSUME NEW fd \in Fd, Rewrites(fd) PROVE ConcurrentLimit'
  <2>1. \A ip : Tolerated(ip)' = Tolerated(ip)
    BY <1>3, RewriteTable DEF Tolerated, From
  <2> QED BY <2>1 DEF ConcurrentLimit
<1>4. ASSUME NEW fd \in Fd, Leaks(fd) PROVE ConcurrentLimit'
  BY <1>4 DEF Leaks, ConcurrentLimit, Tolerated, From
<1>5. ASSUME NEW fd \in Fd, NEW ip \in IP, Joins(fd, ip) PROVE ConcurrentLimit'
  <2>1. \A j \in IP \ {ip} : Tolerated(j)' = Tolerated(j)
    <3>1. \A f \in DOMAIN m_clients : m_clients'[f] = m_clients[f]
      BY <1>5, JoinTable
    <3> QED BY <1>5, <3>1, FromAfterJoin DEF Tolerated, From
  <2>2. /\ m_clients'[fd] = NewConnection(ip, KickVerdict(ip))
        /\ fd \notin DOMAIN m_clients
    BY <1>5, JoinTable
  <2>3. m_clients'[fd].m_kickAtLogin = KickVerdict(ip) /\ m_clients'[fd].m_ip = ip
    BY <2>2 DEF NewConnection
  <2>4. CASE KickVerdict(ip) = 2
    <3>1. Tolerated(ip)' = Tolerated(ip)
      BY <1>5, <2>2, <2>3, <2>4, JoinTable DEF Tolerated, From
    <3> QED BY <2>1, <3>1 DEF ConcurrentLimit
  <2>5. CASE KickVerdict(ip) # 2
    <3>1. Accounts(ip) + 1 <= MaxConcurrentAccount
      BY <2>5, LimitAssumption, AccountsCount, TableFinite DEF KickVerdict
    <3>2. Tolerated(ip)' \subseteq From(ip) \cup {fd}
      BY <1>5, FromAfterJoin DEF Tolerated
    <3>3. /\ IsFiniteSet(From(ip) \cup {fd})
          /\ Cardinality(From(ip) \cup {fd}) = Accounts(ip) + 1
      BY <1>5, FromAfterJoin, TableFinite, AccountsCount, FS_AddElement
    <3>4. IsFiniteSet(Tolerated(ip)') /\ Cardinality(Tolerated(ip)') <= Accounts(ip) + 1
      BY <3>2, <3>3, FS_Subset
    <3>5. Cardinality(Tolerated(ip)') \in Nat /\ Accounts(ip) \in Nat
      BY <3>4, FS_CardinalityType, AccountsCount, TableFinite
    <3>6. Cardinality(Tolerated(ip)') <= MaxConcurrentAccount
      BY <3>1, <3>4, <3>5, LimitAssumption
    <3> QED BY <2>1, <3>6 DEF ConcurrentLimit
  <2> QED BY <2>4, <2>5
<1>6. ASSUME NEW fd \in Fd, Leaves(fd) PROVE ConcurrentLimit'
  <2>1. ASSUME NEW ip \in IP PROVE Tolerated(ip)' \subseteq Tolerated(ip)
    BY <1>6, LeaveTable DEF Tolerated, From
  <2>2. ASSUME NEW ip \in IP PROVE Cardinality(Tolerated(ip)') <= Cardinality(Tolerated(ip))
                                  /\ Cardinality(Tolerated(ip)') \in Nat
    BY <2>1, TableFinite, FS_Subset, FS_CardinalityType
  <2>3. ASSUME NEW ip \in IP PROVE Cardinality(Tolerated(ip)') <= MaxConcurrentAccount
    BY <2>2, TableFinite, LimitAssumption DEF ConcurrentLimit
  <2> QED BY <2>3 DEF ConcurrentLimit
<1> QED BY <1>1, <1>2, <1>3, <1>4, <1>5, <1>6, StepShapes

\* Spacing survives every step together with the memory of the rate limiter:
\* a join that is not marked is later than everything the limiter remembers.
LEMMA SpacingInductive ==
  ASSUME Base, [Next]_vars, RateStamped, RateLimitSpacing
  PROVE  RateStamped' /\ RateLimitSpacing'
<1> USE DEF Base
<1>1. CASE Keeps
  BY <1>1 DEF Keeps, RateStamped, RateLimitSpacing
<1>2. CASE Dies
  BY <1>2 DEF Dies, RateStamped, RateLimitSpacing, EmptyMap
<1>3. ASSUME NEW fd \in Fd, Rewrites(fd) PROVE RateStamped' /\ RateLimitSpacing'
  <2>1. m_rateLimiterData' = m_rateLimiterData
    BY <1>3 DEF Rewrites, server
  <2> QED BY <1>3, <2>1, RewriteTable DEF RateStamped, RateLimitSpacing
<1>4. ASSUME NEW fd \in Fd, Leaks(fd) PROVE RateStamped' /\ RateLimitSpacing'
  BY <1>4 DEF Leaks, RateStamped, RateLimitSpacing
<1>5. ASSUME NEW fd \in Fd, Leaves(fd) PROVE RateStamped' /\ RateLimitSpacing'
  <2>1. m_rateLimiterData' = m_rateLimiterData
    BY <1>5 DEF Leaves
  <2> QED BY <1>5, <2>1, LeaveTable DEF RateStamped, RateLimitSpacing
<1>6. ASSUME NEW fd \in Fd, NEW ip \in IP, Joins(fd, ip) PROVE RateStamped' /\ RateLimitSpacing'
  <2> DEFINE new == NewConnection(ip, KickVerdict(ip))
  <2>1. new.m_ip = ip /\ new.m_kickAtLogin = KickVerdict(ip) /\ new.acceptedAt = now
    BY DEF NewConnection
  <2>2. /\ DOMAIN m_clients' = DOMAIN m_clients \cup {fd} /\ fd \notin DOMAIN m_clients
        /\ m_clients'[fd] = new
        /\ \A f \in DOMAIN m_clients : m_clients'[f] = m_clients[f]
    BY <1>6, JoinTable
  <2> HIDE DEF new
  <2>3. now \in Nat /\ RateLimit \in Nat
        /\ \A j \in DOMAIN m_rateLimiterData : m_rateLimiterData[j] \in Nat /\ m_rateLimiterData[j] <= MaxTime
    BY LimitAssumption DEF TypeOK
  <2>4. \A f \in DOMAIN m_clients : m_clients[f].acceptedAt \in Nat
    BY DEF TypeOK, Connection
  <2>5. CASE RateLimited(ip)
    <3>1. m_rateLimiterData' = m_rateLimiterData
      BY <1>6, <2>5, JoinTable
    <3>2. KickVerdict(ip) # 0
      BY <2>5 DEF KickVerdict
    <3> QED BY <2>1, <2>2, <3>1, <3>2 DEF RateStamped, RateLimitSpacing
  <2>6. CASE ~RateLimited(ip)
    <3>1. m_rateLimiterData' = Put(m_rateLimiterData, ip, now)
      BY <1>6, <2>6, JoinTable
    <3>2. /\ DOMAIN m_rateLimiterData' = DOMAIN m_rateLimiterData \cup {ip}
          /\ m_rateLimiterData'[ip] = now
          /\ \A j \in DOMAIN m_rateLimiterData \ {ip} : m_rateLimiterData'[j] = m_rateLimiterData[j]
      BY <3>1 DEF Put
    <3>3. ip \in DOMAIN m_rateLimiterData => m_rateLimiterData[ip] + RateLimit < now
      BY <2>6 DEF RateLimited
    <3>4. \A f \in DOMAIN m_clients :
            m_clients[f].m_ip = ip /\ m_clients[f].m_kickAtLogin = 0
            => m_clients[f].acceptedAt + RateLimit < now
      BY <2>3, <2>4, <3>3 DEF RateStamped
    <3>5. RateStamped'
      BY <2>1, <2>2, <2>3, <2>4, <3>2, <3>4 DEF RateStamped
    <3>6. RateLimitSpacing'
      BY <2>1, <2>2, <3>4 DEF RateLimitSpacing
    <3> QED BY <3>5, <3>6
  <2> QED BY <2>5, <2>6
<1> QED BY <1>1, <1>2, <1>3, <1>4, <1>5, <1>6, StepShapes

-----------------------------------------------------------------------------
(* The theorems.                                                           *)

\* The conjunction that is inductive: each part needs Base, the account limit
\* also needs the account table, the spacing the memory of the limiter.
IInv ==
  /\ Base
  /\ OnlineCountExact
  /\ AccountsExact
  /\ ConcurrentLimit
  /\ RateStamped
  /\ RateLimitSpacing

\* Start-up establishes the inductive invariant.
LEMMA InitIInv == Init => IInv
<1> SUFFICES ASSUME Init PROVE IInv
  OBVIOUS
<1>1. TypeOK
  BY LimitAssumption, EmptyMapType DEF Init, TypeOK
<1>2. DOMAIN m_clients = {} /\ DOMAIN m_rateLimiterData = {} /\ DOMAIN m_concurrentAccounts = {}
  BY DEF Init, EmptyMap
<1>3. Base /\ RateStamped /\ RateLimitSpacing
  BY <1>1, <1>2 DEF Base, FdsTracked, RateStamped, RateLimitSpacing
<1>4. Online = {} /\ \A ip : From(ip) = {} /\ Tolerated(ip) = {}
  BY <1>2 DEF Online, From, Tolerated
<1>5. OnlineCountExact
  BY <1>4, FS_EmptySet DEF Init, OnlineCountExact
<1>6. AccountsExact
  BY <1>2, <1>4 DEF AccountsExact
<1>7. ConcurrentLimit
  BY <1>4, FS_EmptySet, LimitAssumption DEF ConcurrentLimit
<1> QED BY <1>3, <1>5, <1>6, <1>7 DEF IInv

\* The inductive invariant holds throughout.
THEOREM Inductive == Spec => []IInv
<1>1. IInv /\ [Next]_vars => IInv'
  BY BaseInductive, OnlineInductive, AccountsInductive, ConcurrentInductive, SpacingInductive DEF IInv
<1> QED BY InitIInv, <1>1, PTL DEF Spec

\* addClient, LOGIN ACK and removeClient: the player count is exact.
THEOREM OnlineCountCorrect == Spec => []OnlineCountExact
<1>1. IInv => OnlineCountExact
  BY DEF IInv
<1> QED BY Inductive, <1>1, PTL

\* addClient and removeClient: the account table is exact.
THEOREM AccountsCorrect == Spec => []AccountsExact
<1>1. IInv => AccountsExact
  BY DEF IInv
<1> QED BY Inductive, <1>1, PTL

\* addClient: the account limit holds for the connections it does not mark.
THEOREM ConcurrentLimitCorrect == Spec => []ConcurrentLimit
<1>1. IInv => ConcurrentLimit
  BY DEF IInv
<1> QED BY Inductive, <1>1, PTL

\* addClient: unmarked connections of an address are a rate limit apart.
THEOREM SpacingCorrect == Spec => []RateLimitSpacing
<1>1. IInv => RateLimitSpacing
  BY DEF IInv
<1> QED BY Inductive, <1>1, PTL

\* LOGIN START and ENCRYPTION RESPONSE: only admitted connections are secured.
THEOREM AdmittedCorrect == Spec => []AdmittedOnly
<1>1. IInv => AdmittedOnly
  BY DEF IInv, Base, Sound, AdmittedOnly
<1> QED BY Inductive, <1>1, PTL

\* The handshake and LOGIN ACK: the states behind login are those of counted
\* players.
THEOREM PastLoginCorrect == Spec => []CountedIffPastLogin
<1>1. IInv => CountedIffPastLogin
  BY DEF IInv, Base, Sound, CountedIffPastLogin
<1> QED BY Inductive, <1>1, PTL

\* onAccept and removeClient: no descriptor is handed out while the table still
\* holds it.
THEOREM FdsCorrect == Spec => []FdsTracked
<1>1. IInv => FdsTracked
  BY DEF IInv, Base
<1> QED BY Inductive, <1>1, PTL

-----------------------------------------------------------------------------
(* ZincServer implements ZincSession, whatever the limits.                 *)

Mapped == [fd \in Fd |-> StageOf(fd)]

\* The stages follow the table: who is not touched by a step keeps its stage.
LEMMA StagesKept ==
  ASSUME NEW fd \in Fd,
         fd \in DOMAIN m_clients' <=> fd \in DOMAIN m_clients,
         fd \in DOMAIN m_clients =>
           m_clients'[fd].m_loginFinished = m_clients[fd].m_loginFinished
  PROVE  StageOf(fd)' = StageOf(fd)
  BY DEF StageOf

\* The players of the session are the counted connections of the table.
LEMMA PlayersAreOnline ==
  ASSUME TypeOK
  PROVE  {fd \in Fd : Mapped[fd] = "player"} = Online
  BY DEF TypeOK, Mapped, StageOf, Online

\* A step of the server moves one connection as the session allows, empties
\* the table, or is not visible.
LEMMA StagesMove ==
  ASSUME Base, [Next]_vars
  PROVE  \/ Mapped' = Mapped
         \/ Mapped' = [fd \in Fd |-> "away"]
         \/ \E fd \in Fd :
              /\ \/ Mapped[fd] = "away" /\ Mapped' = [Mapped EXCEPT ![fd] = "visitor"]
                 \/ Mapped[fd] = "visitor" /\ Mapped' = [Mapped EXCEPT ![fd] = "player"]
                 \/ /\ Mapped[fd] \in {"visitor", "player"}
                    /\ Mapped' = [Mapped EXCEPT ![fd] = "away"]
<1> DEFINE Goal ==
      \/ Mapped' = Mapped
      \/ Mapped' = [fd \in Fd |-> "away"]
      \/ \E fd \in Fd :
           /\ \/ Mapped[fd] = "away" /\ Mapped' = [Mapped EXCEPT ![fd] = "visitor"]
              \/ Mapped[fd] = "visitor" /\ Mapped' = [Mapped EXCEPT ![fd] = "player"]
              \/ /\ Mapped[fd] \in {"visitor", "player"}
                 /\ Mapped' = [Mapped EXCEPT ![fd] = "away"]
<1>1. ASSUME m_clients' = m_clients PROVE Goal
  BY <1>1 DEF Mapped, StageOf
<1>2. CASE Keeps
  BY <1>1, <1>2 DEF Keeps
<1>3. CASE Dies
  <2>1. \A fd \in Fd : StageOf(fd)' = "away"
    BY <1>3 DEF Dies, EmptyMap, StageOf
  <2> QED BY <2>1 DEF Mapped
<1>4. ASSUME NEW fd \in Fd, Leaks(fd) PROVE Goal
  BY <1>1, <1>4 DEF Leaks
<1>5. ASSUME NEW fd \in Fd, Rewrites(fd) PROVE Goal
  <2>1. \A f \in Fd \ {fd} : StageOf(f)' = StageOf(f)
    BY <1>5, RewriteTable DEF StageOf
  <2>2. \/ StageOf(fd)' = StageOf(fd)
        \/ StageOf(fd) = "visitor" /\ StageOf(fd)' = "player"
    BY <1>5, RewriteTable DEF Rewrites, StageOf, Base, TypeOK
  <2> QED BY <2>1, <2>2 DEF Mapped
<1>6. ASSUME NEW fd \in Fd, NEW ip \in IP, Joins(fd, ip) PROVE Goal
  <2>1. \A f \in Fd \ {fd} : StageOf(f)' = StageOf(f)
    BY <1>6, JoinTable DEF StageOf
  <2>2. ~m_clients'[fd].m_loginFinished
    <3>1. m_clients'[fd] = NewConnection(ip, KickVerdict(ip))
      BY <1>6, JoinTable
    <3> QED BY <3>1 DEF NewConnection
  <2>3. StageOf(fd) = "away" /\ StageOf(fd)' = "visitor"
    BY <1>6, <2>2, JoinTable DEF StageOf
  <2> QED BY <2>1, <2>3 DEF Mapped
<1>7. ASSUME NEW fd \in Fd, Leaves(fd) PROVE Goal
  <2>1. \A f \in Fd \ {fd} : StageOf(f)' = StageOf(f)
    BY <1>7, LeaveTable DEF StageOf
  <2>2. StageOf(fd) \in {"visitor", "player"} /\ StageOf(fd)' = "away"
    BY <1>7, LeaveTable DEF StageOf
  <2> QED BY <2>1, <2>2 DEF Mapped
<1> QED BY <1>2, <1>3, <1>4, <1>5, <1>6, <1>7, StepShapes

\* The tables of ZincServer.cpp implement the abstract session: connections
\* arrive, are counted at most once and leave, and m_onlinePlayers is at every
\* moment the number of players.
THEOREM ServerImplementsSession == Spec => SessionSpec
<1>1. ASSUME IInv PROVE m_onlinePlayers = Cardinality({fd \in Fd : Mapped[fd] = "player"})
  BY <1>1, PlayersAreOnline DEF IInv, Base, OnlineCountExact
<1>2. Init => Session!Init
  <2> SUFFICES ASSUME Init PROVE Session!Init
    OBVIOUS
  <2>1. Mapped = [fd \in Fd |-> "away"]
    BY DEF Init, EmptyMap, Mapped, StageOf
  <2>2. m_onlinePlayers = Cardinality({fd \in Fd : Mapped[fd] = "player"})
    BY <1>1, InitIInv
  <2> QED BY <2>1, <2>2 DEF Mapped, Session!Init, Session!Count, Session!Cardinality, Cardinality
<1>3. IInv /\ IInv' /\ [Next]_vars => [Session!Next]_(Session!vars)
  <2> SUFFICES ASSUME IInv, IInv', [Next]_vars PROVE [Session!Next]_(Session!vars)
    OBVIOUS
  <2>1. /\ m_onlinePlayers = Cardinality({fd \in Fd : Mapped[fd] = "player"})
        /\ m_onlinePlayers' = Cardinality({fd \in Fd : Mapped'[fd] = "player"})
    <3>1. TypeOK' => {fd \in Fd : Mapped'[fd] = "player"} = Online'
      BY DEF TypeOK, Mapped, StageOf, Online
    <3> QED BY <1>1, <3>1 DEF IInv, Base, OnlineCountExact
  <2>2. CASE Mapped' = Mapped
    <3>1. m_onlinePlayers' = m_onlinePlayers
      BY <2>1, <2>2
    <3> QED BY <2>2, <3>1 DEF Mapped, Session!vars
  <2>3. CASE Mapped' = [fd \in Fd |-> "away"]
    BY <2>1, <2>3 DEF Mapped, Session!Next, Session!Crash, Session!Cardinality, Cardinality
  <2>4. ASSUME NEW fd \in Fd,
               \/ Mapped[fd] = "away" /\ Mapped' = [Mapped EXCEPT ![fd] = "visitor"]
               \/ Mapped[fd] = "visitor" /\ Mapped' = [Mapped EXCEPT ![fd] = "player"]
               \/ /\ Mapped[fd] \in {"visitor", "player"}
                  /\ Mapped' = [Mapped EXCEPT ![fd] = "away"]
        PROVE  Session!Next
    BY <2>1, <2>4
       DEF Mapped, Session!Next, Session!Join, Session!Promote, Session!Leave, Session!Move,
           Session!Cardinality, Cardinality
  <2> QED BY <2>2, <2>3, <2>4, StagesMove DEF IInv
<1> QED BY <1>2, <1>3, Inductive, PTL DEF Spec, SessionSpec, Session!Spec
=============================================================================
