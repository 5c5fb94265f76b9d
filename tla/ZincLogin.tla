------------------------------ MODULE ZincLogin ------------------------------
(***************************************************************************)
(* ZincServer together with clients that follow the protocol, from connect *)
(* to the disconnect the configuration phase ends in today.                *)
(*                                                                         *)
(* Between a client and its connection lie three queues: uplink (packets   *)
(* on the network), input (packets in the connection's evbuffer, not yet   *)
(* read) and downlink.  Packets arrive whole but in bursts of any length;  *)
(* ZincFraming looks at packets cut in two.  A burst starts ONE read       *)
(* callback, which handles one packet, and goes on with the next only      *)
(* after a handshake (m_shouldContinue): the rest waits for more data.     *)
(*                                                                         *)
(* On an encrypted connection read() decrypts the whole input each time,   *)
(* read or not before, and the cipher's IV moves on over all of it.  What  *)
(* a callback leaves unread is therefore garbled in the next one.          *)
(***************************************************************************)
EXTENDS ZincServer

CONSTANT Nobody                \* no read callback is running
ASSUME NobodyAssumption == Nobody \notin Fd

VARIABLES
  client,                      \* the protocol state of the peer behind each fd
  uplink, input, downlink,     \* the packets between the two
  callback,                    \* the connection whose read callback is running
  inStep                       \* the decryption IV stands at the first unread byte

links   == <<uplink, input, downlink>>
allVars == <<vars, client, links, callback, inStep>>

\* What a client sends, framed in the client's modes.
Upward == {"Handshake", "LoginStart", "EncryptionResponse", "LoginAck", "Brand",
           "ConfigInfo", "KeepAlive", "Ping"}
Away == [phase |-> "away", compressed |-> FALSE, encrypted |-> FALSE]
Frames(c, types, token) ==
  [i \in DOMAIN types |-> [type |-> types[i], token |-> token,
                           compressed |-> c.compressed, encrypted |-> c.encrypted]]

\* What a callback wrote for fd goes down with the token it carries.
Post(fd) ==
  downlink' =
    [downlink EXCEPT ![fd] =
       IF client[fd].phase = "away" THEN <<>>
       ELSE @ \o [i \in DOMAIN sent'[fd] |->
                    [type |-> sent'[fd][i].type, token |-> m_clients'[fd].m_verifyToken,
                     compressed |-> sent'[fd][i].compressed,
                     encrypted |-> sent'[fd][i].encrypted]]]

LoginInit ==
  /\ Init
  /\ client = [fd \in Fd |-> Away]
  /\ uplink = [fd \in Fd |-> <<>>]
  /\ input = [fd \in Fd |-> <<>>]
  /\ downlink = [fd \in Fd |-> <<>>]
  /\ callback = Nobody
  /\ inStep = [fd \in Fd |-> TRUE]

\* The death of the process closes every socket.
EveryoneGone ==
  /\ client' = [fd \in Fd |-> Away]
  /\ uplink' = [fd \in Fd |-> <<>>]
  /\ input' = [fd \in Fd |-> <<>>]
  /\ downlink' = [fd \in Fd |-> <<>>]
  /\ callback' = Nobody
  /\ inStep' = [fd \in Fd |-> TRUE]

-----------------------------------------------------------------------------
(* The clients.                                                            *)

\* Handshake and LOGIN START are sent without waiting for anything.
Connect(fd, ip) ==
  LET c == [Away EXCEPT !.phase = "login"]
  IN  /\ callback = Nobody
      /\ client[fd] = Away
      /\ onAccept(fd, ip)
      /\ client' = [client EXCEPT ![fd] = c]
      /\ uplink' = [uplink EXCEPT ![fd] = Frames(c, <<"Handshake", "LoginStart">>, NoToken)]
      /\ UNCHANGED <<input, downlink, callback, inStep>>

\* The user gives up.
Quit(fd) ==
  /\ client[fd] # Away
  /\ client' = [client EXCEPT ![fd] = Away]
  /\ downlink' = [downlink EXCEPT ![fd] = <<>>]
  /\ UNCHANGED <<vars, uplink, input, callback, inStep>>

Answer(type) ==
  CASE type = "EncryptionRequest" -> <<"EncryptionResponse">>
    [] type = "LoginSuccess" -> <<"LoginAck", "Brand", "ConfigInfo">>
    [] type \in {"KeepAlive", "Ping"} -> <<type>>
    [] OTHER -> <<>>

\* An answer leaves in the modes the client was in when the packet came.
ClientAfter(c, type) ==
  CASE type = "SetCompression" -> [c EXCEPT !.compressed = TRUE]
    [] type = "EncryptionRequest" -> [c EXCEPT !.encrypted = TRUE]
    [] type = "LoginSuccess" -> [c EXCEPT !.phase = "config"]
    [] type = "Disconnect" -> Away
    [] OTHER -> c

Receive(fd) ==
  LET c == client[fd]
      p == Head(downlink[fd])
  IN  /\ downlink[fd] # <<>>
      /\ client' = [client EXCEPT ![fd] = ClientAfter(c, p.type)]
      /\ uplink' = [uplink EXCEPT ![fd] = @ \o Frames(c, Answer(p.type), p.token)]
      /\ downlink' = [downlink EXCEPT ![fd] = IF p.type = "Disconnect" THEN <<>> ELSE Tail(@)]
      /\ UNCHANGED <<vars, input, callback, inStep>>

-----------------------------------------------------------------------------
(* The event loop.                                                         *)

\* The next n packets arrive together.
Deliver(fd, n) ==
  /\ running /\ isConnected(fd) /\ callback = Nobody
  /\ n \in 1..Len(uplink[fd])
  /\ input' = [input EXCEPT ![fd] = @ \o SubSeq(uplink[fd], 1, n)]
  /\ uplink' = [uplink EXCEPT ![fd] = SubSeq(@, n + 1, Len(@))]
  /\ callback' = fd
  /\ UNCHANGED <<vars, client, downlink, inStep>>

Handle(fd, p) ==
  \/ p.type = "Handshake" /\ Handshake(fd, "latest", "Login")
  \/ p.type = "LoginStart" /\ LoginStart(fd, TRUE)
  \/ /\ p.type = "EncryptionResponse"
     /\ \E gotData \in BOOLEAN : EncryptionResponse(fd, p.token, gotData)
  \/ p.type = "LoginAck" /\ LoginAck(fd)
  \/ p.type = "Brand" /\ PluginMessage(fd, "minecraft:brand")
  \/ p.type = "ConfigInfo" /\ \E banned \in BOOLEAN : ConfigInfo(fd, banned)
  \/ p.type = "KeepAlive" /\ KeepAlive(fd, m_clients[fd].m_lastKeepAlive = "sent")
  \/ p.type = "Ping" /\ Ping(fd, p.token)

\* m_shouldContinue after the handler: read() clears it, the handshake sets it.
ContinuesNever(p) == FALSE                        \* faulty: the handshake forgets it
Continues(p) == p.type = "Handshake"

\* One packet read and handled; m_isEncrypted is what it was when it was read.
Serve(fd) ==
  LET p    == Head(input[fd])
      rest == Tail(input[fd])
      encrypted == m_clients[fd].m_isEncrypted
  IN  /\ callback = fd
      /\ encrypted => inStep[fd]
      /\ Handle(fd, p)
      /\ Post(fd)
      /\ input' = [input EXCEPT ![fd] = rest]
      /\ inStep' = [inStep EXCEPT ![fd] = ~encrypted \/ rest = <<>>]
      /\ callback' = IF Continues(p) /\ rest # <<>> THEN fd ELSE Nobody
      /\ UNCHANGED <<client, uplink>>

\* What is read off a garbled input is arbitrary: a length that asks for more
\* data, one that kills the process, or any packet.
Garbled(fd) ==
  /\ callback = fd
  /\ m_clients[fd].m_isEncrypted /\ ~inStep[fd]
  /\ \/ /\ UNCHANGED <<vars, client, links, inStep>>
        /\ callback' = Nobody
     \/ /\ onRead(fd)
        /\ running'
        /\ Post(fd)
        /\ input' = [input EXCEPT ![fd] = <<>>]
        /\ callback' = Nobody
        /\ UNCHANGED <<client, uplink, inStep>>
     \/ Terminate /\ EveryoneGone

\* The peer has closed: EOF, or an error that overtakes what it still sent.
Hangup(fd) ==
  /\ callback = Nobody
  /\ client[fd] = Away
  /\ onEvent(fd)
  /\ IF running'
     THEN /\ uplink' = [uplink EXCEPT ![fd] = <<>>]
          /\ input' = [input EXCEPT ![fd] = <<>>]
          /\ inStep' = [inStep EXCEPT ![fd] = TRUE]
          /\ UNCHANGED <<client, downlink, callback>>
     ELSE EveryoneGone

LoginNext ==
  \/ \E fd \in Fd, ip \in IP : Connect(fd, ip)
  \/ \E fd \in Fd : Quit(fd)
  \/ \E fd \in Fd : Receive(fd)
  \/ \E fd \in Fd : \E n \in 1..Len(uplink[fd]) : Deliver(fd, n)
  \/ \E fd \in Fd : Serve(fd)
  \/ \E fd \in Fd : Garbled(fd)
  \/ \E fd \in Fd : Hangup(fd)
  \/ callback = Nobody /\ Tick /\ UNCHANGED <<client, links, callback, inStep>>
  \/ Restart /\ UNCHANGED <<client, links, callback, inStep>>

\* event_base_dispatch serves every connection whose data or EOF is there, after
\* whatever callback is running (strong fairness, because the callbacks of other
\* connections come between); the network delivers and a client reads.  Nobody
\* is obliged to connect, to quit or to restart the server.
Fairness ==
  \A fd \in Fd :
    /\ SF_allVars(\E n \in 1..Len(uplink[fd]) : Deliver(fd, n))
    /\ SF_allVars(Hangup(fd))
    /\ WF_allVars(Serve(fd) \/ Garbled(fd))
    /\ WF_allVars(Receive(fd))

LoginSpec == LoginInit /\ [][LoginNext]_allVars /\ Fairness

-----------------------------------------------------------------------------
(* Properties.                                                             *)

Framed(p, compressed, encrypted) == p.compressed = compressed /\ p.encrypted = encrypted

\* Each side finds the next packet in the framing it expects: setupCompression,
\* setupEncryption and the replies around them switch modes at the packet where
\* the client does, whatever is in flight.
ModeAgreement ==
  \A fd \in Fd :
    /\ downlink[fd] # <<>> =>
         Framed(Head(downlink[fd]), client[fd].compressed, client[fd].encrypted)
    /\ isConnected(fd) /\ input[fd] # <<>> /\ inStep[fd] =>
         Framed(Head(input[fd]), m_clients[fd].m_isCompressed, m_clients[fd].m_isEncrypted)

\* The token a client returns is the one its connection still compares with: no
\* other handler overwrites m_verifyToken while an answer is on its way.
TokensAgree ==
  \A fd \in DOMAIN m_clients :
    LET onTheWay == input[fd] \o uplink[fd]
    IN  inStep[fd] =>
          \A i \in DOMAIN onTheWay :
            onTheWay[i].type \in {"EncryptionResponse", "Ping"} =>
              onTheWay[i].token = m_clients[fd].m_verifyToken

\* A client that was marked at accept is never counted as a player: LOGIN START
\* refuses it, and without Login Success it does not acknowledge.
KickedNeverCounted ==
  \A fd \in DOMAIN m_clients :
    m_clients[fd].m_loginFinished => m_clients[fd].m_kickAtLogin = 0

\* Every accepted connection ends, by a refusal, a ban, the final disconnect or
\* the client's leaving, unless a burst of encrypted packets was garbled.
LoginEnds == \A fd \in Fd : isConnected(fd) ~> ~isConnected(fd) \/ ~inStep[fd]

\* The server is full at m_maxPlayerCount players.
OnlineWithinMax == m_onlinePlayers <= MaxPlayerCount
=============================================================================
