-------------------------- MODULE ZincLoginProofs --------------------------
(***************************************************************************)
(* Proofs about ZincLogin: for every number of clients and addresses,      *)
(* every limit, with and without compression and online mode, and for      *)
(* every way the packets between a client and its connection are bundled.  *)
(***************************************************************************)
EXTENDS ZincLogin, ZincServerProofs, SequenceTheorems

Token == LoginToken \cup PingToken \cup {NoToken}
Client == [phase : {"away", "login", "config"}, compressed : BOOLEAN, encrypted : BOOLEAN]
UpPacket == [type : Upward, token : Token, compressed : BOOLEAN, encrypted : BOOLEAN]
DownPacket == [type : PacketType, token : Token, compressed : BOOLEAN, encrypted : BOOLEAN]

LinkTypes ==
  /\ client \in [Fd -> Client]
  /\ uplink \in [Fd -> Seq(UpPacket)] /\ input \in [Fd -> Seq(UpPacket)]
  /\ downlink \in [Fd -> Seq(DownPacket)]
  /\ callback \in Fd \cup {Nobody}
  /\ inStep \in [Fd -> BOOLEAN]

-----------------------------------------------------------------------------
(* The inductive invariant.                                                *)

\* Who has gone is back at the start and gets nothing.
GoneQuiet == \A fd \in Fd : client[fd].phase = "away" => client[fd] = Away /\ downlink[fd] = <<>>

\* A read callback runs for a connection of the table that has something to read.
CallbackReads ==
  callback # Nobody => running /\ isConnected(callback) /\ input[callback] # <<>>

\* The rest of the invariant is about one connection: the client c, the record m
\* of the table, the packets to it ("way", read next first), and those from it.
AllFramed(packets, compressed, encrypted) ==
  \A i \in DOMAIN packets : Framed(packets[i], compressed, encrypted)
Has(packets, types) == \E i \in DOMAIN packets : packets[i].type \in types
GoneOr(c, compressed, encrypted) ==
  c.phase # "away" => c.compressed = compressed /\ c.encrypted = encrypted

\* No handler but the handshake's has changed the connection.
Bare(m) == ~m.m_isCompressed /\ ~m.m_isEncrypted /\ m.m_verifyToken = NoToken
Admitted(m) ==
  /\ m.m_state = "Login" /\ m.m_kickAtLogin = 0
  /\ m.m_isCompressed = CompressionOn /\ ~m.m_isEncrypted
  /\ m.m_verifyToken \in LoginToken

\* Handshake and LOGIN START are unread, or only LOGIN START.
Greeting(c, m, way, down) ==
  /\ Bare(m) /\ down = <<>>
  /\ GoneOr(c, FALSE, FALSE) /\ AllFramed(way, FALSE, FALSE)
  /\ \/ /\ m.m_state = "Handshake" /\ Len(way) = 2
        /\ way[1].type = "Handshake" /\ way[2].type = "LoginStart"
     \/ m.m_state = "Login" /\ Len(way) = 1 /\ way[1].type = "LoginStart"

\* LOGIN START was refused.
Refused(c, m, way, down) ==
  /\ Bare(m) /\ m.m_state = "Login" /\ way = <<>>
  /\ GoneOr(c, FALSE, FALSE)
  /\ \A i \in DOMAIN down : down[i].type = "Disconnect" /\ Framed(down[i], FALSE, FALSE)

\* What the answer to an admitted LOGIN START still has to do with the client.
Request(m, p) ==
  p.type = "EncryptionRequest" /\ p.token = m.m_verifyToken /\ Framed(p, CompressionOn, FALSE)
Offered(c, m, way, down) ==
  /\ Admitted(m) /\ way = <<>>
  /\ \/ down = <<>> /\ c.phase = "away"
     \/ Len(down) = 1 /\ Request(m, down[1]) /\ GoneOr(c, CompressionOn, FALSE)
     \/ /\ Len(down) = 2 /\ Request(m, down[2]) /\ GoneOr(c, FALSE, FALSE) /\ CompressionOn
        /\ down[1].type = "SetCompression" /\ Framed(down[1], FALSE, FALSE)

\* Encryption Response is on its way.
Answered(c, m, way, down) ==
  /\ Admitted(m) /\ down = <<>> /\ GoneOr(c, CompressionOn, TRUE)
  /\ Len(way) = 1 /\ way[1].type = "EncryptionResponse"
  /\ way[1].token = m.m_verifyToken /\ Framed(way[1], CompressionOn, FALSE)

\* Both sides encrypt, in step or not.
Secured(c, m, way, down) ==
  /\ m.m_isEncrypted /\ m.m_isCompressed = CompressionOn /\ m.m_kickAtLogin = 0
  /\ AllFramed(way, CompressionOn, TRUE) /\ AllFramed(down, CompressionOn, TRUE)
  /\ GoneOr(c, CompressionOn, TRUE)
  /\ Has(down, {"SetCompression"}) => CompressionOn

\* While nothing was garbled: one Login Success, one CONFIG INFO behind it, and
\* the ping and its answer behind that, with the token the connection has now.
Genuine(m, way, down) ==
  /\ \A i \in DOMAIN way :
       /\ way[i].type \in {"LoginAck", "Brand", "ConfigInfo", "KeepAlive", "Ping"}
       /\ way[i].type = "ConfigInfo" => i = Len(way)
  /\ ~Has(down, {"EncryptionRequest", "SetCompression"})
  /\ Has(down, {"LoginSuccess"}) => Len(down) = 1 /\ way = <<>>
  /\ Has(way, {"ConfigInfo"}) => ~Has(way, {"KeepAlive", "Ping"}) /\ ~Has(down, {"KeepAlive", "Ping"})
  /\ \A i \in DOMAIN way : way[i].type = "Ping" =>
       way[i].token \in PingToken /\ way[i].token = m.m_verifyToken
  /\ \A i \in DOMAIN down : down[i].type = "Ping" =>
       down[i].token \in PingToken /\ down[i].token = m.m_verifyToken

Opening(c, m, way, down) ==
  \/ Greeting(c, m, way, down) \/ Refused(c, m, way, down)
  \/ Offered(c, m, way, down) \/ Answered(c, m, way, down)

Line(c, m, way, down, step) ==
  \/ Opening(c, m, way, down) /\ step
  \/ Secured(c, m, way, down) /\ (step => Genuine(m, way, down))

Way(fd) == input[fd] \o uplink[fd]
LineAt(fd) ==
  IF isConnected(fd) THEN Line(client[fd], m_clients[fd], Way(fd), downlink[fd], inStep[fd])
  ELSE input[fd] = <<>> /\ downlink[fd] = <<>> /\ inStep[fd]
Lines == \A fd \in Fd : LineAt(fd)

LoginIInv == Base /\ LinkTypes /\ GoneQuiet /\ CallbackReads /\ Lines

-----------------------------------------------------------------------------
(* Packets in queues.                                                      *)

\* Concatenation under a name, so that its associativity is found by name.
Cat(s, t) == s \o t

LEMMA Regrouped ==
  ASSUME NEW S, NEW s \in Seq(S), NEW x \in Seq(S), NEW y \in Seq(S)
  PROVE  Cat(Cat(s, x), y) = Cat(s, Cat(x, y))
<1>1. (s \o x) \o y = s \o (x \o y)
  BY ConcatAssociative
<1> QED BY <1>1 DEF Cat

\* A burst moves packets from uplink to input and keeps their order.
Arrived(s, t, n) == s \o SubSeq(t, 1, n)
Still(t, n) == SubSeq(t, n + 1, Len(t))

LEMMA DeliveredWay ==
  ASSUME NEW S, NEW s \in Seq(S), NEW t \in Seq(S), NEW n \in 1 .. Len(t)
  PROVE  /\ Arrived(s, t, n) \o Still(t, n) = s \o t
         /\ Arrived(s, t, n) \in Seq(S) /\ Still(t, n) \in Seq(S)
         /\ Arrived(s, t, n) # <<>>
<1>1. Len(t) \in Nat /\ \A i \in 1 .. Len(t) : t[i] \in S
  OBVIOUS
<1>2. SubSeq(t, 1, n) \in Seq(S) /\ Len(SubSeq(t, 1, n)) = n
  BY <1>1, SubSeqProperties
<1>3. SubSeq(t, n + 1, Len(t)) \in Seq(S)
  <2>1. \A i \in n + 1 .. Len(t) : t[i] \in S
    BY <1>1
  <2> QED BY <1>1, <2>1, SubSeqProperties
<1>4. SubSeq(t, 1, n) \o SubSeq(t, n + 1, Len(t)) = SubSeq(t, 1, Len(t))
  BY <1>1, ConcatAdjacentSubSeq
<1>5. SubSeq(t, 1, Len(t)) = t
  BY SubSeqFull
<1>6. (s \o SubSeq(t, 1, n)) \o SubSeq(t, n + 1, Len(t)) = s \o t
  <2> DEFINE x == SubSeq(t, 1, n)
             y == SubSeq(t, n + 1, Len(t))
  <2>1. x \in Seq(S) /\ y \in Seq(S) /\ s \in Seq(S)
    BY <1>2, <1>3
  <2> HIDE DEF x, y
  <2>2. Cat(Cat(s, x), y) = Cat(s, Cat(x, y))
    BY ONLY <2>1, Regrouped
  <2>3. (s \o x) \o y = s \o (x \o y)
    BY ONLY <2>2 DEF Cat
  <2>4. x \o y = t
    BY <1>4, <1>5 DEF x, y
  <2> QED BY ONLY <2>3, <2>4 DEF x, y
<1>7. s \o SubSeq(t, 1, n) \in Seq(S) /\ Len(s \o SubSeq(t, 1, n)) = Len(s) + n
  BY <1>2, ConcatProperties
<1>8. s \o SubSeq(t, 1, n) # <<>>
  BY <1>7
<1> QED BY <1>3, <1>6, <1>7, <1>8 DEF Arrived, Still

\* Reading a packet takes the first of the way.
LEMMA ReadWay ==
  ASSUME NEW S, NEW s \in Seq(S), NEW t \in Seq(S), s # <<>>
  PROVE  /\ Head(s) = (s \o t)[1] /\ s \o t # <<>>
         /\ Tail(s) \in Seq(S) /\ Tail(s) \o t = Tail(s \o t)
<1>1. /\ Tail(s) \in Seq(S) /\ Len(Tail(s)) = Len(s) - 1 /\ Len(s) \in Nat \ {0} /\ Len(t) \in Nat
      /\ \A i \in 1 .. Len(s) - 1 : Tail(s)[i] = s[i + 1]
      /\ Head(s) = s[1]
  BY HeadTailProperties
<1>2. /\ s \o t \in Seq(S) /\ Len(s \o t) = Len(s) + Len(t)
      /\ \A i \in 1 .. Len(s) + Len(t) : (s \o t)[i] = IF i <= Len(s) THEN s[i] ELSE t[i - Len(s)]
  BY ConcatProperties
<1>3. /\ Tail(s) \o t \in Seq(S) /\ Len(Tail(s) \o t) = Len(s) - 1 + Len(t)
      /\ \A i \in 1 .. Len(s) - 1 + Len(t) :
           (Tail(s) \o t)[i] = IF i <= Len(s) - 1 THEN Tail(s)[i] ELSE t[i - (Len(s) - 1)]
  BY <1>1, ConcatProperties
<1>4. s \o t # <<>>
  BY <1>1, <1>2
<1>5. /\ Tail(s \o t) \in Seq(S) /\ Len(Tail(s \o t)) = Len(s) + Len(t) - 1
      /\ \A i \in 1 .. Len(s) + Len(t) - 1 : Tail(s \o t)[i] = (s \o t)[i + 1]
  BY <1>2, <1>4, HeadTailProperties
<1>6. ASSUME NEW i \in 1 .. Len(s) - 1 + Len(t) PROVE (Tail(s) \o t)[i] = Tail(s \o t)[i]
  <2>1. i + 1 \in 1 .. Len(s) + Len(t) /\ i \in 1 .. Len(s) + Len(t) - 1
    BY <1>1
  <2>2. Tail(s \o t)[i] = IF i + 1 <= Len(s) THEN s[i + 1] ELSE t[(i + 1) - Len(s)]
    BY <1>2, <1>5, <2>1
  <2>3. i <= Len(s) - 1 <=> i + 1 <= Len(s)
    BY <1>1, <2>1
  <2>4. i - (Len(s) - 1) = (i + 1) - Len(s)
    BY <1>1, <2>1
  <2>5. i <= Len(s) - 1 => Tail(s)[i] = s[i + 1]
    BY <1>1
  <2> QED BY <1>3, <2>2, <2>3, <2>4, <2>5
<1>7. Tail(s) \o t = Tail(s \o t)
  <2>1. Len(Tail(s) \o t) = Len(Tail(s \o t))
    BY <1>1, <1>3, <1>5
  <2> QED BY <1>3, <1>5, <1>6, <2>1, SeqEqual
<1>8. Head(s) = (s \o t)[1]
  BY <1>1, <1>2
<1> QED BY <1>1, <1>4, <1>7, <1>8

\* What a concatenation is made of.
LEMMA Joined ==
  ASSUME NEW S, NEW s \in Seq(S), NEW t \in Seq(S)
  PROVE  /\ s \o t \in Seq(S) /\ Len(s \o t) = Len(s) + Len(t)
         /\ DOMAIN (s \o t) = 1 .. Len(s) + Len(t) /\ DOMAIN s = 1 .. Len(s) /\ DOMAIN t = 1 .. Len(t)
         /\ Len(s) \in Nat /\ Len(t) \in Nat
         /\ \A i \in DOMAIN s : (s \o t)[i] = s[i]
         /\ \A i \in DOMAIN t : (s \o t)[Len(s) + i] = t[i]
         /\ \A i \in DOMAIN (s \o t) :
              \/ i \in DOMAIN s
              \/ i - Len(s) \in DOMAIN t /\ (s \o t)[i] = t[i - Len(s)]
<1>1. /\ s \o t \in Seq(S) /\ Len(s \o t) = Len(s) + Len(t)
      /\ \A i \in 1 .. Len(s) + Len(t) : (s \o t)[i] = IF i <= Len(s) THEN s[i] ELSE t[i - Len(s)]
  BY ConcatProperties
<1>2. /\ DOMAIN (s \o t) = 1 .. Len(s) + Len(t) /\ DOMAIN s = 1 .. Len(s) /\ DOMAIN t = 1 .. Len(t)
      /\ Len(s) \in Nat /\ Len(t) \in Nat
  BY <1>1
<1>3. ASSUME NEW i \in DOMAIN s PROVE (s \o t)[i] = s[i]
  BY <1>1, <1>2
<1>4. ASSUME NEW i \in DOMAIN t PROVE (s \o t)[Len(s) + i] = t[i]
  <2>1. Len(s) + i \in 1 .. Len(s) + Len(t) /\ ~(Len(s) + i <= Len(s)) /\ Len(s) + i - Len(s) = i
    BY <1>2
  <2> QED BY <1>1, <2>1
<1>5. ASSUME NEW i \in DOMAIN (s \o t), i \notin DOMAIN s
      PROVE  i - Len(s) \in DOMAIN t /\ (s \o t)[i] = t[i - Len(s)]
  BY <1>1, <1>2, <1>5
<1> QED BY <1>1, <1>2, <1>3, <1>4, <1>5

LEMMA TailFacts ==
  ASSUME NEW S, NEW s \in Seq(S), s # <<>>
  PROVE  /\ Tail(s) \in Seq(S) /\ DOMAIN Tail(s) = 1 .. Len(s) - 1 /\ Len(Tail(s)) = Len(s) - 1
         /\ DOMAIN s = 1 .. Len(s) /\ Len(s) \in Nat \ {0} /\ Head(s) = s[1]
         /\ \A i \in DOMAIN Tail(s) : i + 1 \in DOMAIN s /\ Tail(s)[i] = s[i + 1]
<1>1. /\ Tail(s) \in Seq(S) /\ Len(Tail(s)) = Len(s) - 1
      /\ \A i \in 1 .. Len(Tail(s)) : Tail(s)[i] = s[i + 1]
  BY HeadTailProperties
<1>2. DOMAIN s = 1 .. Len(s) /\ Len(s) \in Nat \ {0} /\ Head(s) = s[1]
  OBVIOUS
<1>3. DOMAIN Tail(s) = 1 .. Len(s) - 1
  BY <1>1, <1>2
<1> QED BY <1>1, <1>2, <1>3

\* What a client answers, framed in its modes.
LEMMA FramesFacts ==
  ASSUME NEW c \in Client, NEW types \in Seq(Upward), NEW token \in Token
  PROVE  /\ Frames(c, types, token) \in Seq(UpPacket)
         /\ Len(Frames(c, types, token)) = Len(types)
         /\ DOMAIN Frames(c, types, token) = DOMAIN types
         /\ \A i \in DOMAIN types :
              Frames(c, types, token)[i] =
                [type |-> types[i], token |-> token,
                 compressed |-> c.compressed, encrypted |-> c.encrypted]
<1>1. /\ DOMAIN types = 1 .. Len(types) /\ Len(types) \in Nat
      /\ \A i \in DOMAIN types : types[i] \in Upward
  OBVIOUS
<1>2. c.compressed \in BOOLEAN /\ c.encrypted \in BOOLEAN
  BY DEF Client
<1>3. ASSUME NEW i \in DOMAIN types
      PROVE  [type |-> types[i], token |-> token,
              compressed |-> c.compressed, encrypted |-> c.encrypted] \in UpPacket
  BY <1>1, <1>2 DEF UpPacket
<1>4. /\ DOMAIN Frames(c, types, token) = 1 .. Len(types)
      /\ \A i \in 1 .. Len(types) : Frames(c, types, token)[i] \in UpPacket
      /\ \A i \in DOMAIN types :
           Frames(c, types, token)[i] =
             [type |-> types[i], token |-> token,
              compressed |-> c.compressed, encrypted |-> c.encrypted]
  BY <1>1, <1>3 DEF Frames
<1>5. Frames(c, types, token) \in [1 .. Len(types) -> UpPacket]
  BY <1>1, <1>3 DEF Frames
<1>6. Frames(c, types, token) \in Seq(UpPacket) /\ Len(Frames(c, types, token)) = Len(types)
  BY <1>1, <1>5
<1> QED BY <1>1, <1>4, <1>6

\* What the callback wrote for a connection d whose client is c.
Stamped(d, p) ==
  [type |-> p.type, token |-> d.m_verifyToken,
   compressed |-> p.compressed, encrypted |-> p.encrypted]
Posted(c, down, d, packets) ==
  IF c.phase = "away" THEN <<>>
  ELSE down \o [i \in DOMAIN packets |-> Stamped(d, packets[i])]

LEMMA StampedFacts ==
  ASSUME NEW d \in Connection, NEW packets \in Seq(WirePacket)
  PROVE  /\ [i \in DOMAIN packets |-> Stamped(d, packets[i])] \in Seq(DownPacket)
         /\ Len([i \in DOMAIN packets |-> Stamped(d, packets[i])]) = Len(packets)
<1>1. /\ DOMAIN packets = 1 .. Len(packets) /\ Len(packets) \in Nat
      /\ \A i \in DOMAIN packets : packets[i] \in WirePacket
  OBVIOUS
<1>2. d.m_verifyToken \in Token
  BY DEF Connection, Token
<1>3. ASSUME NEW i \in DOMAIN packets PROVE Stamped(d, packets[i]) \in DownPacket
  BY <1>1, <1>2 DEF Stamped, WirePacket, DownPacket
<1>4. [i \in DOMAIN packets |-> Stamped(d, packets[i])] \in [1 .. Len(packets) -> DownPacket]
  BY <1>1, <1>3
<1> QED BY <1>1, <1>4

LEMMA PostedFacts ==
  ASSUME NEW c \in Client, NEW down \in Seq(DownPacket),
         NEW d \in Connection, NEW packets \in Seq(WirePacket), NEW post,
         post = Posted(c, down, d, packets)
  PROVE  /\ post \in Seq(DownPacket)
         /\ c.phase = "away" => post = <<>>
         /\ c.phase # "away" =>
              /\ Len(post) = Len(down) + Len(packets)
              /\ \A i \in DOMAIN packets : post[Len(down) + i] = Stamped(d, packets[i])
         /\ \A i \in DOMAIN post :
              \/ i \in DOMAIN down /\ post[i] = down[i]
              \/ /\ i - Len(down) \in DOMAIN packets
                 /\ post[i] = Stamped(d, packets[i - Len(down)])
<1> DEFINE new == [i \in DOMAIN packets |-> Stamped(d, packets[i])]
<1>1. new \in Seq(DownPacket) /\ Len(new) = Len(packets)
  BY StampedFacts
<1>2. DOMAIN new = DOMAIN packets /\ \A i \in DOMAIN packets : new[i] = Stamped(d, packets[i])
  OBVIOUS
<1>3. post = IF c.phase = "away" THEN <<>> ELSE down \o new
  BY DEF Posted
<1> HIDE DEF new
<1>4. /\ down \o new \in Seq(DownPacket) /\ Len(down \o new) = Len(down) + Len(new)
      /\ \A i \in DOMAIN new : (down \o new)[Len(down) + i] = new[i]
      /\ \A i \in DOMAIN down : (down \o new)[i] = down[i]
      /\ \A i \in DOMAIN (down \o new) :
           \/ i \in DOMAIN down
           \/ i - Len(down) \in DOMAIN new /\ (down \o new)[i] = new[i - Len(down)]
  <2>1. /\ down \o new \in Seq(DownPacket) /\ Len(down \o new) = Len(down) + Len(new)
        /\ \A i \in DOMAIN down : (down \o new)[i] = down[i]
    BY <1>1, Joined
  <2>2. \A i \in DOMAIN new : (down \o new)[Len(down) + i] = new[i]
    BY <1>1, Joined
  <2>3. \A i \in DOMAIN (down \o new) :
           \/ i \in DOMAIN down
           \/ i - Len(down) \in DOMAIN new /\ (down \o new)[i] = new[i - Len(down)]
    BY <1>1, Joined
  <2> QED BY <2>1, <2>2, <2>3
<1>5. CASE c.phase = "away"
  BY <1>3, <1>5
<1>6. CASE c.phase # "away"
  <2>1. post = down \o new
    BY <1>3, <1>6
  <2>2. post \in Seq(DownPacket) /\ Len(post) = Len(down) + Len(packets)
    BY <1>1, <1>4, <2>1
  <2>3. \A i \in DOMAIN packets : post[Len(down) + i] = Stamped(d, packets[i])
    BY <1>2, <1>4, <2>1
  <2>4. \A i \in DOMAIN post :
           \/ i \in DOMAIN down /\ post[i] = down[i]
           \/ i - Len(down) \in DOMAIN packets /\ post[i] = Stamped(d, packets[i - Len(down)])
    BY <1>2, <1>4, <2>1
  <2> QED BY <1>6, <2>2, <2>3, <2>4
<1> QED BY <1>5, <1>6

-----------------------------------------------------------------------------
(* What a step does to the line of its connection.                         *)

\* An empty queue has no packet to say anything about.
LEMMA EmptyFacts ==
  /\ <<>> \in Seq(DownPacket) /\ <<>> \in Seq(UpPacket) /\ Len(<<>>) = 0
  /\ \A compressed, encrypted : AllFramed(<<>>, compressed, encrypted)
  /\ \A types : ~Has(<<>>, types)
  /\ \A i \in DOMAIN <<>> : FALSE
  BY DEF AllFramed, Has

LEMMA LastTaken ==
  ASSUME NEW S, NEW s \in Seq(S), Len(s) = 1
  PROVE  Tail(s) = <<>>
<1>1. Tail(s) \in Seq(S) /\ Len(Tail(s)) = 0
  OBVIOUS
<1> QED BY <1>1, EmptySeq

LEMMA SecondOfTwo ==
  ASSUME NEW S, NEW s \in Seq(S), Len(s) = 2
  PROVE  Len(Tail(s)) = 1 /\ Tail(s)[1] = s[2]
<1>1. Len(Tail(s)) = 1
  OBVIOUS
<1>2. \A i \in 1 .. 1 : Tail(s)[i] = s[i + 1]
  <2>1. s # <<>>
    OBVIOUS
  <2>2. \A i \in 1 .. Len(s) - 1 : Tail(s)[i] = s[i + 1]
    BY <2>1, HeadTailProperties
  <2> QED BY <2>2
<1>3. 1 \in 1 .. 1 /\ 1 + 1 = 2
  OBVIOUS
<1> QED BY <1>1, <1>2, <1>3, Zenon

LEMMA PairFacts ==
  ASSUME NEW x, NEW y
  PROVE  LET s == <<x>> \o <<y>>
         IN  Len(s) = 2 /\ 1 \in DOMAIN s /\ 2 \in DOMAIN s /\ s[1] = x /\ s[2] = y
<1> DEFINE S == {x, y}
           s == <<x>> \o <<y>>
<1>1. <<x>> \in Seq(S) /\ <<y>> \in Seq(S) /\ Len(<<x>>) = 1 /\ Len(<<y>>) = 1
  OBVIOUS
<1>2. Len(s) = 2 /\ s \in Seq(S) /\ s[1] = x /\ s[2] = y
  OBVIOUS
<1> QED BY <1>2

\* Quit: whatever was on its way to the client is gone, the rest stands.
LEMMA QuitLine ==
  ASSUME NEW c \in Client, NEW m \in Connection, NEW way \in Seq(UpPacket),
         NEW down \in Seq(DownPacket), NEW step \in BOOLEAN, Line(c, m, way, down, step)
  PROVE  Line(Away, m, way, <<>>, step)
<1>0. Away.phase = "away" /\ \A compressed, encrypted : GoneOr(Away, compressed, encrypted)
  BY DEF Away, GoneOr
<1>1. CASE Opening(c, m, way, down) /\ step
  <2>1. CASE Greeting(c, m, way, down)
    <3>1. Greeting(Away, m, way, <<>>)
      BY <1>0, <2>1 DEF Greeting
    <3> QED BY <1>1, <3>1 DEF Line, Opening
  <2>2. CASE Refused(c, m, way, down)
    <3>1. Refused(Away, m, way, <<>>)
      BY <1>0, <2>2, EmptyFacts DEF Refused
    <3> QED BY <1>1, <3>1 DEF Line, Opening
  <2>3. CASE Offered(c, m, way, down)
    <3>1. Offered(Away, m, way, <<>>)
      BY <1>0, <2>3 DEF Offered
    <3> QED BY <1>1, <3>1 DEF Line, Opening
  <2>4. CASE Answered(c, m, way, down)
    <3>1. Answered(Away, m, way, <<>>)
      BY <1>0, <2>4 DEF Answered
    <3> QED BY <1>1, <3>1 DEF Line, Opening
  <2> QED BY <1>1, <2>1, <2>2, <2>3, <2>4 DEF Opening
<1>2. CASE Secured(c, m, way, down) /\ (step => Genuine(m, way, down))
  <2>1. Secured(Away, m, way, <<>>)
    BY <1>0, <1>2, EmptyFacts DEF Secured
  <2>2. ASSUME Genuine(m, way, down) PROVE Genuine(m, way, <<>>)
    BY <2>2, EmptyFacts DEF Genuine
  <2> QED BY <1>2, <2>1, <2>2 DEF Line
<1> QED BY <1>1, <1>2 DEF Line

\* LOGIN START refused: one Disconnect in the modes of the handshake.
LEMMA RefusedLine ==
  ASSUME NEW c \in Client, NEW m \in Connection, NEW way \in Seq(UpPacket),
         NEW down \in Seq(DownPacket), Greeting(c, m, way, down), m.m_state = "Login"
  PROVE  Refused(c, m, Tail(way), Posted(c, down, m, <<Wire(m, "Disconnect")>>))
<1> DEFINE packets == <<Wire(m, "Disconnect")>>
<1>1. Wire(m, "Disconnect") \in WirePacket
  BY DEF Wire, WirePacket, PacketType, Connection
<1>2. packets \in Seq(WirePacket) /\ DOMAIN packets = {1} /\ packets[1] = Wire(m, "Disconnect")
  BY <1>1
<1> HIDE DEF packets
<1>3. Len(way) = 1 /\ down = <<>> /\ Bare(m) /\ GoneOr(c, FALSE, FALSE)
  BY DEF Greeting
<1>4. Tail(way) = <<>>
  BY <1>3, LastTaken
<1>5. \A i \in DOMAIN Posted(c, down, m, packets) :
        Posted(c, down, m, packets)[i] = Stamped(m, Wire(m, "Disconnect"))
  <2>1. DOMAIN down = {}
    BY <1>3
  <2>2. \A i \in DOMAIN Posted(c, down, m, packets) :
          \/ i \in DOMAIN down
          \/ /\ i - Len(down) \in DOMAIN packets
             /\ Posted(c, down, m, packets)[i] = Stamped(m, packets[i - Len(down)])
    BY <1>2, PostedFacts
  <2> QED BY <1>2, <2>1, <2>2
<1>6. /\ Stamped(m, Wire(m, "Disconnect")).type = "Disconnect"
      /\ Framed(Stamped(m, Wire(m, "Disconnect")), m.m_isCompressed, m.m_isEncrypted)
  BY DEF Stamped, Wire, Framed
<1>7. ~m.m_isCompressed /\ ~m.m_isEncrypted /\ m.m_isCompressed \in BOOLEAN /\ m.m_isEncrypted \in BOOLEAN
  BY <1>3 DEF Bare, Connection
<1>8. m.m_isCompressed = FALSE /\ m.m_isEncrypted = FALSE
  BY <1>7
<1>9. \A i \in DOMAIN Posted(c, down, m, packets) :
        /\ Posted(c, down, m, packets)[i].type = "Disconnect"
        /\ Framed(Posted(c, down, m, packets)[i], FALSE, FALSE)
  BY <1>5, <1>6, <1>8
<1> QED BY <1>3, <1>4, <1>9 DEF Refused, packets

\* The packets of a callback when nothing was on its way to the client.
LEMMA FirstPosted ==
  ASSUME NEW c \in Client, NEW d \in Connection, NEW packets \in Seq(WirePacket)
  PROVE  /\ c.phase = "away" => Posted(c, <<>>, d, packets) = <<>>
         /\ c.phase # "away" =>
              /\ Len(Posted(c, <<>>, d, packets)) = Len(packets)
              /\ \A i \in DOMAIN packets :
                   Posted(c, <<>>, d, packets)[i] = Stamped(d, packets[i])
<1>1. ASSUME NEW post, post = Posted(c, <<>>, d, packets), c.phase # "away"
      PROVE  /\ Len(post) = Len(packets)
             /\ \A i \in DOMAIN packets : post[i] = Stamped(d, packets[i])
  <2>1. PICK down \in Seq(DownPacket) : down = <<>>
    BY EmptyFacts
  <2>4. /\ Len(post) = Len(down) + Len(packets)
        /\ \A i \in DOMAIN packets : post[Len(down) + i] = Stamped(d, packets[i])
    <3>1. post = Posted(c, down, d, packets) /\ c.phase # "away"
      BY <1>1, <2>1
    <3> QED BY ONLY <3>1, PostedFacts
  <2>2. Len(packets) \in Nat /\ \A i \in DOMAIN packets : i \in Nat
    OBVIOUS
  <2>3. Len(down) + Len(packets) = Len(packets) /\ \A i \in DOMAIN packets : Len(down) + i = i
    BY <2>1, <2>2, EmptyFacts
  <2> QED BY <2>3, <2>4
<1> QED BY <1>1 DEF Posted

\* A handler that writes nothing.
LEMMA NothingPosted ==
  ASSUME NEW c \in Client, NEW down \in Seq(DownPacket), NEW d
  PROVE  Posted(c, down, d, <<>>) = IF c.phase = "away" THEN <<>> ELSE down
<1>1. [i \in DOMAIN <<>> |-> Stamped(d, <<>>[i])] = <<>>
  OBVIOUS
<1>2. down \o <<>> = down
  BY ConcatEmptySeq
<1> QED BY <1>1, <1>2 DEF Posted

\* LOGIN START admitted: setupCompression and the encryption request.
LEMMA OfferedLine ==
  ASSUME NEW c \in Client, NEW m \in Connection, NEW way \in Seq(UpPacket),
         NEW down \in Seq(DownPacket), Greeting(c, m, way, down), m.m_state = "Login",
         m.m_kickAtLogin = 0, NEW token \in LoginToken, NEW d, NEW packets,
         d = [setupCompression(m) EXCEPT !.m_verifyToken = token],
         packets = CompressionNotice(m) \o <<Wire(setupCompression(m), "EncryptionRequest")>>,
         d \in Connection, packets \in Seq(WirePacket)
  PROVE  Offered(c, d, Tail(way), Posted(c, down, d, packets))
<1> USE ModeAssumption
<1>1. Len(way) = 1 /\ down = <<>> /\ Bare(m) /\ GoneOr(c, FALSE, FALSE)
  BY DEF Greeting
<1>2. Tail(way) = <<>>
  BY <1>1, LastTaken
<1>3. m.m_isCompressed = FALSE /\ m.m_isEncrypted = FALSE
  BY <1>1 DEF Bare, Connection
<1>4. /\ setupCompression(m).m_isCompressed = CompressionOn
      /\ setupCompression(m).m_isEncrypted = FALSE
      /\ setupCompression(m).m_state = "Login" /\ setupCompression(m).m_kickAtLogin = 0
  BY <1>3 DEF setupCompression, Connection
<1>5. /\ d.m_isCompressed = CompressionOn /\ d.m_isEncrypted = FALSE
      /\ d.m_state = "Login" /\ d.m_kickAtLogin = 0 /\ d.m_verifyToken = token
  <2>1. \A x : x \in {"m_state", "m_kickAtLogin", "m_isCompressed", "m_isEncrypted", "m_verifyToken"}
               => x \in DOMAIN setupCompression(m)
    BY DEF setupCompression, Connection
  <2> QED BY <1>4, <2>1
<1>6. Admitted(d)
  BY <1>5 DEF Admitted
<1> DEFINE post == Posted(c, down, d, packets)
           request == Wire(setupCompression(m), "EncryptionRequest")
           notice == Wire(m, "SetCompression")
<1>7. Request(d, Stamped(d, request))
  BY <1>4, <1>5 DEF Request, Stamped, Wire, Framed
<1>8. Stamped(d, notice).type = "SetCompression" /\ Framed(Stamped(d, notice), FALSE, FALSE)
  BY <1>3 DEF Stamped, Wire, Framed
<1> HIDE DEF request, notice
<1>9. CASE c.phase = "away"
  <2>1. post = <<>>
    BY <1>9 DEF Posted
  <2> QED BY <1>2, <1>6, <1>9, <2>1 DEF Offered
<1>10. CASE c.phase # "away" /\ CompressionOn
  <2>1. packets = <<notice>> \o <<request>>
    BY <1>10 DEF CompressionNotice, notice, request
  <2>2. /\ Len(packets) = 2 /\ 1 \in DOMAIN packets /\ 2 \in DOMAIN packets
        /\ packets[1] = notice /\ packets[2] = request
    BY ONLY <2>1, PairFacts
  <2>3. Len(post) = 2 /\ post[1] = Stamped(d, notice) /\ post[2] = Stamped(d, request)
    BY <1>1, <1>10, <2>2, FirstPosted
  <2> QED BY <1>1, <1>2, <1>6, <1>7, <1>8, <1>10, <2>3 DEF Offered
<1>11. CASE c.phase # "away" /\ ~CompressionOn
  <2>1. packets = <<request>>
    BY <1>11 DEF CompressionNotice, request
  <2>2. Len(packets) = 1 /\ 1 \in DOMAIN packets /\ packets[1] = request
    BY <2>1
  <2>3. Len(post) = 1 /\ post[1] = Stamped(d, request)
    BY <1>1, <1>11, <2>2, FirstPosted
  <2>4. CompressionOn = FALSE
    BY <1>11
  <2> QED BY <1>1, <1>2, <1>6, <1>7, <1>11, <2>3, <2>4 DEF Offered
<1> QED BY <1>9, <1>10, <1>11

\* What read() cuts off the way, and what send() adds to what is on its way down.
LEMMA RestFacts ==
  ASSUME NEW way \in Seq(UpPacket), way # <<>>
  PROVE  /\ Tail(way) \in Seq(UpPacket) /\ Len(Tail(way)) = Len(way) - 1 /\ Len(way) \in Nat
         /\ DOMAIN Tail(way) = 1 .. Len(way) - 1 /\ DOMAIN way = 1 .. Len(way) /\ 1 \in DOMAIN way
         /\ \A i \in DOMAIN Tail(way) : i \in Nat /\ i + 1 \in DOMAIN way /\ Tail(way)[i] = way[i + 1]
  BY TailFacts

\* ENCRYPTION RESPONSE with the right token: both sides encrypt, in step.
LEMMA SecuredLine ==
  ASSUME NEW c \in Client, NEW m \in Connection, NEW way \in Seq(UpPacket),
         NEW down \in Seq(DownPacket), Answered(c, m, way, down),
         NEW verdict \in {"Disconnect", "LoginSuccess"}, NEW d \in Connection,
         d = setupEncryption([m EXCEPT !.m_verifyToken = NoToken])
  PROVE  LET post == Posted(c, down, d, <<Wire(d, verdict)>>)
         IN  Secured(c, d, Tail(way), post) /\ Genuine(d, Tail(way), post)
<1> USE ModeAssumption
<1> DEFINE packets == <<Wire(d, verdict)>>
           post == Posted(c, down, d, packets)
<1>1. Len(way) = 1 /\ down = <<>> /\ GoneOr(c, CompressionOn, TRUE) /\ Admitted(m)
  BY DEF Answered
<1>2. Tail(way) = <<>>
  BY <1>1, LastTaken
<1>3. d.m_isEncrypted = TRUE /\ d.m_isCompressed = CompressionOn /\ d.m_kickAtLogin = 0
  BY <1>1 DEF setupEncryption, Admitted, Connection
<1>4. Wire(d, verdict) \in WirePacket
  BY DEF Wire, WirePacket, PacketType, Connection
<1>5. packets \in Seq(WirePacket) /\ DOMAIN packets = {1} /\ Len(packets) = 1 /\ packets[1] = Wire(d, verdict)
  BY <1>4
<1>6. Stamped(d, Wire(d, verdict)).type = verdict /\ Framed(Stamped(d, Wire(d, verdict)), CompressionOn, TRUE)
  BY <1>3 DEF Stamped, Wire, Framed
<1> HIDE DEF packets
<1>7. post \in Seq(DownPacket)
  BY <1>5, PostedFacts
<1> HIDE DEF post
<1>8. /\ Len(post) \in 0 .. 1 /\ (c.phase = "away" => Len(post) = 0)
      /\ \A i \in DOMAIN post : post[i].type = verdict /\ Framed(post[i], CompressionOn, TRUE)
  <2>1. CASE c.phase = "away"
    <3>1. post = <<>>
      BY <2>1 DEF post, Posted
    <3> QED BY <3>1, EmptyFacts
  <2>2. CASE c.phase # "away"
    <3>1. Len(post) = 1 /\ post[1] = Stamped(d, Wire(d, verdict))
      BY <1>1, <1>5, <2>2, FirstPosted DEF post
    <3>2. DOMAIN post = {1}
      BY <1>7, <3>1
    <3>3. \A i \in DOMAIN post : post[i].type = verdict /\ Framed(post[i], CompressionOn, TRUE)
      BY <1>6, <3>1, <3>2
    <3>4. Len(post) \in 0 .. 1
      BY <3>1
    <3> QED BY <2>2, <3>3, <3>4
  <2> QED BY <2>1, <2>2
<1>9. Secured(c, d, Tail(way), post)
  BY <1>1, <1>2, <1>3, <1>8, EmptyFacts DEF Secured, AllFramed, Has
<1>10. Genuine(d, Tail(way), post)
  <2>1. ASSUME Has(post, {"LoginSuccess"}) PROVE Len(post) = 1
    <3>1. PICK i \in DOMAIN post : TRUE
      BY <2>1 DEF Has
    <3> QED BY <1>7, <1>8, <3>1
  <2> QED BY <1>2, <1>8, <2>1, EmptyFacts DEF Genuine, Has
<1> QED BY <1>9, <1>10 DEF post, packets

\* A reply on a secured connection that is in step: to Brand, KeepAlive, Ping
\* and LOGIN ACK with the old token, or the CONFIG INFO answer with a new one.
LEMMA ReplyLine ==
  ASSUME NEW c \in Client, NEW m \in Connection, NEW way \in Seq(UpPacket),
         NEW down \in Seq(DownPacket), way # <<>>,
         Secured(c, m, way, down), Genuine(m, way, down),
         NEW d \in Connection, NEW packets \in Seq(WirePacket),
         d.m_isEncrypted, d.m_isCompressed = CompressionOn, d.m_kickAtLogin = m.m_kickAtLogin,
         \A i \in DOMAIN packets :
           /\ Framed(packets[i], CompressionOn, TRUE)
           /\ packets[i].type \notin {"EncryptionRequest", "SetCompression", "LoginSuccess"},
         \/ /\ d.m_verifyToken = m.m_verifyToken
            /\ \A i \in DOMAIN packets : packets[i].type \notin {"KeepAlive", "Ping"}
         \/ way[1].type = "ConfigInfo" /\ d.m_verifyToken \in PingToken
  PROVE  LET post == Posted(c, down, d, packets)
         IN  Secured(c, d, Tail(way), post) /\ Genuine(d, Tail(way), post)
<1> DEFINE post == Posted(c, down, d, packets)
           rest == Tail(way)
<1>1. /\ rest \in Seq(UpPacket) /\ Len(rest) = Len(way) - 1 /\ Len(way) \in Nat
      /\ DOMAIN rest = 1 .. Len(way) - 1 /\ DOMAIN way = 1 .. Len(way) /\ 1 \in DOMAIN way
      /\ \A i \in DOMAIN rest : i \in Nat /\ i + 1 \in DOMAIN way /\ rest[i] = way[i + 1]
  BY RestFacts
<1>2. /\ post \in Seq(DownPacket)
      /\ \A i \in DOMAIN post :
           \/ i \in DOMAIN down /\ post[i] = down[i]
           \/ /\ i - Len(down) \in DOMAIN packets
              /\ post[i] = Stamped(d, packets[i - Len(down)])
  BY PostedFacts
<1>3. \A i \in DOMAIN packets :
        /\ Stamped(d, packets[i]).type = packets[i].type
        /\ Stamped(d, packets[i]).token = d.m_verifyToken
        /\ Framed(Stamped(d, packets[i]), CompressionOn, TRUE)
  BY DEF Stamped, Framed
<1> HIDE DEF post, rest
<1>4. ASSUME NEW i \in DOMAIN post
      PROVE  \/ i \in DOMAIN down /\ post[i] = down[i]
             \/ \E j \in DOMAIN packets :
                  /\ post[i].type = packets[j].type /\ post[i].token = d.m_verifyToken
                  /\ Framed(post[i], CompressionOn, TRUE)
  BY <1>2, <1>3
<1>5. ~Has(down, {"LoginSuccess"})
  BY DEF Genuine
<1>6. Secured(c, d, rest, post)
  <2>1. AllFramed(rest, CompressionOn, TRUE)
    BY <1>1 DEF Secured, AllFramed
  <2>2. AllFramed(post, CompressionOn, TRUE)
    BY <1>4 DEF Secured, AllFramed
  <2>3. Has(post, {"SetCompression"}) => CompressionOn
    BY <1>4 DEF Secured, Has
  <2> QED BY <2>1, <2>2, <2>3 DEF Secured
<1>7. ~Has(post, {"EncryptionRequest", "SetCompression", "LoginSuccess"})
  <2>1. ~Has(down, {"EncryptionRequest", "SetCompression"})
    BY DEF Genuine
  <2> QED BY <1>4, <1>5, <2>1 DEF Has
<1>8. \A i \in DOMAIN rest :
        /\ rest[i].type \in {"LoginAck", "Brand", "ConfigInfo", "KeepAlive", "Ping"}
        /\ rest[i].type = "ConfigInfo" => i = Len(rest)
  <2> SUFFICES ASSUME NEW i \in DOMAIN rest
               PROVE  /\ rest[i].type \in {"LoginAck", "Brand", "ConfigInfo", "KeepAlive", "Ping"}
                      /\ rest[i].type = "ConfigInfo" => i = Len(rest)
    OBVIOUS
  <2>1. rest[i] = way[i + 1] /\ i + 1 \in DOMAIN way
    BY <1>1
  <2>2. /\ way[i + 1].type \in {"LoginAck", "Brand", "ConfigInfo", "KeepAlive", "Ping"}
        /\ way[i + 1].type = "ConfigInfo" => i + 1 = Len(way)
    BY <2>1 DEF Genuine
  <2>3. i + 1 = Len(way) => i = Len(rest)
    BY <1>1
  <2> QED BY <2>1, <2>2, <2>3
<1>9. CASE /\ d.m_verifyToken = m.m_verifyToken
           /\ \A i \in DOMAIN packets : packets[i].type \notin {"KeepAlive", "Ping"}
  <2>1. \A i \in DOMAIN post : post[i].type \in {"KeepAlive", "Ping"} => i \in DOMAIN down /\ post[i] = down[i]
    BY <1>4, <1>9
  <2>2. Has(rest, {"ConfigInfo"}) => ~Has(rest, {"KeepAlive", "Ping"}) /\ ~Has(post, {"KeepAlive", "Ping"})
    <3>1. \A types : Has(rest, types) => Has(way, types)
      BY <1>1 DEF Has
    <3>2. Has(post, {"KeepAlive", "Ping"}) => Has(down, {"KeepAlive", "Ping"})
      BY <2>1 DEF Has
    <3> QED BY <3>1, <3>2 DEF Genuine
  <2>3. \A i \in DOMAIN rest : rest[i].type = "Ping" =>
          rest[i].token \in PingToken /\ rest[i].token = d.m_verifyToken
    BY <1>1, <1>9 DEF Genuine
  <2>4. \A i \in DOMAIN post : post[i].type = "Ping" =>
          post[i].token \in PingToken /\ post[i].token = d.m_verifyToken
    BY <1>9, <2>1 DEF Genuine
  <2> QED BY <1>6, <1>7, <1>8, <2>2, <2>3, <2>4 DEF Genuine, Has, post, rest
<1>10. CASE way[1].type = "ConfigInfo" /\ d.m_verifyToken \in PingToken
  <2>1. Len(way) = 1 /\ Has(way, {"ConfigInfo"})
    BY <1>1, <1>10 DEF Genuine, Has
  <2>2. rest = <<>>
    BY <2>1, LastTaken DEF rest
  <2>3. ~Has(down, {"KeepAlive", "Ping"})
    BY <2>1 DEF Genuine
  <2>4. \A i \in DOMAIN post : post[i].type = "Ping" =>
          post[i].token \in PingToken /\ post[i].token = d.m_verifyToken
    BY <1>4, <1>10, <2>3 DEF Has
  <2>5. Genuine(d, rest, post)
    BY <1>7, <2>2, <2>4, EmptyFacts DEF Genuine, Has
  <2> QED BY <1>6, <2>5 DEF post, rest
<1> QED BY <1>9, <1>10

\* What each packet makes a client do.
LEMMA AnswerFacts ==
  ASSUME NEW c \in Client
  PROVE  /\ \A type \in PacketType : Answer(type) \in Seq(Upward) /\ ClientAfter(c, type) \in Client
         /\ Answer("EncryptionRequest") = <<"EncryptionResponse">>
         /\ ClientAfter(c, "EncryptionRequest") = [c EXCEPT !.encrypted = TRUE]
         /\ Answer("SetCompression") = <<>>
         /\ ClientAfter(c, "SetCompression") = [c EXCEPT !.compressed = TRUE]
         /\ Answer("LoginSuccess") = <<"LoginAck", "Brand", "ConfigInfo">>
         /\ ClientAfter(c, "LoginSuccess") = [c EXCEPT !.phase = "config"]
         /\ Answer("Disconnect") = <<>> /\ ClientAfter(c, "Disconnect") = Away
         /\ \A type \in {"KeepAlive", "Ping"} : Answer(type) = <<type>>
         /\ \A type : type \notin {"EncryptionRequest", "SetCompression", "LoginSuccess", "Disconnect"}
                      => ClientAfter(c, type) = c
         /\ \A type : type \notin {"EncryptionRequest", "LoginSuccess", "KeepAlive", "Ping"}
                      => Answer(type) = <<>>
<1>1. /\ Answer("EncryptionRequest") = <<"EncryptionResponse">>
      /\ Answer("SetCompression") = <<>> /\ Answer("Disconnect") = <<>>
      /\ Answer("LoginSuccess") = <<"LoginAck", "Brand", "ConfigInfo">>
  BY DEF Answer
<1>2. \A type \in {"KeepAlive", "Ping"} : Answer(type) = <<type>>
  BY DEF Answer
<1>3. \A type : type \notin {"EncryptionRequest", "LoginSuccess", "KeepAlive", "Ping"}
                => Answer(type) = <<>>
  BY DEF Answer
<1>4. /\ ClientAfter(c, "EncryptionRequest") = [c EXCEPT !.encrypted = TRUE]
      /\ ClientAfter(c, "SetCompression") = [c EXCEPT !.compressed = TRUE]
      /\ ClientAfter(c, "LoginSuccess") = [c EXCEPT !.phase = "config"]
      /\ ClientAfter(c, "Disconnect") = Away
  BY DEF ClientAfter
<1>5. \A type : type \notin {"EncryptionRequest", "SetCompression", "LoginSuccess", "Disconnect"}
                => ClientAfter(c, type) = c
  BY DEF ClientAfter
<1>6. ASSUME NEW type \in PacketType PROVE Answer(type) \in Seq(Upward)
  <2>1. /\ <<"EncryptionResponse">> \in Seq(Upward) /\ <<>> \in Seq(Upward)
        /\ <<"LoginAck", "Brand", "ConfigInfo">> \in Seq(Upward)
        /\ <<"KeepAlive">> \in Seq(Upward) /\ <<"Ping">> \in Seq(Upward)
    BY DEF Upward
  <2> QED BY <1>1, <1>2, <1>3, <2>1
<1>7. ASSUME NEW type \in PacketType PROVE ClientAfter(c, type) \in Client
  <2>1. /\ Away \in Client /\ [c EXCEPT !.encrypted = TRUE] \in Client
        /\ [c EXCEPT !.compressed = TRUE] \in Client /\ [c EXCEPT !.phase = "config"] \in Client
    BY DEF Client, Away
  <2> QED BY <1>4, <1>5, <2>1
<1> QED BY <1>1, <1>2, <1>3, <1>4, <1>5, <1>6, <1>7

\* Opening of a connection, as its client reads it.
LEMMA ReceiveOpening ==
  ASSUME NEW c \in Client, NEW m \in Connection, NEW way \in Seq(UpPacket),
         NEW down \in Seq(DownPacket), down # <<>>, c.phase # "away",
         Opening(c, m, way, down), NEW p, p = down[1],
         NEW more, more = Frames(c, Answer(p.type), p.token)
  PROVE  Opening(ClientAfter(c, p.type), m, way \o more,
                 IF p.type = "Disconnect" THEN <<>> ELSE Tail(down))
<1> USE ModeAssumption
<1>1. 1 \in DOMAIN down /\ p \in DownPacket
  BY EmptySeq
<1>2. p.type \in PacketType /\ p.token \in Token
  BY <1>1 DEF DownPacket
<1>3. /\ more \in Seq(UpPacket) /\ Len(more) = Len(Answer(p.type))
      /\ \A i \in DOMAIN Answer(p.type) :
           more[i] = [type |-> Answer(p.type)[i], token |-> p.token,
                      compressed |-> c.compressed, encrypted |-> c.encrypted]
  BY <1>2, AnswerFacts, FramesFacts
<1>4. Answer(p.type) = <<>> => way \o more = way
  <2>1. Answer(p.type) = <<>> => more = <<>>
    BY <1>3, EmptySeq
  <2> QED BY <2>1, ConcatEmptySeq
<1>5. CASE Greeting(c, m, way, down)
  BY <1>5 DEF Greeting
<1>6. CASE Refused(c, m, way, down)
  <2>1. p.type = "Disconnect"
    BY <1>1, <1>6 DEF Refused
  <2>2. ClientAfter(c, p.type) = Away /\ way \o more = way
    BY <1>4, <2>1, AnswerFacts
  <2>3. Refused(Away, m, way, <<>>)
    BY <1>6, EmptyFacts DEF Refused, GoneOr, Away
  <2> QED BY <2>1, <2>2, <2>3 DEF Opening
<1>7. CASE Offered(c, m, way, down) /\ Len(down) = 1
  <2>1. /\ Admitted(m) /\ way = <<>> /\ p.type = "EncryptionRequest" /\ p.token = m.m_verifyToken
        /\ c.compressed = CompressionOn /\ c.encrypted = FALSE
    BY <1>7 DEF Offered, Request, GoneOr
  <2>2. ClientAfter(c, p.type) = [c EXCEPT !.encrypted = TRUE] /\ Answer(p.type) = <<"EncryptionResponse">>
    BY <2>1, AnswerFacts
  <2>3. Tail(down) = <<>>
    BY <1>7, LastTaken
  <2>4. GoneOr([c EXCEPT !.encrypted = TRUE], CompressionOn, TRUE)
    BY <2>1 DEF GoneOr, Client
  <2>5. /\ Len(more) = 1
        /\ more[1] = [type |-> "EncryptionResponse", token |-> p.token,
                      compressed |-> c.compressed, encrypted |-> c.encrypted]
    BY <1>3, <2>2
  <2>6. more[1].type = "EncryptionResponse" /\ more[1].token = m.m_verifyToken /\ Framed(more[1], CompressionOn, FALSE)
    BY <2>1, <2>5 DEF Framed
  <2>7. way \o more = more
    BY <1>3, <2>1, ConcatEmptySeq
  <2>8. Answered([c EXCEPT !.encrypted = TRUE], m, more, <<>>)
    BY <2>1, <2>4, <2>5, <2>6 DEF Answered
  <2> QED BY <2>1, <2>2, <2>3, <2>7, <2>8 DEF Opening
<1>8. CASE Offered(c, m, way, down) /\ Len(down) # 1
  <2>1. /\ Admitted(m) /\ way = <<>> /\ Len(down) = 2 /\ Request(m, down[2]) /\ CompressionOn
        /\ p.type = "SetCompression" /\ c.compressed = FALSE /\ c.encrypted = FALSE
    BY <1>8 DEF Offered, GoneOr
  <2>2. ClientAfter(c, p.type) = [c EXCEPT !.compressed = TRUE] /\ way \o more = way
    BY <1>4, <2>1, AnswerFacts
  <2>3. Len(Tail(down)) = 1 /\ Tail(down)[1] = down[2]
    BY ONLY <2>1, SecondOfTwo
  <2>4. GoneOr([c EXCEPT !.compressed = TRUE], CompressionOn, FALSE)
    BY <2>1 DEF GoneOr, Client
  <2>5. Offered([c EXCEPT !.compressed = TRUE], m, way, Tail(down))
    BY <2>1, <2>3, <2>4 DEF Offered
  <2> QED BY <2>1, <2>2, <2>5 DEF Opening
<1>9. CASE Answered(c, m, way, down)
  BY <1>9 DEF Answered
<1> QED BY <1>5, <1>6, <1>7, <1>8, <1>9 DEF Opening

\* A secured connection, as its client reads it.
LEMMA ReceiveSecured ==
  ASSUME NEW c \in Client, NEW m \in Connection, NEW way \in Seq(UpPacket),
         NEW down \in Seq(DownPacket), down # <<>>, c.phase # "away",
         Secured(c, m, way, down), NEW p, p = down[1],
         NEW more, more = Frames(c, Answer(p.type), p.token),
         NEW left, left = IF p.type = "Disconnect" THEN <<>> ELSE Tail(down)
  PROVE  /\ Secured(ClientAfter(c, p.type), m, way \o more, left)
         /\ Genuine(m, way, down) => Genuine(m, way \o more, left)
<1> USE ModeAssumption
<1>1. 1 \in DOMAIN down /\ p \in DownPacket
  BY EmptySeq
<1>2. p.type \in PacketType /\ p.token \in Token
  BY <1>1 DEF DownPacket
<1>3. /\ c.compressed = CompressionOn /\ c.encrypted = TRUE /\ c.compressed \in BOOLEAN
  BY DEF Secured, GoneOr, Client
<1>4. /\ more \in Seq(UpPacket) /\ Len(more) = Len(Answer(p.type))
      /\ DOMAIN more = DOMAIN Answer(p.type)
      /\ \A i \in DOMAIN Answer(p.type) :
           more[i] = [type |-> Answer(p.type)[i], token |-> p.token,
                      compressed |-> c.compressed, encrypted |-> c.encrypted]
  BY <1>2, AnswerFacts, FramesFacts
<1>5. \A i \in DOMAIN more : /\ more[i].type = Answer(p.type)[i] /\ more[i].token = p.token
                             /\ Framed(more[i], CompressionOn, TRUE)
  <2> SUFFICES ASSUME NEW i \in DOMAIN more
               PROVE  /\ more[i].type = Answer(p.type)[i] /\ more[i].token = p.token
                      /\ Framed(more[i], CompressionOn, TRUE)
    OBVIOUS
  <2>1. more[i] = [type |-> Answer(p.type)[i], token |-> p.token,
                   compressed |-> c.compressed, encrypted |-> c.encrypted]
    BY ONLY <1>4
  <2> QED BY ONLY <1>3, <2>1 DEF Framed
<1>6. /\ way \o more \in Seq(UpPacket) /\ Len(way \o more) = Len(way) + Len(more)
      /\ Len(way) \in Nat /\ Len(more) \in Nat
      /\ \A i \in DOMAIN (way \o more) :
           \/ i \in DOMAIN way /\ (way \o more)[i] = way[i]
           \/ i - Len(way) \in DOMAIN more /\ (way \o more)[i] = more[i - Len(way)]
  BY <1>4, Joined
<1>7. /\ left \in Seq(DownPacket)
      /\ \A i \in DOMAIN left : i + 1 \in DOMAIN down /\ left[i] = down[i + 1]
      /\ Len(down) = 1 => left = <<>>
  <2>1. CASE p.type = "Disconnect"
    BY <2>1, EmptyFacts
  <2>2. CASE p.type # "Disconnect"
    BY <2>2, TailFacts, LastTaken
  <2> QED BY <2>1, <2>2
<1>8. \A types : Has(left, types) => Has(down, types)
  BY <1>7 DEF Has
<1>9. GoneOr(ClientAfter(c, p.type), CompressionOn, TRUE)
  <2>1. CASE p.type = "SetCompression"
    <3>1. CompressionOn
      BY <1>1, <2>1 DEF Secured, Has
    <3>2. [c EXCEPT !.compressed = TRUE].compressed = TRUE /\ [c EXCEPT !.compressed = TRUE].encrypted = TRUE
      BY <1>3 DEF Client
    <3> QED BY <2>1, <3>1, <3>2, AnswerFacts DEF GoneOr
  <2>2. CASE p.type = "EncryptionRequest"
    <3>1. /\ [c EXCEPT !.encrypted = TRUE].compressed = CompressionOn
          /\ [c EXCEPT !.encrypted = TRUE].encrypted = TRUE
      BY <1>3 DEF Client
    <3> QED BY <2>2, <3>1, AnswerFacts DEF GoneOr
  <2>3. CASE p.type = "LoginSuccess"
    <3>1. /\ [c EXCEPT !.phase = "config"].compressed = CompressionOn
          /\ [c EXCEPT !.phase = "config"].encrypted = TRUE
      BY <1>3 DEF Client
    <3> QED BY <2>3, <3>1, AnswerFacts DEF GoneOr
  <2>4. CASE p.type = "Disconnect"
    BY <2>4, AnswerFacts DEF GoneOr, Away
  <2>5. CASE p.type \notin {"EncryptionRequest", "SetCompression", "LoginSuccess", "Disconnect"}
    <3>1. ClientAfter(c, p.type) = c
      BY <2>5, AnswerFacts
    <3> QED BY <1>3, <3>1 DEF GoneOr
  <2> QED BY <2>1, <2>2, <2>3, <2>4, <2>5
<1>10. Secured(ClientAfter(c, p.type), m, way \o more, left)
  <2>1. AllFramed(way \o more, CompressionOn, TRUE)
    <3>1. \A i \in DOMAIN way : Framed(way[i], CompressionOn, TRUE)
      BY DEF Secured, AllFramed
    <3>2. \A i \in DOMAIN (way \o more) : Framed((way \o more)[i], CompressionOn, TRUE)
      BY ONLY <1>5, <1>6, <3>1
    <3> QED BY <3>2 DEF AllFramed
  <2>2. AllFramed(left, CompressionOn, TRUE)
    BY <1>7 DEF Secured, AllFramed
  <2> QED BY <1>8, <1>9, <2>1, <2>2 DEF Secured
<1>11. ASSUME Genuine(m, way, down) PROVE Genuine(m, way \o more, left)
  <2>1. /\ ~Has(left, {"EncryptionRequest", "SetCompression"})
        /\ Has(left, {"LoginSuccess"}) => FALSE
        /\ p.type \notin {"EncryptionRequest", "SetCompression"}
    <3>1. ~Has(left, {"EncryptionRequest", "SetCompression"})
      BY <1>8, <1>11 DEF Genuine
    <3>2. p.type \notin {"EncryptionRequest", "SetCompression"}
      BY <1>1, <1>11 DEF Genuine, Has
    <3>3. ~Has(left, {"LoginSuccess"})
      <4> SUFFICES ASSUME Has(left, {"LoginSuccess"}) PROVE FALSE
        OBVIOUS
      <4>1. Len(down) = 1
        BY <1>8, <1>11 DEF Genuine
      <4>2. left = <<>>
        BY <1>7, <4>1
      <4> QED BY <4>2, EmptyFacts
    <3> QED BY <3>1, <3>2, <3>3
  <2>2. \A i \in DOMAIN left : left[i].type = "Ping" =>
          left[i].token \in PingToken /\ left[i].token = m.m_verifyToken
    BY <1>7, <1>11 DEF Genuine
  <2>3. CASE p.type = "LoginSuccess"
    <3>1. Len(down) = 1 /\ way = <<>>
      BY <1>1, <1>11, <2>3 DEF Genuine, Has
    <3>2. left = <<>> /\ way \o more = more
      BY <1>4, <1>7, <3>1, ConcatEmptySeq
    <3>3. /\ Len(more) = 3 /\ DOMAIN more = 1 .. 3
          /\ more[1].type = "LoginAck" /\ more[2].type = "Brand" /\ more[3].type = "ConfigInfo"
      <4>1. Answer(p.type) = <<"LoginAck", "Brand", "ConfigInfo">>
        BY <2>3, AnswerFacts
      <4>2. /\ Len(Answer(p.type)) = 3 /\ DOMAIN Answer(p.type) = 1 .. 3
            /\ Answer(p.type)[1] = "LoginAck" /\ Answer(p.type)[2] = "Brand"
            /\ Answer(p.type)[3] = "ConfigInfo"
        BY ONLY <4>1
      <4>3. 1 \in 1 .. 3 /\ 2 \in 1 .. 3 /\ 3 \in 1 .. 3
        OBVIOUS
      <4> QED BY ONLY <1>4, <1>5, <4>2, <4>3
    <3>4. \A i \in DOMAIN more :
            more[i].type \in {"LoginAck", "Brand", "ConfigInfo"} /\ (more[i].type = "ConfigInfo" => i = Len(more))
      BY <3>3
    <3>5. ~Has(more, {"KeepAlive", "Ping"})
      BY <3>4 DEF Has
    <3> QED BY <2>1, <3>2, <3>4, <3>5, EmptyFacts DEF Genuine
  <2>4. CASE p.type \in {"KeepAlive", "Ping"}
    <3>1. ~Has(way, {"ConfigInfo"})
      BY <1>1, <1>11, <2>4 DEF Genuine, Has
    <3>2. DOMAIN more = {1} /\ more[1].type = p.type /\ more[1].token = p.token
      <4>1. Answer(p.type) = <<p.type>>
        BY <2>4, AnswerFacts
      <4>2. DOMAIN Answer(p.type) = {1} /\ Answer(p.type)[1] = p.type
        BY ONLY <4>1
      <4> QED BY ONLY <1>4, <1>5, <4>2
    <3>3. \A i \in DOMAIN (way \o more) :
            \/ i \in DOMAIN way /\ (way \o more)[i] = way[i]
            \/ (way \o more)[i].type = p.type /\ (way \o more)[i].token = p.token
      BY <1>6, <3>2
    <3>4. p.type = "Ping" => p.token \in PingToken /\ p.token = m.m_verifyToken
      BY <1>1, <1>11 DEF Genuine
    <3>5. \A i \in DOMAIN (way \o more) :
            (way \o more)[i].type \in {"LoginAck", "Brand", "KeepAlive", "Ping"}
      BY <1>11, <2>4, <3>1, <3>3 DEF Genuine, Has
    <3>6. \A i \in DOMAIN (way \o more) : (way \o more)[i].type = "Ping" =>
            (way \o more)[i].token \in PingToken /\ (way \o more)[i].token = m.m_verifyToken
      BY <1>11, <3>3, <3>4 DEF Genuine
    <3> QED BY <2>1, <2>2, <3>5, <3>6 DEF Genuine, Has
  <2>5. CASE p.type \notin {"LoginSuccess", "KeepAlive", "Ping"}
    <3>1. Answer(p.type) = <<>>
      BY <2>1, <2>5, AnswerFacts
    <3>2. more = <<>>
      BY <1>4, <3>1, EmptySeq
    <3>3. way \o more = way
      BY <3>2, ConcatEmptySeq
    <3> QED BY <1>8, <1>11, <2>1, <2>2, <3>3 DEF Genuine
  <2> QED BY <2>3, <2>4, <2>5
<1> QED BY <1>10, <1>11

\* Receive: the client reads the first packet and answers it.
LEMMA ReceiveLine ==
  ASSUME NEW c \in Client, NEW m \in Connection, NEW way \in Seq(UpPacket),
         NEW down \in Seq(DownPacket), NEW step \in BOOLEAN,
         down # <<>>, c.phase # "away", Line(c, m, way, down, step), NEW p, p = down[1]
  PROVE  Line(ClientAfter(c, p.type), m, way \o Frames(c, Answer(p.type), p.token),
              IF p.type = "Disconnect" THEN <<>> ELSE Tail(down), step)
  BY ReceiveOpening, ReceiveSecured DEF Line

\* What a handler that goes through leaves in the table and writes.
Answers(fd, d, packets) ==
  /\ m_clients' = [m_clients EXCEPT ![fd] = d]
  /\ sent' = [f \in Fd |-> IF f = fd THEN packets ELSE <<>>]

LEMMA AnswersBy ==
  ASSUME TypeOK, NEW fd \in Fd, isConnected(fd)
  PROVE  /\ m_clients[fd] \in Connection
         /\ \A types : Reply(fd, types) =>
              Answers(fd, m_clients[fd], [i \in DOMAIN types |-> Wire(m_clients[fd], types[i])])
         /\ sendDisconnect(fd) => Answers(fd, m_clients[fd], <<Wire(m_clients[fd], "Disconnect")>>)
         /\ Reply(fd, <<>>) => Answers(fd, m_clients[fd], <<>>)
         /\ \A d : Update(fd, d) /\ Silent => Answers(fd, d, <<>>)
         /\ \A d, packets : Update(fd, d) /\ Send(fd, packets) => Answers(fd, d, packets)
<1>1. m_clients[fd] \in Connection
  BY DEF TypeOK, isConnected
<1>2. m_clients = [m_clients EXCEPT ![fd] = m_clients[fd]]
  BY DEF TypeOK
<1>3. \A types : Reply(fd, types) =>
        Answers(fd, m_clients[fd], [i \in DOMAIN types |-> Wire(m_clients[fd], types[i])])
  BY <1>2 DEF Reply, Answers, Send
<1>4. /\ [i \in DOMAIN <<"Disconnect">> |-> Wire(m_clients[fd], <<"Disconnect">>[i])]
           = <<Wire(m_clients[fd], "Disconnect")>>
      /\ [i \in DOMAIN <<>> |-> Wire(m_clients[fd], <<>>[i])] = <<>>
  OBVIOUS
<1>5. /\ sendDisconnect(fd) => Answers(fd, m_clients[fd], <<Wire(m_clients[fd], "Disconnect")>>)
      /\ Reply(fd, <<>>) => Answers(fd, m_clients[fd], <<>>)
  BY <1>3, <1>4 DEF sendDisconnect
<1>6. \A d : Update(fd, d) /\ Silent => Answers(fd, d, <<>>)
  BY DEF Update, Silent, Answers
<1>7. \A d, packets : Update(fd, d) /\ Send(fd, packets) => Answers(fd, d, packets)
  BY DEF Update, Send, Answers
<1> QED BY <1>1, <1>3, <1>5, <1>6, <1>7

\* What any handler leaves of a secured connection, whatever it thinks it read.
StaysSecured(fd) ==
  \E d \in Connection, packets \in Seq(WirePacket) :
    /\ Answers(fd, d, packets)
    /\ d.m_isEncrypted /\ d.m_isCompressed = CompressionOn
    /\ d.m_kickAtLogin = m_clients[fd].m_kickAtLogin
    /\ \A i \in DOMAIN packets :
         /\ Framed(packets[i], CompressionOn, TRUE)
         /\ packets[i].type = "SetCompression" => CompressionOn

LEMMA SecuredRead ==
  ASSUME TypeOK, NEW fd \in Fd, onRead(fd), running',
         m_clients[fd].m_isEncrypted, m_clients[fd].m_isCompressed = CompressionOn
  PROVE  StaysSecured(fd)
<1> USE ModeAssumption
<1> DEFINE c == m_clients[fd]
           Good(p) == Framed(p, CompressionOn, TRUE) /\ (p.type = "SetCompression" => CompressionOn)
<1>0. ASSUME isConnected(fd)
      PROVE  c \in Connection /\ c.m_isEncrypted = TRUE /\ c.m_isCompressed = CompressionOn
  BY <1>0, AnswersBy DEF Connection
<1>1. ASSUME isConnected(fd), NEW d \in Connection, NEW packets \in Seq(WirePacket),
             Answers(fd, d, packets), d.m_isEncrypted, d.m_isCompressed = CompressionOn,
             d.m_kickAtLogin = c.m_kickAtLogin, \A i \in DOMAIN packets : Good(packets[i])
      PROVE  StaysSecured(fd)
  BY <1>1 DEF StaysSecured
<1>2. ASSUME NEW d \in Connection, NEW t \in PacketType, d.m_isEncrypted, d.m_isCompressed = CompressionOn,
             t = "SetCompression" => CompressionOn
      PROVE  Wire(d, t) \in WirePacket /\ Good(Wire(d, t))
  BY <1>2 DEF Wire, WirePacket, Framed, Connection
<1>3. ASSUME isConnected(fd), NEW types \in Seq(PacketType), Reply(fd, types),
             \A i \in DOMAIN types : types[i] # "SetCompression"
      PROVE  StaysSecured(fd)
  <2> DEFINE packets == [i \in DOMAIN types |-> Wire(c, types[i])]
  <2>1. packets \in Seq(WirePacket)
    BY <1>0, <1>3, ReplyType
  <2>2. Answers(fd, c, packets)
    BY <1>3, AnswersBy
  <2>3. \A i \in DOMAIN packets : Good(packets[i])
    <3>1. \A i \in DOMAIN types : types[i] \in PacketType
      OBVIOUS
    <3> QED BY <1>0, <1>2, <1>3, <3>1
  <2> HIDE DEF packets
  <2> QED BY <1>0, <1>1, <1>3, <2>1, <2>2, <2>3
<1>4. ASSUME isConnected(fd), sendDisconnect(fd) PROVE StaysSecured(fd)
  <2>1. \A i \in DOMAIN <<"Disconnect">> : <<"Disconnect">>[i] # "SetCompression"
    OBVIOUS
  <2> QED BY <1>3, <1>4, <2>1, ReplyLists DEF sendDisconnect
<1>5. ASSUME isConnected(fd), NEW d \in Connection, Update(fd, d), Silent,
             d.m_isEncrypted, d.m_isCompressed = CompressionOn, d.m_kickAtLogin = c.m_kickAtLogin
      PROVE  StaysSecured(fd)
  <2>1. Answers(fd, d, <<>>)
    BY <1>5, AnswersBy
  <2>2. <<>> \in Seq(WirePacket) /\ \A i \in DOMAIN <<>> : Good(<<>>[i])
    OBVIOUS
  <2> QED BY <1>1, <1>5, <2>1, <2>2
<1>6. ASSUME Terminate PROVE FALSE
  BY <1>6 DEF Terminate
<1>7. ASSUME NEW version \in Version \ {"unset"}, NEW intent \in State,
             Handshake(fd, version, intent)
      PROVE  StaysSecured(fd)
  <2> DEFINE d == [c EXCEPT !.m_protocolVersion = version, !.m_state = NextState(intent)]
  <2>1. isConnected(fd) /\ Update(fd, d) /\ Silent
    BY <1>7 DEF Handshake, Read
  <2>2. /\ d \in Connection /\ d.m_isEncrypted /\ d.m_isCompressed = CompressionOn
        /\ d.m_kickAtLogin = c.m_kickAtLogin
    BY <1>0, <2>1 DEF NextState, Connection, State
  <2> QED BY <1>5, <2>1, <2>2
<1>8. ASSUME Status(fd) PROVE StaysSecured(fd)
  <2>1. isConnected(fd)
    BY <1>8 DEF Status, Read
  <2>2. /\ \A i \in DOMAIN <<"StatusResponse">> : <<"StatusResponse">>[i] # "SetCompression"
        /\ \A i \in DOMAIN <<"Echo">> : <<"Echo">>[i] # "SetCompression"
    OBVIOUS
  <2>3. Reply(fd, <<"StatusResponse">>) \/ Reply(fd, <<"Echo">>)
    BY <1>8 DEF Status
  <2>4. CASE Reply(fd, <<"StatusResponse">>)
    BY <1>3, <2>1, <2>2, <2>4, ReplyLists
  <2>5. CASE Reply(fd, <<"Echo">>)
    BY <1>3, <2>1, <2>2, <2>5, ReplyLists
  <2> QED BY <2>3, <2>4, <2>5
<1>9. ASSUME NEW nameFits \in BOOLEAN, LoginStart(fd, nameFits) PROVE StaysSecured(fd)
  <2> DEFINE z == setupCompression(c)
             packets == CompressionNotice(c) \o <<Wire(z, "EncryptionRequest")>>
  <2>1. isConnected(fd)
    BY <1>9 DEF LoginStart, Read
  <2>2. z \in Connection /\ z.m_isEncrypted /\ z.m_isCompressed = CompressionOn
        /\ z.m_kickAtLogin = c.m_kickAtLogin
    BY <1>0, <2>1 DEF setupCompression, Connection
  <2>3. CASE Admits(c, nameFits)
    <3>1. PICK token \in LoginToken :
            Update(fd, [z EXCEPT !.m_verifyToken = token]) /\ Send(fd, packets)
      BY <1>9, <2>3 DEF LoginStart
    <3> DEFINE d == [z EXCEPT !.m_verifyToken = token]
    <3>2. /\ d \in Connection /\ d.m_isEncrypted /\ d.m_isCompressed = CompressionOn
          /\ d.m_kickAtLogin = c.m_kickAtLogin
      BY <2>2 DEF Connection
    <3>3. /\ Wire(z, "EncryptionRequest") \in WirePacket /\ Good(Wire(z, "EncryptionRequest"))
          /\ CompressionOn => Wire(c, "SetCompression") \in WirePacket /\ Good(Wire(c, "SetCompression"))
      <4>1. "EncryptionRequest" \in PacketType /\ "SetCompression" \in PacketType
        BY DEF PacketType
      <4> QED BY <1>0, <1>2, <2>1, <2>2, <4>1
    <3> DEFINE request == Wire(z, "EncryptionRequest")
               notice == Wire(c, "SetCompression")
    <3>4. packets \in Seq(WirePacket) /\ \A i \in DOMAIN packets : Good(packets[i])
      <4>1. CASE CompressionOn
        <5>1. packets = <<notice>> \o <<request>>
          BY <4>1 DEF CompressionNotice
        <5>2. notice \in WirePacket /\ request \in WirePacket /\ Good(notice) /\ Good(request)
          BY <3>3, <4>1
        <5> HIDE DEF packets, notice, request, Good
        <5> QED BY <5>1, <5>2
      <4>2. CASE ~CompressionOn
        <5>1. packets = <<request>>
          BY <4>2 DEF CompressionNotice
        <5>2. request \in WirePacket /\ Good(request)
          BY <3>3
        <5> HIDE DEF packets, request, Good
        <5> QED BY <5>1, <5>2
      <4> QED BY <4>1, <4>2
    <3>5. Answers(fd, d, packets)
      BY <2>1, <3>1, AnswersBy
    <3> HIDE DEF packets, d
    <3> QED BY <1>1, <2>1, <3>2, <3>4, <3>5
  <2>4. CASE ~Admits(c, nameFits)
    BY <1>4, <1>9, <2>1, <2>4 DEF LoginStart
  <2> QED BY <2>3, <2>4
<1>10. ASSUME NEW token, NEW gotData \in BOOLEAN, EncryptionResponse(fd, token, gotData)
       PROVE  StaysSecured(fd)
  <2> DEFINE d == setupEncryption([c EXCEPT !.m_verifyToken = NoToken])
             verdict == IF OnlineMode /\ ~gotData THEN "Disconnect" ELSE "LoginSuccess"
  <2>1. isConnected(fd)
    BY <1>10 DEF EncryptionResponse, Read
  <2>2. /\ d \in Connection /\ d.m_isEncrypted /\ d.m_isCompressed = CompressionOn
        /\ d.m_kickAtLogin = c.m_kickAtLogin
    BY <1>0, <2>1 DEF setupEncryption, Connection
  <2>3. CASE token = c.m_verifyToken
    <3>1. Answers(fd, d, <<Wire(d, verdict)>>)
      BY <1>10, <2>1, <2>3, AnswersBy DEF EncryptionResponse
    <3>2. verdict \in PacketType /\ verdict # "SetCompression"
      BY DEF PacketType
    <3>3. Wire(d, verdict) \in WirePacket /\ Good(Wire(d, verdict))
      BY <1>2, <2>2, <3>2
    <3> DEFINE p == Wire(d, verdict)
    <3> HIDE DEF p, d, Good
    <3>4. <<p>> \in Seq(WirePacket) /\ \A i \in DOMAIN <<p>> : Good(<<p>>[i])
      BY <3>3 DEF p
    <3> QED BY <1>1, <2>1, <2>2, <3>1, <3>4 DEF p
  <2>4. CASE token # c.m_verifyToken
    BY <1>4, <1>10, <2>1, <2>4 DEF EncryptionResponse
  <2> QED BY <2>3, <2>4
<1>11. ASSUME LoginPluginResponse(fd) PROVE StaysSecured(fd)
  BY <1>4, <1>11 DEF LoginPluginResponse, Read
<1>12. ASSUME LoginAck(fd) PROVE StaysSecured(fd)
  <2> DEFINE d == [c EXCEPT !.m_state = "Config", !.m_loginFinished = TRUE]
  <2>1. isConnected(fd) /\ Update(fd, d) /\ Silent
    BY <1>12 DEF LoginAck, Read
  <2>2. /\ d \in Connection /\ d.m_isEncrypted /\ d.m_isCompressed = CompressionOn
        /\ d.m_kickAtLogin = c.m_kickAtLogin
    BY <1>0, <2>1 DEF Connection, State
  <2> QED BY <1>5, <2>1, <2>2
<1>13. ASSUME CookieResponse(fd) PROVE StaysSecured(fd)
  BY <1>6, <1>13 DEF CookieResponse
<1>14. ASSUME NEW banned \in BOOLEAN, ConfigInfo(fd, banned) PROVE StaysSecured(fd)
  <2> DEFINE probes == <<"FeatureFlags", "KeepAlive", "Ping", "KnownPacks", "RegistryData",
                         "Disconnect">>
             packets == [i \in DOMAIN probes |-> Wire(c, probes[i])]
  <2>1. isConnected(fd)
    BY <1>14 DEF ConfigInfo, Read
  <2>2. CASE ~banned
    <3>1. PICK ping \in PingToken :
            /\ Update(fd, [c EXCEPT !.m_verifyToken = ping, !.m_lastKeepAlive = "sent"])
            /\ Send(fd, packets)
      BY <1>14, <2>2 DEF ConfigInfo
    <3> DEFINE d == [c EXCEPT !.m_verifyToken = ping, !.m_lastKeepAlive = "sent"]
    <3>2. /\ d \in Connection /\ d.m_isEncrypted /\ d.m_isCompressed = CompressionOn
          /\ d.m_kickAtLogin = c.m_kickAtLogin
      BY <1>0, <2>1 DEF Connection
    <3>3. probes \in Seq(PacketType) /\ \A i \in DOMAIN probes : probes[i] # "SetCompression"
      BY DEF PacketType
    <3> HIDE DEF probes
    <3>4. packets \in Seq(WirePacket)
      BY <1>0, <2>1, <3>3, ReplyType
    <3>5. \A i \in DOMAIN packets : Good(packets[i])
      <4>1. \A i \in DOMAIN probes : probes[i] \in PacketType
        BY <3>3
      <4> QED BY <1>0, <1>2, <2>1, <3>3, <4>1
    <3>6. Answers(fd, d, packets)
      BY <2>1, <3>1, AnswersBy
    <3> HIDE DEF packets, d
    <3> QED BY <1>1, <2>1, <3>2, <3>4, <3>5, <3>6
  <2>3. CASE banned
    BY <1>4, <1>14, <2>1, <2>3 DEF ConfigInfo
  <2> QED BY <2>2, <2>3
<1>15. ASSUME NEW channel, PluginMessage(fd, channel) PROVE StaysSecured(fd)
  <2>1. isConnected(fd)
    BY <1>15 DEF PluginMessage, Read
  <2>2. \A i \in DOMAIN <<"PluginMessage">> : <<"PluginMessage">>[i] # "SetCompression"
    OBVIOUS
  <2>3. Reply(fd, <<"PluginMessage">>) => StaysSecured(fd)
    BY <1>3, <2>1, <2>2, ReplyLists
  <2> QED BY <1>6, <1>15, <2>3 DEF PluginMessage
<1>16. ASSUME ConfigAck(fd) PROVE StaysSecured(fd)
  <2> DEFINE d == [c EXCEPT !.m_state = "Play"]
  <2>1. isConnected(fd) /\ Update(fd, d) /\ Silent
    BY <1>16 DEF ConfigAck, Read
  <2>2. /\ d \in Connection /\ d.m_isEncrypted /\ d.m_isCompressed = CompressionOn
        /\ d.m_kickAtLogin = c.m_kickAtLogin
    BY <1>0, <2>1 DEF Connection, State
  <2> QED BY <1>5, <2>1, <2>2
<1>17. ASSUME isConnected(fd), Reply(fd, <<>>) PROVE StaysSecured(fd)
  <2>1. \A i \in DOMAIN <<>> : <<>>[i] # "SetCompression"
    OBVIOUS
  <2> QED BY <1>3, <1>17, <2>1, ReplyLists
<1>18. ASSUME NEW matches \in BOOLEAN, KeepAlive(fd, matches) PROVE StaysSecured(fd)
  <2> DEFINE d == [c EXCEPT !.m_lastKeepAlive = "answered"]
  <2>1. isConnected(fd)
    BY <1>18 DEF KeepAlive, Read
  <2>2. /\ d \in Connection /\ d.m_isEncrypted /\ d.m_isCompressed = CompressionOn
        /\ d.m_kickAtLogin = c.m_kickAtLogin
    BY <1>0, <2>1 DEF Connection
  <2>3. (Update(fd, d) /\ Silent) \/ sendDisconnect(fd)
    BY <1>18 DEF KeepAlive
  <2> QED BY <1>4, <1>5, <2>1, <2>2, <2>3
<1>19. ASSUME NEW token, Ping(fd, token) PROVE StaysSecured(fd)
  BY <1>4, <1>17, <1>19 DEF Ping, Read
<1>20. ASSUME Ignored(fd) PROVE StaysSecured(fd)
  BY <1>17, <1>20 DEF Ignored, Read
<1> QED
  BY <1>7, <1>8, <1>9, <1>10, <1>11, <1>12, <1>13, <1>14, <1>15, <1>16, <1>18, <1>19, <1>20
     DEF onRead

\* A packet read off a garbled input: the line stays secured, and out of step.
LEMMA GarbledLine ==
  ASSUME NEW c \in Client, NEW m \in Connection, NEW before \in Seq(UpPacket),
         NEW after \in Seq(UpPacket), NEW down \in Seq(DownPacket),
         Secured(c, m, before \o after, down),
         NEW d \in Connection, NEW packets \in Seq(WirePacket),
         d.m_isEncrypted, d.m_isCompressed = CompressionOn, d.m_kickAtLogin = m.m_kickAtLogin,
         \A i \in DOMAIN packets :
           /\ Framed(packets[i], CompressionOn, TRUE)
           /\ packets[i].type = "SetCompression" => CompressionOn
  PROVE  Secured(c, d, after, Posted(c, down, d, packets))
<1> DEFINE post == Posted(c, down, d, packets)
<1> HIDE DEF post
<1>0. post = Posted(c, down, d, packets)
  BY DEF post
<1>1. \A i \in DOMAIN post :
        \/ i \in DOMAIN down /\ post[i] = down[i]
        \/ /\ i - Len(down) \in DOMAIN packets
           /\ post[i] = Stamped(d, packets[i - Len(down)])
  BY ONLY <1>0, PostedFacts
<1>2. \A i \in DOMAIN packets :
        /\ Stamped(d, packets[i]).type = packets[i].type
        /\ Framed(Stamped(d, packets[i]), CompressionOn, TRUE)
  BY DEF Stamped, Framed
<1> HIDE DEF post
<1>3. AllFramed(post, CompressionOn, TRUE)
  BY <1>1, <1>2 DEF Secured, AllFramed
<1>4. Has(post, {"SetCompression"}) => CompressionOn
  BY <1>1, <1>2 DEF Secured, Has
<1>5. AllFramed(after, CompressionOn, TRUE)
  <2> SUFFICES ASSUME NEW i \in DOMAIN after PROVE Framed(after[i], CompressionOn, TRUE)
    BY DEF AllFramed
  <2>1. /\ DOMAIN (before \o after) = 1 .. Len(before) + Len(after)
        /\ DOMAIN after = 1 .. Len(after) /\ Len(before) \in Nat /\ Len(after) \in Nat
        /\ \A j \in DOMAIN after : (before \o after)[Len(before) + j] = after[j]
    BY Joined
  <2>2. Len(before) + i \in DOMAIN (before \o after)
    BY ONLY <2>1
  <2>3. Framed((before \o after)[Len(before) + i], CompressionOn, TRUE)
    BY <2>2 DEF Secured, AllFramed
  <2> QED BY <2>1, <2>3
<1> QED BY <1>3, <1>4, <1>5 DEF Secured, post

\* A handler of the protocol's packets: it goes through as onRead does, and the
\* line of its connection stands whether or not it is in step afterwards; it can
\* only fall out of step when the packet was read off an encrypted input.
ServedWell(fd, c, m, way, down) ==
  /\ onRead(fd)
  /\ \E d \in Connection, packets \in Seq(WirePacket) :
       /\ Answers(fd, d, packets)
       /\ \A step \in BOOLEAN : step \/ m.m_isEncrypted =>
            Line(c, d, Tail(way), Posted(c, down, d, packets), step)

LEMMA ServeGreeting ==
  ASSUME TypeOK, NEW fd \in Fd, isConnected(fd), NEW m, m = m_clients[fd],
         NEW c \in Client, NEW way \in Seq(UpPacket), NEW down \in Seq(DownPacket),
         Greeting(c, m, way, down), Handle(fd, way[1])
  PROVE  ServedWell(fd, c, m, way, down)
<1> USE ModeAssumption
<1>1. m \in Connection
  BY AnswersBy
<1>2. /\ Bare(m) /\ down = <<>> /\ GoneOr(c, FALSE, FALSE) /\ AllFramed(way, FALSE, FALSE)
      /\ m.m_isEncrypted = FALSE
  BY <1>1 DEF Greeting, Bare, Connection
<1>3. way # <<>>
  <2>1. Len(way) # 0
    BY DEF Greeting
  <2> QED BY <2>1, EmptyFacts
<1>4. ASSUME NEW d \in Connection, NEW packets \in Seq(WirePacket), Answers(fd, d, packets), onRead(fd),
             Opening(c, d, Tail(way), Posted(c, down, d, packets))
      PROVE  ServedWell(fd, c, m, way, down)
  <2>1. \A step \in BOOLEAN : step \/ m.m_isEncrypted =>
            Line(c, d, Tail(way), Posted(c, down, d, packets), step)
    BY <1>2, <1>4 DEF Line
  <2> QED BY <1>4, <2>1 DEF ServedWell
<1>5. CASE m.m_state = "Handshake"
  <2> DEFINE d == [m EXCEPT !.m_protocolVersion = "latest", !.m_state = NextState("Login")]
  <2>1. Len(way) = 2 /\ way[1].type = "Handshake" /\ way[2].type = "LoginStart"
    BY <1>5 DEF Greeting
  <2>2. Handshake(fd, "latest", "Login")
    BY <2>1 DEF Handle
  <2>3. onRead(fd)
    BY <2>2 DEF onRead, Version, State
  <2>4. NextState("Login") = "Login"
    BY DEF NextState
  <2>5. d \in Connection /\ d.m_state = "Login" /\ Bare(d)
    BY <1>1, <1>2, <2>4 DEF Connection, State, Version, Bare
  <2>6. Answers(fd, d, <<>>)
    BY <2>2, AnswersBy DEF Handshake
  <2>7. Len(Tail(way)) = 1 /\ Tail(way)[1] = way[2] /\ AllFramed(Tail(way), FALSE, FALSE)
    <3>1. /\ Tail(way) \in Seq(UpPacket) /\ Len(Tail(way)) = Len(way) - 1
          /\ DOMAIN Tail(way) = 1 .. Len(way) - 1
          /\ \A i \in DOMAIN Tail(way) : i + 1 \in DOMAIN way /\ Tail(way)[i] = way[i + 1]
      BY <1>3, RestFacts
    <3>2. 1 \in DOMAIN Tail(way)
      BY ONLY <2>1, <3>1
    <3>3. AllFramed(Tail(way), FALSE, FALSE)
      BY <1>2, <3>1 DEF AllFramed
    <3>4. Tail(way)[1] = way[1 + 1]
      BY ONLY <3>1, <3>2
    <3>5. Len(Tail(way)) = 1
      BY <2>1, <3>1
    <3>6. 1 + 1 = 2
      OBVIOUS
    <3> QED BY <3>3, <3>4, <3>5, <3>6, Zenon
  <2>8. <<>> \in Seq(WirePacket) /\ Posted(c, down, d, <<>>) = <<>>
    <3>1. <<>> \in Seq(WirePacket)
      OBVIOUS
    <3> QED BY <1>2, <3>1, NothingPosted
  <2> HIDE DEF d
  <2>9. Greeting(c, d, Tail(way), <<>>)
    BY <1>2, <2>1, <2>5, <2>7 DEF Greeting
  <2> QED BY <1>4, <2>3, <2>5, <2>6, <2>8, <2>9 DEF Opening
<1>6. CASE m.m_state # "Handshake"
  <2>1. m.m_state = "Login" /\ Len(way) = 1 /\ way[1].type = "LoginStart"
    BY <1>6 DEF Greeting
  <2>2. LoginStart(fd, TRUE)
    BY <2>1 DEF Handle
  <2>3. onRead(fd)
    BY <2>2 DEF onRead
  <2>4. CASE Admits(m, TRUE)
    <3> DEFINE packets == CompressionNotice(m) \o <<Wire(setupCompression(m), "EncryptionRequest")>>
    <3>1. PICK token \in LoginToken :
            /\ Update(fd, [setupCompression(m) EXCEPT !.m_verifyToken = token])
            /\ Send(fd, packets)
      BY <2>2, <2>4 DEF LoginStart
    <3> DEFINE d == [setupCompression(m) EXCEPT !.m_verifyToken = token]
    <3>2. setupCompression(m) \in Connection
      BY <1>1 DEF setupCompression, Connection
    <3>3. d \in Connection
      BY <3>2 DEF Connection
    <3>4. packets \in Seq(WirePacket)
      <4>1. Wire(setupCompression(m), "EncryptionRequest") \in WirePacket /\ Wire(m, "SetCompression") \in WirePacket
        BY <1>1, <3>2 DEF Wire, WirePacket, PacketType, Connection
      <4> QED BY <4>1 DEF CompressionNotice
    <3>5. Answers(fd, d, packets)
      BY <3>1, AnswersBy
    <3>6. m.m_kickAtLogin = 0
      BY <2>4 DEF Admits
    <3> HIDE DEF d, packets
    <3>7. Offered(c, d, Tail(way), Posted(c, down, d, packets))
      BY <1>1, <2>1, <3>3, <3>4, <3>6, OfferedLine DEF d, packets
    <3> QED BY <1>4, <2>3, <3>3, <3>4, <3>5, <3>7 DEF Opening
  <2>5. CASE ~Admits(m, TRUE)
    <3>1. Answers(fd, m, <<Wire(m, "Disconnect")>>)
      BY <2>2, <2>5, AnswersBy DEF LoginStart
    <3>2. <<Wire(m, "Disconnect")>> \in Seq(WirePacket)
      <4>1. Wire(m, "Disconnect") \in WirePacket
        BY <1>1 DEF Wire, WirePacket, PacketType, Connection
      <4> QED BY <4>1
    <3>3. Refused(c, m, Tail(way), Posted(c, down, m, <<Wire(m, "Disconnect")>>))
      BY <1>1, <2>1, RefusedLine
    <3> QED BY <1>1, <1>4, <2>3, <3>1, <3>2, <3>3 DEF Opening
  <2> QED BY <2>4, <2>5
<1> QED BY <1>5, <1>6

LEMMA ServeAnswered ==
  ASSUME TypeOK, NEW fd \in Fd, isConnected(fd), NEW m, m = m_clients[fd],
         NEW c \in Client, NEW way \in Seq(UpPacket), NEW down \in Seq(DownPacket),
         Answered(c, m, way, down), Handle(fd, way[1])
  PROVE  ServedWell(fd, c, m, way, down)
<1>1. m \in Connection
  BY AnswersBy
<1>2. /\ way[1].type = "EncryptionResponse" /\ way[1].token = m.m_verifyToken
      /\ m.m_verifyToken \in LoginToken
  BY DEF Answered, Admitted
<1>3. PICK gotData \in BOOLEAN : EncryptionResponse(fd, way[1].token, gotData)
  BY <1>2 DEF Handle
<1>4. onRead(fd)
  BY <1>2, <1>3 DEF onRead
<1> DEFINE d == setupEncryption([m EXCEPT !.m_verifyToken = NoToken])
           verdict == IF OnlineMode /\ ~gotData THEN "Disconnect" ELSE "LoginSuccess"
<1>5. Answers(fd, d, <<Wire(d, verdict)>>)
  BY <1>2, <1>3, AnswersBy DEF EncryptionResponse
<1>6. d \in Connection
  BY <1>1 DEF setupEncryption, Connection
<1>7. verdict \in {"Disconnect", "LoginSuccess"}
  OBVIOUS
<1> HIDE DEF verdict
<1>8. <<Wire(d, verdict)>> \in Seq(WirePacket)
  <2>1. Wire(d, verdict) \in WirePacket
    BY <1>6, <1>7 DEF Wire, WirePacket, PacketType, Connection
  <2> QED BY <2>1
<1>9. /\ Secured(c, d, Tail(way), Posted(c, down, d, <<Wire(d, verdict)>>))
      /\ Genuine(d, Tail(way), Posted(c, down, d, <<Wire(d, verdict)>>))
  BY <1>1, <1>6, <1>7, SecuredLine
<1> HIDE DEF d
<1>10. \A step \in BOOLEAN :
         Line(c, d, Tail(way), Posted(c, down, d, <<Wire(d, verdict)>>), step)
  BY <1>9 DEF Line
<1> QED BY <1>4, <1>5, <1>6, <1>8, <1>10 DEF ServedWell

LEMMA ServeGenuine ==
  ASSUME TypeOK, NEW fd \in Fd, isConnected(fd), NEW m, m = m_clients[fd],
         NEW c \in Client, NEW way \in Seq(UpPacket), NEW down \in Seq(DownPacket), way # <<>>,
         Secured(c, m, way, down), Genuine(m, way, down), Handle(fd, way[1])
  PROVE  ServedWell(fd, c, m, way, down)
<1> DEFINE Calm(d, packets) ==
             /\ d.m_isEncrypted /\ d.m_isCompressed = CompressionOn
             /\ d.m_kickAtLogin = m.m_kickAtLogin
             /\ \A i \in DOMAIN packets :
                  /\ Framed(packets[i], CompressionOn, TRUE)
                  /\ packets[i].type \notin {"EncryptionRequest", "SetCompression", "LoginSuccess"}
           Keeping(d, packets) ==
             /\ d.m_verifyToken = m.m_verifyToken
             /\ \A i \in DOMAIN packets : packets[i].type \notin {"KeepAlive", "Ping"}
           Asking(d) == way[1].type = "ConfigInfo" /\ d.m_verifyToken \in PingToken
<1>1. m \in Connection /\ m.m_isEncrypted /\ m.m_isCompressed = CompressionOn /\ 1 \in DOMAIN way
  BY AnswersBy, RestFacts DEF Secured
<1>2. m.m_isEncrypted = TRUE /\ m.m_isCompressed = CompressionOn
  BY <1>1 DEF Connection
<1>3. ASSUME NEW d \in Connection, NEW packets \in Seq(WirePacket), Answers(fd, d, packets), onRead(fd),
             Calm(d, packets), Keeping(d, packets) \/ Asking(d)
      PROVE  ServedWell(fd, c, m, way, down)
  <2>1. /\ Secured(c, d, Tail(way), Posted(c, down, d, packets))
        /\ Genuine(d, Tail(way), Posted(c, down, d, packets))
    BY <1>1, <1>3, ReplyLine
  <2>2. \A step \in BOOLEAN : Line(c, d, Tail(way), Posted(c, down, d, packets), step)
    BY <2>1 DEF Line
  <2> QED BY <1>3, <2>2 DEF ServedWell
<1>4. ASSUME NEW d \in Connection, Answers(fd, d, <<>>), onRead(fd), d.m_isEncrypted,
             d.m_isCompressed = CompressionOn, d.m_kickAtLogin = m.m_kickAtLogin,
             d.m_verifyToken = m.m_verifyToken
      PROVE  ServedWell(fd, c, m, way, down)
  <2>1. <<>> \in Seq(WirePacket) /\ \A i \in DOMAIN <<>> : FALSE
    OBVIOUS
  <2>2. Calm(d, <<>>) /\ Keeping(d, <<>>)
    BY <1>4, <2>1
  <2> HIDE DEF Calm, Keeping, Asking
  <2> QED BY <1>3, <1>4, <2>1, <2>2
<1>5. ASSUME NEW type \in {"Disconnect", "PluginMessage"}, Answers(fd, m, <<Wire(m, type)>>), onRead(fd)
      PROVE  ServedWell(fd, c, m, way, down)
  <2> DEFINE p == Wire(m, type)
  <2>1. p \in WirePacket /\ p.type = type /\ Framed(p, CompressionOn, TRUE)
    BY <1>1, <1>2 DEF Wire, WirePacket, PacketType, Framed, Connection
  <2> HIDE DEF p
  <2>2. <<p>> \in Seq(WirePacket) /\ \A i \in DOMAIN <<p>> : <<p>>[i] = p
    BY <2>1
  <2>3. Calm(m, <<p>>) /\ Keeping(m, <<p>>)
    BY <1>1, <2>1, <2>2
  <2> HIDE DEF Calm, Keeping, Asking
  <2> QED BY <1>1, <1>3, <1>5, <2>2, <2>3 DEF p
<1>6. ASSUME sendDisconnect(fd), onRead(fd) PROVE ServedWell(fd, c, m, way, down)
  BY <1>5, <1>6, AnswersBy
<1>7. way[1].type \in {"LoginAck", "Brand", "ConfigInfo", "KeepAlive", "Ping"}
  BY <1>1 DEF Genuine
<1>8. CASE way[1].type = "LoginAck"
  <2> DEFINE d == [m EXCEPT !.m_state = "Config", !.m_loginFinished = TRUE]
  <2>1. LoginAck(fd)
    BY <1>8 DEF Handle
  <2>2. onRead(fd) /\ Answers(fd, d, <<>>)
    BY <2>1, AnswersBy DEF onRead, LoginAck
  <2>3. /\ d \in Connection /\ d.m_isEncrypted /\ d.m_isCompressed = CompressionOn
        /\ d.m_kickAtLogin = m.m_kickAtLogin /\ d.m_verifyToken = m.m_verifyToken
    BY <1>1, <1>2 DEF Connection, State
  <2> HIDE DEF d
  <2> QED BY <1>4, <2>2, <2>3
<1>9. CASE way[1].type = "Brand"
  <2>1. PluginMessage(fd, "minecraft:brand")
    BY <1>9 DEF Handle
  <2>2. onRead(fd) /\ Reply(fd, <<"PluginMessage">>)
    BY <2>1 DEF onRead, PluginMessage
  <2>3. [i \in DOMAIN <<"PluginMessage">> |-> Wire(m, <<"PluginMessage">>[i])] = <<Wire(m, "PluginMessage")>>
    OBVIOUS
  <2>4. Answers(fd, m, <<Wire(m, "PluginMessage")>>)
    <3>1. Answers(fd, m, [i \in DOMAIN <<"PluginMessage">> |-> Wire(m, <<"PluginMessage">>[i])])
      BY <2>2, AnswersBy
    <3> QED BY <2>3, <3>1
  <2> QED BY <1>5, <2>2, <2>4
<1>10. CASE way[1].type = "ConfigInfo"
  <2>1. PICK banned \in BOOLEAN : ConfigInfo(fd, banned)
    BY <1>10 DEF Handle
  <2>2. onRead(fd)
    BY <2>1 DEF onRead
  <2>3. CASE banned
    BY <1>6, <2>1, <2>2, <2>3 DEF ConfigInfo
  <2>4. CASE ~banned
    <3> DEFINE probes == <<"FeatureFlags", "KeepAlive", "Ping", "KnownPacks", "RegistryData",
                           "Disconnect">>
               packets == [i \in DOMAIN probes |-> Wire(m, probes[i])]
    <3>1. PICK ping \in PingToken :
            /\ Update(fd, [m EXCEPT !.m_verifyToken = ping, !.m_lastKeepAlive = "sent"])
            /\ Send(fd, packets)
      BY <2>1, <2>4 DEF ConfigInfo
    <3> DEFINE d == [m EXCEPT !.m_verifyToken = ping, !.m_lastKeepAlive = "sent"]
    <3>2. /\ d \in Connection /\ d.m_isEncrypted /\ d.m_isCompressed = CompressionOn
          /\ d.m_kickAtLogin = m.m_kickAtLogin /\ d.m_verifyToken \in PingToken
      BY <1>1, <1>2 DEF Connection
    <3>3. /\ probes \in Seq(PacketType)
          /\ \A i \in DOMAIN probes :
               probes[i] \notin {"EncryptionRequest", "SetCompression", "LoginSuccess"}
      BY DEF PacketType
    <3> HIDE DEF probes
    <3>4. packets \in Seq(WirePacket)
      BY <1>1, <3>3, ReplyType
    <3>5. \A i \in DOMAIN packets :
            /\ Framed(packets[i], CompressionOn, TRUE)
            /\ packets[i].type \notin {"EncryptionRequest", "SetCompression", "LoginSuccess"}
      BY <1>2, <3>3 DEF Wire, Framed
    <3>6. Answers(fd, d, packets)
      BY <3>1, AnswersBy
    <3> HIDE DEF packets, d
    <3>7. Calm(d, packets) /\ Asking(d)
      BY <1>10, <3>2, <3>5
    <3> HIDE DEF Calm, Keeping, Asking
    <3> QED BY <1>3, <2>2, <3>2, <3>4, <3>6, <3>7
  <2> QED BY <2>3, <2>4
<1>11. CASE way[1].type = "KeepAlive"
  <2> DEFINE d == [m EXCEPT !.m_lastKeepAlive = "answered"]
             matches == m.m_lastKeepAlive = "sent"
  <2>1. KeepAlive(fd, matches) /\ matches \in BOOLEAN
    BY <1>11 DEF Handle
  <2>2. onRead(fd)
    BY <2>1 DEF onRead
  <2>3. (Update(fd, d) /\ Silent) \/ sendDisconnect(fd)
    BY <2>1 DEF KeepAlive
  <2>4. /\ d \in Connection /\ d.m_isEncrypted /\ d.m_isCompressed = CompressionOn
        /\ d.m_kickAtLogin = m.m_kickAtLogin /\ d.m_verifyToken = m.m_verifyToken
    BY <1>1, <1>2 DEF Connection
  <2>5. CASE Update(fd, d) /\ Silent
    <3>1. Answers(fd, d, <<>>)
      BY <2>5, AnswersBy
    <3> HIDE DEF d
    <3> QED BY <1>4, <2>2, <2>4, <3>1
  <2>6. CASE sendDisconnect(fd)
    BY <1>6, <2>2, <2>6
  <2> QED BY <2>3, <2>5, <2>6
<1>12. CASE way[1].type = "Ping"
  <2>1. Ping(fd, way[1].token)
    BY <1>12 DEF Handle
  <2>2. way[1].token \in PingToken /\ way[1].token = m.m_verifyToken
    BY <1>1, <1>12 DEF Genuine
  <2>3. onRead(fd)
    BY <2>1, <2>2 DEF onRead
  <2>4. Answers(fd, m, <<>>)
    BY <2>1, <2>2, AnswersBy DEF Ping
  <2> QED BY <1>1, <1>4, <2>3, <2>4
<1> QED BY <1>7, <1>8, <1>9, <1>10, <1>11, <1>12

\* Every packet a client sends is served well on a line that is in step.
LEMMA ServeLine ==
  ASSUME TypeOK, NEW fd \in Fd, isConnected(fd), NEW m, m = m_clients[fd],
         NEW c \in Client, NEW way \in Seq(UpPacket), NEW down \in Seq(DownPacket), way # <<>>,
         Line(c, m, way, down, TRUE), Handle(fd, way[1])
  PROVE  ServedWell(fd, c, m, way, down)
<1>1. CASE Greeting(c, m, way, down)
  BY <1>1, ServeGreeting
<1>2. CASE Refused(c, m, way, down) \/ Offered(c, m, way, down)
  BY <1>2 DEF Refused, Offered
<1>3. CASE Answered(c, m, way, down)
  BY <1>3, ServeAnswered
<1>4. CASE Secured(c, m, way, down) /\ Genuine(m, way, down)
  BY <1>4, ServeGenuine
<1> QED BY <1>1, <1>2, <1>3, <1>4 DEF Line, Opening

-----------------------------------------------------------------------------
(* Every step of the composition.                                          *)

\* What the types of the links give for one connection.
LEMMA LinksAt ==
  ASSUME LinkTypes, NEW fd \in Fd
  PROVE  /\ client[fd] \in Client /\ uplink[fd] \in Seq(UpPacket) /\ input[fd] \in Seq(UpPacket)
         /\ downlink[fd] \in Seq(DownPacket) /\ inStep[fd] \in BOOLEAN
         /\ Way(fd) \in Seq(UpPacket)
<1>1. /\ client[fd] \in Client /\ uplink[fd] \in Seq(UpPacket) /\ input[fd] \in Seq(UpPacket)
      /\ downlink[fd] \in Seq(DownPacket) /\ inStep[fd] \in BOOLEAN
  BY DEF LinkTypes
<1> QED BY <1>1, Joined DEF Way

\* A step that leaves the other connections and their clients alone.
Untouched(f) ==
  /\ isConnected(f)' = isConnected(f)
  /\ isConnected(f) => m_clients'[f] = m_clients[f]
  /\ client'[f] = client[f] /\ input'[f] = input[f] /\ uplink'[f] = uplink[f]
  /\ downlink'[f] = downlink[f] /\ inStep'[f] = inStep[f]

LEMMA LinesBut ==
  ASSUME Lines, NEW fd, \A f \in Fd \ {fd} : Untouched(f), fd \in Fd => LineAt(fd)'
  PROVE  Lines'
<1>1. ASSUME NEW f \in Fd \ {fd} PROVE LineAt(f)'
  BY <1>1 DEF Lines, LineAt, Untouched, Way, isConnected
<1> QED BY <1>1 DEF Lines

\* A callback that goes through, and the packets it sends.
LEMMA PostBy ==
  ASSUME TypeOK, LinkTypes, NEW fd \in Fd, isConnected(fd),
         NEW d \in Connection, NEW packets \in Seq(WirePacket), Answers(fd, d, packets), Post(fd)
  PROVE  /\ downlink' = [downlink EXCEPT ![fd] = Posted(client[fd], downlink[fd], d, packets)]
         /\ Posted(client[fd], downlink[fd], d, packets) \in Seq(DownPacket)
         /\ client[fd].phase = "away" => Posted(client[fd], downlink[fd], d, packets) = <<>>
         /\ m_clients'[fd] = d /\ DOMAIN m_clients' = DOMAIN m_clients
         /\ \A f \in Fd \ {fd} : m_clients'[f] = m_clients[f] \/ ~isConnected(f)
<1>1. /\ m_clients'[fd] = d /\ DOMAIN m_clients' = DOMAIN m_clients
      /\ \A f \in Fd \ {fd} : m_clients'[f] = m_clients[f] \/ ~isConnected(f)
  BY DEF Answers, isConnected
<1>2. sent'[fd] = packets
  BY DEF Answers
<1>3. downlink' = [downlink EXCEPT ![fd] = Posted(client[fd], downlink[fd], d, packets)]
  BY <1>1, <1>2 DEF Post, Posted, Stamped
<1>4. Posted(client[fd], downlink[fd], d, packets) \in Seq(DownPacket)
  BY LinksAt, PostedFacts
<1> QED BY <1>1, <1>3, <1>4 DEF Posted

\* Connect: the handshake and LOGIN START wait for a fresh connection, or for
\* one that onAccept could make no bufferevent for.
LEMMA ConnectStep ==
  ASSUME LoginIInv, NEW fd \in Fd, NEW ip \in IP, Connect(fd, ip)
  PROVE  LinkTypes' /\ GoneQuiet' /\ CallbackReads' /\ Lines'
<1> DEFINE c == [Away EXCEPT !.phase = "login"]
           types == <<"Handshake", "LoginStart">>
           greeting == Frames(c, types, NoToken)
<1>1. Base /\ LinkTypes /\ GoneQuiet /\ CallbackReads /\ Lines
  BY DEF LoginIInv
<1>2. /\ callback = Nobody /\ onAccept(fd, ip)
      /\ client' = [client EXCEPT ![fd] = c] /\ uplink' = [uplink EXCEPT ![fd] = greeting]
      /\ UNCHANGED <<input, downlink, callback, inStep>>
  BY DEF Connect
<1>3. c \in Client /\ c.phase = "login" /\ c.compressed = FALSE /\ c.encrypted = FALSE
  BY DEF Client, Away
<1>4. types \in Seq(Upward) /\ Len(types) = 2 /\ DOMAIN types = 1 .. 2
      /\ types[1] = "Handshake" /\ types[2] = "LoginStart" /\ NoToken \in Token
  BY DEF Upward, Token
<1> HIDE DEF c, types
<1>5. /\ greeting \in Seq(UpPacket) /\ Len(greeting) = 2 /\ DOMAIN greeting = 1 .. 2
      /\ \A i \in 1 .. 2 : greeting[i].type = types[i] /\ Framed(greeting[i], FALSE, FALSE)
  <2>1. /\ greeting \in Seq(UpPacket) /\ Len(greeting) = Len(types) /\ DOMAIN greeting = DOMAIN types
        /\ \A i \in DOMAIN types :
             greeting[i] = [type |-> types[i], token |-> NoToken,
                            compressed |-> c.compressed, encrypted |-> c.encrypted]
    BY <1>3, <1>4, FramesFacts
  <2> HIDE DEF greeting
  <2>2. \A i \in 1 .. 2 : greeting[i].type = types[i] /\ Framed(greeting[i], FALSE, FALSE)
    BY <1>3, <1>4, <2>1 DEF Framed
  <2> QED BY <1>4, <2>1, <2>2
<1> HIDE DEF greeting
<1>6. LinkTypes'
  BY <1>1, <1>2, <1>3, <1>5 DEF LinkTypes
<1>7. GoneQuiet'
  BY <1>1, <1>2, <1>3 DEF GoneQuiet, LinkTypes
<1>8. CallbackReads'
  BY <1>2 DEF CallbackReads
<1>9. ~isConnected(fd)
  BY <1>1, <1>2 DEF onAccept, Base, FdsTracked, isConnected
<1>10. input[fd] = <<>> /\ downlink[fd] = <<>> /\ inStep[fd] = TRUE
  BY <1>1, <1>9 DEF Lines, LineAt, LinkTypes
<1>11. CASE m_clients' = m_clients
  <2>1. LineAt(fd)'
    BY <1>2, <1>9, <1>10, <1>11 DEF LineAt, isConnected
  <2>2. \A f \in Fd \ {fd} : Untouched(f)
    BY <1>1, <1>2, <1>11 DEF Untouched, isConnected, LinkTypes
  <2> QED BY <1>1, <1>6, <1>7, <1>8, <2>1, <2>2, LinesBut
<1>12. CASE m_clients' # m_clients
  <2>1. Joins(fd, ip)
    BY <1>2, <1>12 DEF onAccept, Joins
  <2> DEFINE m == NewConnection(ip, KickVerdict(ip))
  <2>2. /\ DOMAIN m_clients' = DOMAIN m_clients \cup {fd} /\ m_clients'[fd] = m
        /\ \A f \in DOMAIN m_clients : m_clients'[f] = m_clients[f]
    BY <1>1, <2>1, JoinTable
  <2>3. Bare(m) /\ m.m_state = "Handshake"
    BY DEF NewConnection, Bare
  <2> HIDE DEF m
  <2>4. Greeting(c, m, greeting, <<>>)
    <3>1. GoneOr(c, FALSE, FALSE)
      BY <1>3 DEF GoneOr
    <3>2. AllFramed(greeting, FALSE, FALSE)
      BY <1>5 DEF AllFramed
    <3>3. greeting[1].type = "Handshake" /\ greeting[2].type = "LoginStart"
      BY <1>4, <1>5
    <3> QED BY <1>5, <2>3, <3>1, <3>2, <3>3 DEF Greeting
  <2>5. Line(c, m, greeting, <<>>, TRUE)
    BY <2>4 DEF Line, Opening
  <2>6. Way(fd)' = greeting
    <3>1. Way(fd)' = input'[fd] \o uplink'[fd]
      BY DEF Way
    <3>2. input'[fd] = <<>> /\ uplink'[fd] = greeting
      BY <1>1, <1>2, <1>10 DEF LinkTypes
    <3>3. <<>> \o greeting = greeting
      BY <1>5, ConcatEmptySeq
    <3> QED BY <3>1, <3>2, <3>3
  <2>7. /\ client'[fd] = c /\ m_clients'[fd] = m /\ downlink'[fd] = <<>>
        /\ inStep'[fd] = TRUE /\ isConnected(fd)'
    BY <1>1, <1>2, <1>10, <2>2 DEF LinkTypes, isConnected
  <2>8. LineAt(fd)'
    BY <2>5, <2>6, <2>7 DEF LineAt
  <2>9. \A f \in Fd \ {fd} : Untouched(f)
    BY <1>1, <1>2, <2>2 DEF Untouched, isConnected, LinkTypes
  <2> QED BY <1>1, <1>6, <1>7, <1>8, <2>8, <2>9, LinesBut
<1> QED BY <1>11, <1>12

\* Quit: the client is gone, its connection does not know yet.
LEMMA QuitStep ==
  ASSUME LoginIInv, NEW fd \in Fd, Quit(fd)
  PROVE  LinkTypes' /\ GoneQuiet' /\ CallbackReads' /\ Lines'
<1>1. Base /\ LinkTypes /\ GoneQuiet /\ CallbackReads /\ Lines
  BY DEF LoginIInv
<1>2. /\ client' = [client EXCEPT ![fd] = Away] /\ downlink' = [downlink EXCEPT ![fd] = <<>>]
      /\ UNCHANGED <<running, m_clients, uplink, input, callback, inStep>>
  BY DEF Quit, vars
<1>3. Away \in Client /\ <<>> \in Seq(DownPacket)
  BY EmptyFacts DEF Away, Client
<1>4. LinkTypes'
  BY <1>1, <1>2, <1>3 DEF LinkTypes
<1>5. GoneQuiet'
  BY <1>1, <1>2 DEF GoneQuiet, LinkTypes
<1>6. CallbackReads'
  BY <1>1, <1>2 DEF CallbackReads, isConnected
<1>7. \A f \in Fd \ {fd} : Untouched(f)
  BY <1>1, <1>2 DEF Untouched, isConnected, LinkTypes
<1>8. client'[fd] = Away /\ downlink'[fd] = <<>>
  BY <1>1, <1>2 DEF LinkTypes
<1>9. LineAt(fd)'
  <2>1. CASE isConnected(fd)
    <3>1. m_clients[fd] \in Connection
      BY <1>1, <2>1, AnswersBy DEF Base
    <3>2. Line(client[fd], m_clients[fd], Way(fd), downlink[fd], inStep[fd])
      BY <1>1, <2>1 DEF Lines, LineAt
    <3>3. Line(Away, m_clients[fd], Way(fd), <<>>, inStep[fd])
      BY <1>1, <3>1, <3>2, LinksAt, QuitLine
    <3> QED BY <1>2, <1>8, <2>1, <3>3 DEF LineAt, Way, isConnected
  <2>2. CASE ~isConnected(fd)
    BY <1>1, <1>2, <1>8, <2>2 DEF Lines, LineAt, isConnected
  <2> QED BY <2>1, <2>2
<1> QED BY <1>1, <1>4, <1>5, <1>6, <1>7, <1>9, LinesBut

\* Receive: the client reads a packet; its answer joins the way.
LEMMA ReceiveStep ==
  ASSUME LoginIInv, NEW fd \in Fd, Receive(fd)
  PROVE  LinkTypes' /\ GoneQuiet' /\ CallbackReads' /\ Lines'
<1> DEFINE c == client[fd]
           down == downlink[fd]
           p == down[1]
           more == Frames(c, Answer(p.type), p.token)
           left == IF p.type = "Disconnect" THEN <<>> ELSE Tail(down)
<1>1. Base /\ LinkTypes /\ GoneQuiet /\ CallbackReads /\ Lines
  BY DEF LoginIInv
<1>2. c \in Client /\ down \in Seq(DownPacket) /\ uplink[fd] \in Seq(UpPacket) /\ input[fd] \in Seq(UpPacket)
  BY <1>1, LinksAt
<1>3. down # <<>> /\ Head(down) = p /\ p \in DownPacket
  BY <1>2, TailFacts DEF Receive
<1>4. p.type \in PacketType /\ p.token \in Token
  BY <1>3 DEF DownPacket
<1>5. ClientAfter(c, p.type) \in Client /\ more \in Seq(UpPacket) /\ left \in Seq(DownPacket)
  <2>1. ClientAfter(c, p.type) \in Client /\ more \in Seq(UpPacket)
    BY <1>2, <1>4, AnswerFacts, FramesFacts
  <2>2. Tail(down) \in Seq(DownPacket) /\ <<>> \in Seq(DownPacket)
    BY <1>2, <1>3, TailFacts, EmptyFacts
  <2> QED BY <2>1, <2>2
<1>6. c.phase # "away"
  BY <1>1, <1>3 DEF GoneQuiet
<1>7. /\ client' = [client EXCEPT ![fd] = ClientAfter(c, p.type)]
      /\ uplink' = [uplink EXCEPT ![fd] = uplink[fd] \o more]
      /\ downlink' = [downlink EXCEPT ![fd] = left]
      /\ UNCHANGED <<running, m_clients, input, callback, inStep>>
  BY <1>3 DEF Receive, vars
<1>8. ClientAfter(c, p.type).phase = "away" => ClientAfter(c, p.type) = Away /\ left = <<>>
  <2>1. CASE p.type = "Disconnect"
    BY <2>1, <1>2, AnswerFacts
  <2>2. CASE p.type # "Disconnect"
    <3>1. /\ [c EXCEPT !.compressed = TRUE].phase = c.phase /\ [c EXCEPT !.encrypted = TRUE].phase = c.phase
          /\ [c EXCEPT !.phase = "config"].phase = "config"
      BY <1>2 DEF Client
    <3> QED BY <1>2, <1>6, <2>2, <3>1, AnswerFacts
  <2> QED BY <2>1, <2>2
<1>9. isConnected(fd)
  BY <1>1, <1>3 DEF Lines, LineAt
<1>10. m_clients[fd] \in Connection
  BY <1>1, <1>9, AnswersBy DEF Base
<1>11. Line(c, m_clients[fd], Way(fd), down, inStep[fd])
  BY <1>1, <1>9 DEF Lines, LineAt
<1>12. Line(ClientAfter(c, p.type), m_clients[fd], Way(fd) \o more, left, inStep[fd])
  BY <1>1, <1>2, <1>3, <1>6, <1>10, <1>11, LinksAt, ReceiveLine
<1>13. uplink[fd] \o more \in Seq(UpPacket)
  BY <1>2, <1>5, Joined
<1> HIDE DEF c, down, p, more, left
<1>14. Way(fd)' = Way(fd) \o more
  <2>1. input'[fd] = input[fd] /\ uplink'[fd] = uplink[fd] \o more
    BY <1>1, <1>7 DEF LinkTypes
  <2>2. Cat(Cat(input[fd], uplink[fd]), more) = Cat(input[fd], Cat(uplink[fd], more))
    BY ONLY <1>2, <1>5, Regrouped
  <2>3. (input[fd] \o uplink[fd]) \o more = input[fd] \o (uplink[fd] \o more)
    BY ONLY <2>2 DEF Cat
  <2> QED BY <2>1, <2>3 DEF Way
<1>15. LinkTypes'
  BY <1>1, <1>5, <1>7, <1>13 DEF LinkTypes
<1>16. GoneQuiet'
  BY <1>1, <1>7, <1>8 DEF GoneQuiet, LinkTypes
<1>17. CallbackReads'
  BY <1>1, <1>7 DEF CallbackReads, isConnected
<1>18. \A f \in Fd \ {fd} : Untouched(f)
  BY <1>1, <1>7 DEF Untouched, isConnected, LinkTypes
<1>19. LineAt(fd)'
  <2>1. client'[fd] = ClientAfter(c, p.type) /\ downlink'[fd] = left
    BY <1>1, <1>7 DEF LinkTypes
  <2> QED BY <1>7, <1>9, <1>12, <1>14, <2>1 DEF LineAt, isConnected
<1> QED BY <1>1, <1>15, <1>16, <1>17, <1>18, <1>19, LinesBut

\* Deliver: packets move from the network to the evbuffer, in order.
LEMMA DeliverStep ==
  ASSUME LoginIInv, NEW fd \in Fd, NEW n \in 1 .. Len(uplink[fd]), Deliver(fd, n)
  PROVE  LinkTypes' /\ GoneQuiet' /\ CallbackReads' /\ Lines'
<1> DEFINE arrived == Arrived(input[fd], uplink[fd], n)
           still == Still(uplink[fd], n)
<1>1. Base /\ LinkTypes /\ GoneQuiet /\ CallbackReads /\ Lines
  BY DEF LoginIInv
<1>2. /\ running /\ isConnected(fd)
      /\ input' = [input EXCEPT ![fd] = arrived] /\ uplink' = [uplink EXCEPT ![fd] = still]
      /\ callback' = fd /\ UNCHANGED <<running, m_clients, client, downlink, inStep>>
  BY DEF Deliver, vars, Arrived, Still
<1>3. uplink[fd] \in Seq(UpPacket) /\ input[fd] \in Seq(UpPacket)
  BY <1>1, LinksAt
<1>4. /\ arrived \o still = input[fd] \o uplink[fd] /\ arrived # <<>>
      /\ arrived \in Seq(UpPacket) /\ still \in Seq(UpPacket)
  BY ONLY <1>3, DeliveredWay
<1> HIDE DEF arrived, still
<1>5. input'[fd] = arrived /\ uplink'[fd] = still
  BY <1>1, <1>2 DEF LinkTypes
<1>6. LinkTypes'
  BY <1>1, <1>2, <1>4 DEF LinkTypes
<1>7. GoneQuiet'
  BY <1>1, <1>2 DEF GoneQuiet
<1>8. CallbackReads'
  BY <1>2, <1>4, <1>5 DEF CallbackReads, isConnected
<1>9. \A f \in Fd \ {fd} : Untouched(f)
  BY <1>1, <1>2 DEF Untouched, isConnected, LinkTypes
<1>10. LineAt(fd)'
  <2>1. Way(fd)' = Way(fd)
    BY <1>4, <1>5 DEF Way
  <2> QED BY <1>1, <1>2, <2>1 DEF Lines, LineAt, isConnected
<1> QED BY <1>1, <1>6, <1>7, <1>8, <1>9, <1>10, LinesBut

\* Serve: read() and the handler of the packet.
LEMMA ServeStep ==
  ASSUME LoginIInv, NEW fd \in Fd, Serve(fd)
  PROVE  onRead(fd) /\ LinkTypes' /\ GoneQuiet' /\ CallbackReads' /\ Lines'
<1> DEFINE c == client[fd]
           m == m_clients[fd]
           down == downlink[fd]
           rest == Tail(input[fd])
           step == ~m.m_isEncrypted \/ rest = <<>>
<1>1. Base /\ TypeOK /\ LinkTypes /\ GoneQuiet /\ CallbackReads /\ Lines
  BY DEF LoginIInv, Base
<1>2. /\ callback = fd /\ (m.m_isEncrypted => inStep[fd]) /\ Handle(fd, Head(input[fd])) /\ Post(fd)
      /\ input' = [input EXCEPT ![fd] = rest] /\ inStep' = [inStep EXCEPT ![fd] = step]
      /\ callback' = (IF Continues(Head(input[fd])) /\ rest # <<>> THEN fd ELSE Nobody)
      /\ UNCHANGED <<client, uplink>>
  BY DEF Serve
<1>3. running /\ isConnected(fd) /\ input[fd] # <<>>
  BY <1>1, <1>2, NobodyAssumption DEF CallbackReads
<1>4. /\ c \in Client /\ down \in Seq(DownPacket) /\ Way(fd) \in Seq(UpPacket)
      /\ input[fd] \in Seq(UpPacket) /\ uplink[fd] \in Seq(UpPacket) /\ m \in Connection
  BY <1>1, <1>3, LinksAt, AnswersBy
<1>5. /\ Head(input[fd]) = Way(fd)[1] /\ Way(fd) # <<>> /\ rest \in Seq(UpPacket)
      /\ rest \o uplink[fd] = Tail(Way(fd))
  <2>1. /\ Head(input[fd]) = (input[fd] \o uplink[fd])[1] /\ input[fd] \o uplink[fd] # <<>>
        /\ Tail(input[fd]) \in Seq(UpPacket)
        /\ Tail(input[fd]) \o uplink[fd] = Tail(input[fd] \o uplink[fd])
    BY ONLY <1>3, <1>4, ReadWay
  <2> QED BY ONLY <2>1 DEF Way, rest
<1>6. Line(c, m, Way(fd), down, inStep[fd])
  BY <1>1, <1>3 DEF Lines, LineAt
<1>7. Line(c, m, Way(fd), down, TRUE)
  BY <1>2, <1>6 DEF Line, Secured
<1>8. ServedWell(fd, c, m, Way(fd), down)
  BY <1>1, <1>2, <1>3, <1>4, <1>5, <1>7, ServeLine
<1>9. PICK d \in Connection, packets \in Seq(WirePacket) :
        /\ Answers(fd, d, packets)
        /\ \A s \in BOOLEAN : s \/ m.m_isEncrypted =>
             Line(c, d, Tail(Way(fd)), Posted(c, down, d, packets), s)
  BY <1>8 DEF ServedWell
<1>10. /\ downlink' = [downlink EXCEPT ![fd] = Posted(c, down, d, packets)]
       /\ Posted(c, down, d, packets) \in Seq(DownPacket)
       /\ c.phase = "away" => Posted(c, down, d, packets) = <<>>
       /\ m_clients'[fd] = d /\ DOMAIN m_clients' = DOMAIN m_clients
       /\ \A f \in Fd \ {fd} : m_clients'[f] = m_clients[f] \/ ~isConnected(f)
  BY <1>1, <1>2, <1>3, <1>9, PostBy
<1>11. step \in BOOLEAN /\ (step \/ m.m_isEncrypted)
  BY <1>4 DEF Connection
<1>12. Line(c, d, Tail(Way(fd)), Posted(c, down, d, packets), step)
  BY <1>9, <1>11
<1>13. Continues(Head(input[fd])) => running'
  BY <1>2, <1>3 DEF Continues, Handle, Handshake, server
<1> HIDE DEF c, m, down, rest, step
<1>14. LinkTypes'
  BY <1>1, <1>2, <1>5, <1>10, <1>11 DEF LinkTypes
<1>15. GoneQuiet'
  BY <1>1, <1>2, <1>10 DEF GoneQuiet, LinkTypes, c
<1>16. input'[fd] = rest /\ inStep'[fd] = step /\ uplink'[fd] = uplink[fd]
       /\ client'[fd] = c /\ downlink'[fd] = Posted(c, down, d, packets)
  BY <1>1, <1>2, <1>10 DEF LinkTypes, c
<1>17. CallbackReads'
  BY <1>2, <1>3, <1>10, <1>13, <1>16 DEF CallbackReads, isConnected
<1>18. \A f \in Fd \ {fd} : Untouched(f)
  BY <1>1, <1>2, <1>10 DEF Untouched, isConnected, LinkTypes
<1>19. LineAt(fd)'
  <2>1. Way(fd)' = Tail(Way(fd))
    BY <1>5, <1>16 DEF Way
  <2> QED BY <1>3, <1>10, <1>12, <1>16, <2>1 DEF LineAt, isConnected
<1> QED BY <1>1, <1>8, <1>14, <1>15, <1>17, <1>18, <1>19, LinesBut DEF ServedWell

\* The death of the process: every line is cut.
LEMMA DeathStep ==
  ASSUME Terminate, EveryoneGone
  PROVE  LinkTypes' /\ GoneQuiet' /\ CallbackReads' /\ Lines'
<1>1. m_clients' = EmptyMap
  BY DEF Terminate
<1>2. \A f : ~isConnected(f)'
  BY <1>1 DEF EmptyMap, isConnected
<1>3. Away \in Client /\ <<>> \in Seq(UpPacket) /\ <<>> \in Seq(DownPacket)
  BY EmptyFacts DEF Away, Client
<1>4. LinkTypes'
  BY <1>3 DEF EveryoneGone, LinkTypes
<1>5. GoneQuiet' /\ CallbackReads'
  BY DEF EveryoneGone, GoneQuiet, CallbackReads
<1>6. Lines'
  BY <1>2 DEF EveryoneGone, Lines, LineAt
<1> QED BY <1>4, <1>5, <1>6

\* Garbled: read() waits for more, takes some packet off the noise, or dies.
LEMMA GarbledStep ==
  ASSUME LoginIInv, NEW fd \in Fd, Garbled(fd)
  PROVE  [Next]_vars /\ LinkTypes' /\ GoneQuiet' /\ CallbackReads' /\ Lines'
<1> DEFINE c == client[fd]
           m == m_clients[fd]
           down == downlink[fd]
<1>1. Base /\ TypeOK /\ LinkTypes /\ GoneQuiet /\ CallbackReads /\ Lines
  BY DEF LoginIInv, Base
<1>2. callback = fd /\ m.m_isEncrypted /\ ~inStep[fd]
  BY DEF Garbled
<1>3. running /\ isConnected(fd)
  BY <1>1, <1>2, NobodyAssumption DEF CallbackReads
<1>4. CASE UNCHANGED <<vars, client, links, inStep>> /\ callback' = Nobody
  <2>1. UNCHANGED <<m_clients, client, input, uplink, downlink, inStep>>
    BY <1>4 DEF vars, links
  <2>2. LinkTypes' /\ GoneQuiet' /\ CallbackReads'
    BY <1>1, <1>4, <2>1 DEF LinkTypes, GoneQuiet, CallbackReads
  <2>3. Lines'
    BY <1>1, <2>1 DEF Lines, LineAt, Way, isConnected
  <2> QED BY <1>4, <2>2, <2>3
<1>5. CASE Terminate /\ EveryoneGone
  <2>1. Next
    BY <1>3, <1>5 DEF Next, onEvent
  <2> QED BY <1>5, <2>1, DeathStep
<1>6. CASE /\ onRead(fd) /\ running' /\ Post(fd)
           /\ input' = [input EXCEPT ![fd] = <<>>] /\ callback' = Nobody
           /\ UNCHANGED <<client, uplink, inStep>>
  <2>1. /\ c \in Client /\ down \in Seq(DownPacket) /\ m \in Connection
        /\ input[fd] \in Seq(UpPacket) /\ uplink[fd] \in Seq(UpPacket)
    BY <1>1, <1>3, LinksAt, AnswersBy
  <2>2. Secured(c, m, Way(fd), down)
    <3>1. Line(c, m, Way(fd), down, inStep[fd])
      BY <1>1, <1>3 DEF Lines, LineAt
    <3> QED BY <1>2, <3>1 DEF Line
  <2>3. StaysSecured(fd)
    BY <1>1, <1>2, <1>6, <2>2, SecuredRead DEF Secured
  <2>4. PICK d \in Connection, packets \in Seq(WirePacket) :
          /\ Answers(fd, d, packets)
          /\ d.m_isEncrypted /\ d.m_isCompressed = CompressionOn /\ d.m_kickAtLogin = m.m_kickAtLogin
          /\ \A i \in DOMAIN packets :
               /\ Framed(packets[i], CompressionOn, TRUE)
               /\ packets[i].type = "SetCompression" => CompressionOn
    BY <2>3 DEF StaysSecured
  <2>5. /\ downlink' = [downlink EXCEPT ![fd] = Posted(c, down, d, packets)]
        /\ Posted(c, down, d, packets) \in Seq(DownPacket)
        /\ c.phase = "away" => Posted(c, down, d, packets) = <<>>
        /\ m_clients'[fd] = d /\ DOMAIN m_clients' = DOMAIN m_clients
        /\ \A f \in Fd \ {fd} : m_clients'[f] = m_clients[f] \/ ~isConnected(f)
    BY <1>1, <1>3, <1>6, <2>4, PostBy
  <2>6. Secured(c, d, uplink[fd], Posted(c, down, d, packets))
    BY <2>1, <2>2, <2>4, GarbledLine DEF Way
  <2> HIDE DEF c, m, down
  <2>7. LinkTypes'
    BY <1>1, <1>6, <2>5, EmptyFacts DEF LinkTypes
  <2>8. GoneQuiet' /\ CallbackReads'
    BY <1>1, <1>6, <2>5 DEF GoneQuiet, LinkTypes, CallbackReads, c
  <2>9. /\ input'[fd] = <<>> /\ uplink'[fd] = uplink[fd] /\ client'[fd] = c /\ inStep'[fd] = inStep[fd]
        /\ downlink'[fd] = Posted(c, down, d, packets)
    BY <1>1, <1>6, <2>5 DEF LinkTypes, c
  <2>10. Way(fd)' = uplink[fd]
    BY <2>1, <2>9, ConcatEmptySeq DEF Way
  <2>11. LineAt(fd)'
    BY <1>2, <1>3, <2>5, <2>6, <2>9, <2>10 DEF LineAt, Line, isConnected
  <2>12. \A f \in Fd \ {fd} : Untouched(f)
    BY <1>1, <1>6, <2>5 DEF Untouched, isConnected, LinkTypes
  <2>13. Lines'
    BY <1>1, <2>11, <2>12, LinesBut
  <2> QED BY <1>6, <2>7, <2>8, <2>13 DEF Next
<1> QED BY <1>4, <1>5, <1>6 DEF Garbled

\* Hangup: the connection of a client that has gone is removed, or the process
\* dies of the removal.
LEMMA HangupStep ==
  ASSUME LoginIInv, NEW fd \in Fd, Hangup(fd)
  PROVE  LinkTypes' /\ GoneQuiet' /\ CallbackReads' /\ Lines'
<1>1. Base /\ LinkTypes /\ GoneQuiet /\ CallbackReads /\ Lines
  BY DEF LoginIInv
<1>2. callback = Nobody /\ client[fd] = Away /\ onEvent(fd)
  BY DEF Hangup
<1>3. CASE ~running'
  <2>1. Terminate
    BY <1>2, <1>3 DEF onEvent
  <2>2. EveryoneGone
    BY <1>3 DEF Hangup
  <2> QED BY <2>1, <2>2, DeathStep
<1>4. CASE running'
  <2>1. Leaves(fd)
    BY <1>2, <1>4 DEF onEvent, Terminate, Leaves
  <2>2. /\ uplink' = [uplink EXCEPT ![fd] = <<>>] /\ input' = [input EXCEPT ![fd] = <<>>]
        /\ inStep' = [inStep EXCEPT ![fd] = TRUE]
        /\ UNCHANGED <<client, downlink, callback>>
    BY <1>4 DEF Hangup
  <2>3. /\ DOMAIN m_clients' = DOMAIN m_clients \ {fd}
        /\ \A f \in DOMAIN m_clients' : m_clients'[f] = m_clients[f]
    BY <1>1, <2>1, LeaveTable
  <2>4. LinkTypes'
    BY <1>1, <2>2, EmptyFacts DEF LinkTypes
  <2>5. GoneQuiet' /\ CallbackReads'
    BY <1>1, <1>2, <2>2 DEF GoneQuiet, CallbackReads
  <2>6. downlink[fd] = <<>>
    BY <1>1, <1>2 DEF GoneQuiet, Away
  <2>7. LineAt(fd)'
    BY <1>1, <2>2, <2>3, <2>6 DEF LineAt, isConnected, LinkTypes
  <2>8. \A f \in Fd \ {fd} : Untouched(f)
    BY <1>1, <2>2, <2>3 DEF Untouched, isConnected, LinkTypes
  <2> QED BY <1>1, <2>4, <2>5, <2>7, <2>8, LinesBut
<1> QED BY <1>3, <1>4

\* The clock, a restart, or nothing at all.
LEMMA IdleStep ==
  ASSUME LoginIInv, UNCHANGED <<m_clients, client, links, callback, inStep>>,
         running => running'
  PROVE  LinkTypes' /\ GoneQuiet' /\ CallbackReads' /\ Lines'
<1>1. LinkTypes /\ GoneQuiet /\ CallbackReads /\ Lines
  BY DEF LoginIInv
<1>2. UNCHANGED <<m_clients, client, input, uplink, downlink, callback, inStep>>
  BY DEF links
<1>3. LinkTypes' /\ GoneQuiet' /\ CallbackReads'
  BY <1>1, <1>2 DEF LinkTypes, GoneQuiet, CallbackReads, isConnected
<1>4. Lines'
  BY <1>1, <1>2 DEF Lines, LineAt, Way, isConnected
<1> QED BY <1>3, <1>4

\* Every step of the composition is a step of the server, or none.
LEMMA StepIsServers ==
  ASSUME LoginIInv, [LoginNext]_allVars
  PROVE  [Next]_vars
<1>1. ASSUME NEW fd \in Fd, NEW ip \in IP, Connect(fd, ip) PROVE Next
  BY <1>1 DEF Connect, Next
<1>2. ASSUME NEW fd \in Fd, Quit(fd) \/ Receive(fd) \/ (\E n \in 1 .. Len(uplink[fd]) : Deliver(fd, n))
      PROVE  UNCHANGED vars
  BY <1>2 DEF Quit, Receive, Deliver
<1>3. ASSUME NEW fd \in Fd, Serve(fd) PROVE Next
  BY <1>3, ServeStep DEF Next
<1>4. ASSUME NEW fd \in Fd, Garbled(fd) PROVE [Next]_vars
  BY <1>4, GarbledStep
<1>5. ASSUME NEW fd \in Fd, Hangup(fd) PROVE Next
  BY <1>5 DEF Hangup, Next
<1>6. Tick \/ Restart => Next
  BY DEF Next
<1>7. UNCHANGED allVars => UNCHANGED vars
  BY DEF allVars
<1> QED BY <1>1, <1>2, <1>3, <1>4, <1>5, <1>6, <1>7 DEF LoginNext

LEMMA LoginInductive ==
  ASSUME LoginIInv, [LoginNext]_allVars
  PROVE  LoginIInv'
<1> DEFINE Goal == LinkTypes' /\ GoneQuiet' /\ CallbackReads' /\ Lines'
<1>1. Base'
  BY StepIsServers, BaseInductive DEF LoginIInv
<1>2. ASSUME NEW fd \in Fd, NEW ip \in IP, Connect(fd, ip) PROVE Goal
  BY <1>2, ConnectStep
<1>3. ASSUME NEW fd \in Fd, Quit(fd) PROVE Goal
  BY <1>3, QuitStep
<1>4. ASSUME NEW fd \in Fd, Receive(fd) PROVE Goal
  BY <1>4, ReceiveStep
<1>5. ASSUME NEW fd \in Fd, NEW n \in 1 .. Len(uplink[fd]), Deliver(fd, n) PROVE Goal
  BY <1>5, DeliverStep
<1>6. ASSUME NEW fd \in Fd, Serve(fd) PROVE Goal
  BY <1>6, ServeStep
<1>7. ASSUME NEW fd \in Fd, Garbled(fd) PROVE Goal
  BY <1>7, GarbledStep
<1>8. ASSUME NEW fd \in Fd, Hangup(fd) PROVE Goal
  BY <1>8, HangupStep
<1>9. ASSUME UNCHANGED <<m_clients, client, links, callback, inStep>>, running => running' PROVE Goal
  BY <1>9, IdleStep
<1>10. ASSUME Tick, UNCHANGED <<client, links, callback, inStep>> PROVE Goal
  <2>1. UNCHANGED m_clients /\ (running => running')
    BY <1>10 DEF Tick
  <2> HIDE DEF Goal
  <2> QED BY <1>9, <1>10, <2>1
<1>11. ASSUME Restart, UNCHANGED <<client, links, callback, inStep>> PROVE Goal
  <2>1. UNCHANGED m_clients /\ (running => running')
    BY <1>11 DEF Restart
  <2> HIDE DEF Goal
  <2> QED BY <1>9, <1>11, <2>1
<1>12. ASSUME UNCHANGED allVars PROVE Goal
  <2>1. UNCHANGED m_clients /\ (running => running') /\ UNCHANGED <<client, links, callback, inStep>>
    BY <1>12 DEF allVars, vars
  <2> HIDE DEF Goal
  <2> QED BY <1>9, <2>1
<1> HIDE DEF Goal
<1>13. Goal
  <2>1. CASE LoginNext
    <3>1. ASSUME NEW fd \in Fd,
                 \/ \E ip \in IP : Connect(fd, ip)
                 \/ Quit(fd) \/ Receive(fd) \/ Serve(fd) \/ Garbled(fd) \/ Hangup(fd)
                 \/ \E n \in 1 .. Len(uplink[fd]) : Deliver(fd, n)
          PROVE  Goal
      BY <1>2, <1>3, <1>4, <1>5, <1>6, <1>7, <1>8, <3>1
    <3> QED BY <1>10, <1>11, <2>1, <3>1 DEF LoginNext
  <2> QED BY <1>12, <2>1
<1> QED BY <1>1, <1>13 DEF LoginIInv, Goal

LEMMA LoginStarts == LoginInit => LoginIInv
<1> SUFFICES ASSUME LoginInit PROVE LoginIInv
  OBVIOUS
<1>1. Base
  <2>1. Init
    BY DEF LoginInit
  <2> QED BY <2>1, InitIInv DEF IInv
<1>2. Away \in Client /\ <<>> \in Seq(UpPacket) /\ <<>> \in Seq(DownPacket)
  BY EmptyFacts DEF Away, Client
<1>3. LinkTypes
  BY <1>2 DEF LoginInit, LinkTypes
<1>4. GoneQuiet /\ CallbackReads
  BY DEF LoginInit, GoneQuiet, CallbackReads
<1>5. Lines
  BY DEF LoginInit, Lines, LineAt, isConnected, Init, EmptyMap
<1> QED BY <1>1, <1>3, <1>4, <1>5 DEF LoginIInv

-----------------------------------------------------------------------------
(* The theorems.                                                           *)

\* Every connection stands on one line of the login, whatever was bundled, left
\* unread or garbled, and however clients quit and the process dies.
THEOREM LoginInvariant == LoginSpec => []LoginIInv
<1>1. LoginIInv /\ [LoginNext]_allVars => LoginIInv'
  BY LoginInductive
<1> QED BY LoginStarts, <1>1, PTL DEF LoginSpec

\* The clients that follow the protocol are clients of the server: what they and
\* its connections do together is a behaviour of ZincServer, so that every
\* theorem about ZincServer holds of the composition.
THEOREM LoginRefinesServer == LoginSpec => Spec
<1>1. LoginInit => Init
  BY DEF LoginInit
<1>2. LoginIInv /\ [LoginNext]_allVars => [Next]_vars
  BY StepIsServers
<1> QED BY LoginInvariant, <1>1, <1>2, PTL DEF LoginSpec, Spec

\* setupCompression, setupEncryption and the replies around them: both sides
\* frame the next packet alike.
THEOREM ModeAgreementCorrect == LoginSpec => []ModeAgreement
<1>1. LoginIInv => ModeAgreement
  <2> SUFFICES ASSUME LoginIInv, NEW fd \in Fd
               PROVE  /\ downlink[fd] # <<>> =>
                           Framed(Head(downlink[fd]), client[fd].compressed, client[fd].encrypted)
                      /\ isConnected(fd) /\ input[fd] # <<>> /\ inStep[fd] =>
                           Framed(Head(input[fd]), m_clients[fd].m_isCompressed, m_clients[fd].m_isEncrypted)
    BY DEF ModeAgreement
  <2> DEFINE c == client[fd]
             m == m_clients[fd]
             down == downlink[fd]
             way == Way(fd)
  <2>1. LinkTypes /\ GoneQuiet /\ Lines /\ TypeOK
    BY DEF LoginIInv, Base
  <2>2. /\ c \in Client /\ down \in Seq(DownPacket) /\ way \in Seq(UpPacket)
        /\ input[fd] \in Seq(UpPacket) /\ uplink[fd] \in Seq(UpPacket)
    BY <2>1, LinksAt
  <2>3. ASSUME down # <<>> PROVE Framed(Head(down), c.compressed, c.encrypted)
    <3>1. isConnected(fd) /\ Line(c, m, way, down, inStep[fd])
      BY <2>1, <2>3 DEF Lines, LineAt
    <3>2. c.phase # "away"
      BY <2>1, <2>3 DEF GoneQuiet
    <3>3. Head(down) = down[1] /\ 1 \in DOMAIN down
      BY <2>2, <2>3, TailFacts
    <3> HIDE DEF c, m, down, way
    <3>4. CASE Refused(c, m, way, down)
      BY <3>2, <3>3, <3>4 DEF Refused, GoneOr
    <3>5. CASE Offered(c, m, way, down)
      BY <2>3, <3>2, <3>3, <3>5 DEF Offered, GoneOr, Request
    <3>6. CASE Secured(c, m, way, down)
      BY <3>2, <3>3, <3>6 DEF Secured, GoneOr, AllFramed
    <3>7. CASE Greeting(c, m, way, down) \/ Answered(c, m, way, down)
      BY <2>3, <3>7 DEF Greeting, Answered
    <3> QED BY <3>1, <3>4, <3>5, <3>6, <3>7 DEF Line, Opening
  <2>4. ASSUME isConnected(fd), input[fd] # <<>>
        PROVE  Framed(Head(input[fd]), m.m_isCompressed, m.m_isEncrypted)
    <3>1. m \in Connection /\ Line(c, m, way, down, inStep[fd])
      BY <2>1, <2>4, AnswersBy DEF Lines, LineAt
    <3>2. Head(input[fd]) = way[1] /\ way # <<>>
      <4>1. /\ Head(input[fd]) = (input[fd] \o uplink[fd])[1] /\ input[fd] \o uplink[fd] # <<>>
        BY ONLY <2>2, <2>4, ReadWay
      <4> QED BY ONLY <4>1 DEF Way
    <3>3. 1 \in DOMAIN way
      BY <2>2, <3>2, RestFacts
    <3> HIDE DEF c, m, down, way
    <3>4. CASE Greeting(c, m, way, down)
      BY <3>1, <3>2, <3>3, <3>4 DEF Greeting, AllFramed, Bare, Connection
    <3>5. CASE Answered(c, m, way, down)
      BY <3>1, <3>2, <3>3, <3>5 DEF Answered, Admitted, Connection
    <3>6. CASE Secured(c, m, way, down)
      BY <3>1, <3>2, <3>3, <3>6 DEF Secured, AllFramed, Connection
    <3>7. CASE Refused(c, m, way, down) \/ Offered(c, m, way, down)
      BY <3>2, <3>7 DEF Refused, Offered
    <3> QED BY <3>1, <3>4, <3>5, <3>6, <3>7 DEF Line, Opening
  <2> QED BY <2>3, <2>4
<1> QED BY LoginInvariant, <1>1, PTL

\* m_verifyToken: an answer on its way carries the token its connection compares
\* with.
THEOREM TokensAgreeCorrect == LoginSpec => []TokensAgree
<1>1. LoginIInv => TokensAgree
  <2> SUFFICES ASSUME LoginIInv, NEW fd \in DOMAIN m_clients, inStep[fd], NEW i \in DOMAIN Way(fd),
                      Way(fd)[i].type \in {"EncryptionResponse", "Ping"}
               PROVE  Way(fd)[i].token = m_clients[fd].m_verifyToken
    BY DEF TokensAgree, Way
  <2> DEFINE c == client[fd]
             m == m_clients[fd]
             down == downlink[fd]
             way == Way(fd)
  <2>1. fd \in Fd /\ LinkTypes /\ Lines
    BY DEF LoginIInv, Base, TypeOK
  <2>2. Line(c, m, way, down, TRUE) /\ way \in Seq(UpPacket)
    BY <2>1, LinksAt DEF Lines, LineAt, isConnected, LinkTypes
  <2>3. DOMAIN way = 1 .. Len(way)
    BY <2>2
  <2> HIDE DEF c, m, down, way
  <2>4. way[i].type \in {"EncryptionResponse", "Ping"} /\ i \in DOMAIN way
    BY DEF way
  <2>5. CASE Greeting(c, m, way, down)
    <3>1. i = 1 \/ i = 2
      BY <2>3, <2>4, <2>5 DEF Greeting
    <3> QED BY <2>3, <2>4, <2>5, <3>1 DEF Greeting
  <2>6. CASE Answered(c, m, way, down)
    <3>1. i = 1
      BY <2>3, <2>4, <2>6 DEF Answered
    <3> QED BY <2>6, <3>1 DEF Answered, way, m
  <2>7. CASE Refused(c, m, way, down) \/ Offered(c, m, way, down)
    BY <2>4, <2>7, EmptyFacts DEF Refused, Offered
  <2>8. CASE Genuine(m, way, down)
    <3>1. way[i].type = "Ping"
      BY <2>4, <2>8 DEF Genuine
    <3>2. way[i].token = m.m_verifyToken
      BY <2>4, <2>8, <3>1 DEF Genuine
    <3> QED BY <3>2 DEF way, m
  <2> QED BY <2>2, <2>5, <2>6, <2>7, <2>8 DEF Line, Opening
<1> QED BY LoginInvariant, <1>1, PTL

\* LOGIN START: who was marked at accept never becomes a player.
THEOREM KickedNeverCountedCorrect == LoginSpec => []KickedNeverCounted
<1>1. LoginIInv => KickedNeverCounted
  <2> SUFFICES ASSUME LoginIInv, NEW fd \in DOMAIN m_clients, m_clients[fd].m_loginFinished
               PROVE  m_clients[fd].m_kickAtLogin = 0
    BY DEF KickedNeverCounted
  <2>1. fd \in Fd /\ Lines /\ Sound(m_clients[fd])
    BY DEF LoginIInv, Base, TypeOK
  <2>2. Line(client[fd], m_clients[fd], Way(fd), downlink[fd], inStep[fd])
    BY <2>1 DEF Lines, LineAt, isConnected
  <2>3. m_clients[fd].m_state \in {"Config", "Play"}
    BY <2>1 DEF Sound
  <2> QED BY <2>2, <2>3 DEF Line, Opening, Greeting, Refused, Offered, Answered, Admitted, Secured
<1> QED BY LoginInvariant, <1>1, PTL
============================================================================
