------------------------- MODULE ZincSrvCtlProofs -------------------------
(***************************************************************************)
(* Proofs about ZincSrvCtl for every set of descriptors, every stream a    *)
(* peer may send and every way to cut it into arrivals.                    *)
(***************************************************************************)
EXTENDS ZincSrvCtl, ZincSumsProofs, FiniteSetTheorems

-----------------------------------------------------------------------------
(* The inductive invariant.                                                *)

Connection ==
  [state : {"Handshake", "Login"}, stream : Seq(Packet), arrived : Nat, drained : Nat,
   answers : Seq({1, -1}), callbacks : Nat, handled : Seq(Nat), whole : BOOLEAN]

\* One connection: its types, and where its answers say its login is.
Sound(c) ==
  /\ c \in Connection /\ c.drained <= c.arrived
  /\ c.state = "Handshake" => /\ Len(c.answers) = c.callbacks
                              /\ \A i \in DOMAIN c.answers : c.answers[i] # 1
  /\ c.state = "Login" => \E i \in DOMAIN c.answers :
       c.answers[i] = 1 /\ \A j \in DOMAIN c.answers : c.answers[j] = 1 => i = j

IInv ==
  /\ DOMAIN m_clients \subseteq openFds /\ openFds \subseteq Fd /\ alive \in BOOLEAN
  /\ \A fd \in DOMAIN m_clients : Sound(m_clients[fd]) /\ m_clients[fd].stream \in Streams[fd]

-----------------------------------------------------------------------------
(* One callback.                                                           *)

LEMMA ArrivedSound ==
  ASSUME NEW c, Sound(c), NEW n \in Nat
  PROVE  LET d == Arrived(c, n)
         IN /\ d \in Connection /\ d.drained <= d.arrived /\ d.callbacks = c.callbacks + 1
            /\ d.state = c.state /\ d.answers = c.answers /\ d.stream = c.stream
            /\ d.arrived = c.arrived + n /\ d.drained = c.drained
<1> DEFINE w == c.whole /\ \E k \in DOMAIN c.stream : Boundary(c.stream, k) = c.arrived + n
<1>1. w \in BOOLEAN
  OBVIOUS
<1>2. Arrived(c, n) = [c EXCEPT !.arrived = c.arrived + n, !.callbacks = c.callbacks + 1, !.whole = w]
  BY DEF Arrived
<1> HIDE DEF w
<1>3. c \in Connection /\ c.drained <= c.arrived
  BY DEF Sound
<1>4. c.arrived \in Nat /\ c.drained \in Nat /\ c.arrived + n \in Nat /\ c.callbacks + 1 \in Nat
  BY <1>3 DEF Connection
<1> DEFINE d == Arrived(c, n)
<1>5. d \in Connection
  BY <1>1, <1>2, <1>3, <1>4, Zenon DEF Connection
<1>6. /\ d.callbacks = c.callbacks + 1 /\ d.arrived = c.arrived + n
      /\ d.state = c.state /\ d.answers = c.answers /\ d.stream = c.stream /\ d.drained = c.drained
  BY <1>2, <1>3, Zenon DEF Connection
<1>7. d.drained <= d.arrived
  BY <1>3, <1>4, <1>6
<1> QED BY <1>5, <1>6, <1>7

LEMMA RefusedSound ==
  ASSUME NEW c, Sound(c), NEW n \in Nat
  PROVE  Sound(Refused(Arrived(c, n))) /\ Refused(Arrived(c, n)).stream = c.stream
<1> DEFINE d == Arrived(c, n)
<1>1. /\ d \in Connection /\ d.drained <= d.arrived /\ d.callbacks = c.callbacks + 1
      /\ d.state = c.state /\ d.answers = c.answers /\ d.stream = c.stream
  BY ArrivedSound
<1> HIDE DEF d
<1> DEFINE e == Refused(d)
<1>2. /\ e \in Connection /\ e.drained = e.arrived /\ e.callbacks = c.callbacks + 1 /\ e.state = c.state
      /\ e.answers = Append(c.answers, -1) /\ e.stream = c.stream
  <2>1. e = [d EXCEPT !.drained = d.arrived, !.answers = Append(d.answers, -1)]
    BY DEF Refused, Drained
  <2>2. d.answers \in Seq({1, -1}) /\ d.arrived \in Nat
    BY <1>1 DEF Connection
  <2>3. Append(d.answers, -1) \in Seq({1, -1})
    BY <2>2
  <2>4. e \in Connection
    BY <1>1, <2>1, <2>2, <2>3, Zenon DEF Connection
  <2>5. /\ e.drained = d.arrived /\ e.arrived = d.arrived /\ e.callbacks = d.callbacks
        /\ e.state = d.state /\ e.answers = Append(d.answers, -1) /\ e.stream = d.stream
    BY <1>1, <2>1, Zenon DEF Connection
  <2> QED BY <1>1, <2>4, <2>5
<1> HIDE DEF e
<1>3. c.answers \in Seq({1, -1}) /\ c.callbacks \in Nat /\ c.state \in {"Handshake", "Login"}
  BY DEF Sound, Connection
<1>4. /\ Len(e.answers) = Len(c.answers) + 1 /\ DOMAIN c.answers = 1 .. Len(c.answers)
      /\ DOMAIN e.answers = 1 .. Len(c.answers) + 1 /\ Len(c.answers) \in Nat
      /\ \A i \in DOMAIN c.answers : i \in DOMAIN e.answers /\ e.answers[i] = c.answers[i]
      /\ \A i \in DOMAIN e.answers : i \in DOMAIN c.answers \/ e.answers[i] = -1
  BY <1>2, <1>3
<1>5. e.state = "Handshake" => /\ Len(e.answers) = e.callbacks
                               /\ \A i \in DOMAIN e.answers : e.answers[i] # 1
  BY <1>2, <1>4 DEF Sound
<1>6. e.state = "Login" => \E i \in DOMAIN e.answers :
        e.answers[i] = 1 /\ \A j \in DOMAIN e.answers : e.answers[j] = 1 => i = j
  BY <1>2, <1>4 DEF Sound
<1>7. e.drained <= e.arrived
  BY <1>2 DEF Connection
<1>8. Sound(e) /\ e.stream = c.stream
  BY <1>2, <1>5, <1>6, <1>7 DEF Sound
<1> QED BY <1>8 DEF d, e

\* The packets that begin where the connection reads are listed by their
\* numbers, each once.
LEMMA BeginningType ==
  ASSUME NEW c \in Connection
  PROVE  /\ SetToSeq(Beginning(c)) \in Seq(Nat)
         /\ \A i \in DOMAIN SetToSeq(Beginning(c)) : SetToSeq(Beginning(c))[i] \in Beginning(c)
         /\ IsInjective(SetToSeq(Beginning(c)))
<1> DEFINE S == Beginning(c)
           n == Cardinality(S)
<1>1. c.stream \in Seq(Packet)
  BY DEF Connection
<1>2. S \subseteq 1 .. Len(c.stream)
  BY <1>1 DEF Beginning
<1>3. IsFiniteSet(S) /\ n \in Nat
  <2>1. Len(c.stream) \in Nat
    BY <1>1
  <2>2. IsFiniteSet(1 .. Len(c.stream))
    BY <2>1, FS_Interval
  <2>3. IsFiniteSet(S)
    BY <1>2, <2>2, FS_Subset
  <2> QED BY <2>3, FS_CardinalityType
<1>4. \E f \in [1 .. n -> S] : IsInjective(f)
  <2>1. ExistsBijection(1 .. n, S)
    BY <1>3, FS_CardinalityType
  <2> QED BY <2>1 DEF ExistsBijection, Bijection, Injection, Surjection, IsInjective
<1>5. SetToSeq(S) \in [1 .. n -> S] /\ IsInjective(SetToSeq(S))
  BY <1>4 DEF SetToSeq
<1>6. SetToSeq(S) \in Seq(Nat)
  BY <1>1, <1>2, <1>3, <1>5
<1>7. \A i \in DOMAIN SetToSeq(S) : SetToSeq(S)[i] \in S
  <2> DEFINE q == SetToSeq(S)
  <2>1. q \in [1 .. n -> S]
    BY <1>5
  <2> HIDE DEF q, S, n
  <2>2. \A i \in DOMAIN q : q[i] \in S
    BY <2>1
  <2> QED BY <2>2 DEF q
<1> QED BY <1>5, <1>6, <1>7

\* An answer that is added is the last, and the others stay where they were.
LEMMA LastAnswer ==
  ASSUME NEW s \in Seq({1, -1}), NEW x \in {1, -1}
  PROVE  /\ DOMAIN (s \o <<x>>) = 1 .. Len(s) + 1 /\ (s \o <<x>>)[Len(s) + 1] = x
         /\ \A j \in 1 .. Len(s) : (s \o <<x>>)[j] = s[j]
OBVIOUS

LEMMA HandledSound ==
  ASSUME NEW c, Sound(c), NEW n \in Nat, NEW length \in 0 .. Word - 1, NEW id \in {0, 1},
         Available(Arrived(c, n)) >= PacketBytes(length)
  PROVE  /\ Sound(Handled(Arrived(c, n), length, id))
         /\ Handled(Arrived(c, n), length, id).stream = c.stream
<1> DEFINE d == Arrived(c, n)
           bytes == PacketBytes(length)
           answer == Answer(d, id)
           more == SetToSeq(Beginning(d))
           e == Handled(d, length, id)
<1>1. /\ d \in Connection /\ d.drained <= d.arrived /\ d.callbacks = c.callbacks + 1
      /\ d.state = c.state /\ d.answers = c.answers /\ d.stream = c.stream
  BY ArrivedSound
<1>2. bytes \in Nat
  BY SrvCtlAssumption DEF PacketBytes
<1>3. d.arrived - d.drained >= bytes
  BY DEF Available
<1>4. e = [d EXCEPT !.drained = d.drained + bytes, !.state = NextState(d),
                    !.answers = d.answers \o answer, !.handled = d.handled \o more]
  BY DEF Handled
<1> HIDE DEF d
<1>5. d.state \in {"Handshake", "Login"} /\ c.state \in {"Handshake", "Login"}
  BY <1>1 DEF Connection
<1>6. /\ NextState(d) = "Login"
      /\ d.state = "Handshake" => answer = <<1>>
      /\ d.state = "Login" => answer \in {<<>>, <<-1>>}
  BY <1>5 DEF NextState, Answer
<1>7. more \in Seq(Nat)
  BY <1>1, BeginningType
<1> HIDE DEF bytes, answer, more, e
<1>8. /\ d.answers \in Seq({1, -1}) /\ d.handled \in Seq(Nat) /\ d.drained \in Nat /\ d.arrived \in Nat
      /\ c.callbacks \in Nat
  BY <1>1 DEF Connection, Sound
<1>9. /\ answer \in Seq({1, -1}) /\ d.answers \o answer \in Seq({1, -1}) /\ d.handled \o more \in Seq(Nat)
      /\ d.drained + bytes \in Nat
  <2>1. answer \in Seq({1, -1})
    <3>1. <<>> \in Seq({1, -1}) /\ <<1>> \in Seq({1, -1})
      OBVIOUS
    <3>2. <<-1>> \in Seq({1, -1})
      OBVIOUS
    <3>3. answer = <<>> \/ answer = <<1>> \/ answer = <<-1>>
      BY <1>5, <1>6
    <3> QED BY <3>1, <3>2, <3>3, Zenon
  <2> QED BY <1>2, <1>7, <1>8, <2>1
<1>10. e \in Connection
  BY <1>1, <1>4, <1>6, <1>9, Zenon DEF Connection
<1>11. /\ e.drained = d.drained + bytes /\ e.arrived = d.arrived /\ e.callbacks = d.callbacks
       /\ e.state = "Login" /\ e.answers = d.answers \o answer /\ e.stream = d.stream
  BY <1>1, <1>4, <1>6, Zenon DEF Connection
<1>12. e.drained <= e.arrived
  BY <1>2, <1>3, <1>8, <1>11
<1>13. \E i \in DOMAIN e.answers : e.answers[i] = 1 /\ \A j \in DOMAIN e.answers : e.answers[j] = 1 => i = j
  <2> DEFINE k == Len(c.answers)
  <2>1. k \in Nat /\ DOMAIN c.answers = 1 .. k
    BY <1>1, <1>8
  <2>2. CASE d.state = "Handshake"
    <3>1. \A i \in DOMAIN c.answers : c.answers[i] # 1
      BY <1>1, <2>2 DEF Sound
    <3>2. e.answers = c.answers \o <<1>>
      BY <1>1, <1>6, <1>11, <2>2, Zenon
    <3>3. /\ DOMAIN e.answers = 1 .. k + 1 /\ e.answers[k + 1] = 1
          /\ \A i \in 1 .. k : e.answers[i] = c.answers[i]
      <4>1. c.answers \in Seq({1, -1}) /\ 1 \in {1, -1}
        BY <1>1, <1>8, Zenon
      <4> QED BY <3>2, <4>1, LastAnswer
    <3> HIDE DEF k
    <3>4. k + 1 \in DOMAIN e.answers
      BY <2>1, <3>3
    <3>5. ASSUME NEW j \in DOMAIN e.answers, e.answers[j] = 1 PROVE k + 1 = j
      <4>1. j \in 1 .. k => e.answers[j] # 1
        BY <2>1, <3>1, <3>3
      <4> QED BY <2>1, <3>3, <3>5, <4>1
    <3> QED BY <3>3, <3>4, <3>5
  <2>3. CASE d.state = "Login"
    <3>1. PICK i \in DOMAIN c.answers :
            c.answers[i] = 1 /\ \A j \in DOMAIN c.answers : c.answers[j] = 1 => i = j
      BY <1>1, <2>3 DEF Sound
    <3>2. CASE answer = <<>>
      <4>1. e.answers = c.answers
        BY <1>1, <1>8, <1>11, <3>2
      <4> QED BY <3>1, <4>1
    <3>3. CASE answer = <<-1>>
      <4>1. e.answers = c.answers \o <<-1>>
        BY <1>1, <1>11, <3>3, Zenon
      <4>2. /\ DOMAIN e.answers = 1 .. k + 1 /\ e.answers[k + 1] = -1
            /\ \A j \in 1 .. k : e.answers[j] = c.answers[j]
        <5>1. c.answers \in Seq({1, -1}) /\ -1 \in {1, -1}
          BY <1>1, <1>8, Zenon
        <5> QED BY <4>1, <5>1, LastAnswer
      <4> HIDE DEF k
      <4>3. i \in DOMAIN e.answers /\ e.answers[i] = 1
        BY <2>1, <3>1, <4>2
      <4>4. ASSUME NEW j \in DOMAIN e.answers, e.answers[j] = 1 PROVE i = j
        <5>1. j # k + 1
          BY <4>2, <4>4
        <5>2. j \in 1 .. k
          BY <2>1, <4>2, <5>1
        <5> QED BY <2>1, <3>1, <4>2, <4>4, <5>2
      <4> QED BY <4>3, <4>4
    <3> QED BY <1>6, <2>3, <3>2, <3>3
  <2> QED BY <1>5, <2>2, <2>3
<1>14. Sound(e) /\ e.stream = c.stream
  BY <1>1, <1>10, <1>11, <1>12, <1>13 DEF Sound
<1> QED BY <1>14 DEF e, d

-----------------------------------------------------------------------------
(* Every step keeps the invariant.                                         *)

LEMMA NewSound ==
  ASSUME NEW stream \in Seq(Packet)
  PROVE  Sound(NewConnection(stream)) /\ NewConnection(stream).stream = stream
<1> DEFINE c == NewConnection(stream)
<1>1. /\ c.state = "Handshake" /\ c.stream = stream /\ c.arrived = 0 /\ c.drained = 0
      /\ c.answers = <<>> /\ c.callbacks = 0
  BY DEF NewConnection
<1>2. c \in Connection
  BY DEF NewConnection, Connection
<1>3. Len(<<>>) = 0 /\ DOMAIN <<>> = {}
  OBVIOUS
<1> HIDE DEF c
<1>4. Sound(c) /\ c.stream = stream
  BY <1>1, <1>2, <1>3 DEF Sound
<1> QED BY <1>4 DEF c

\* A callback changes its own connection only.
LEMMA CallbackKeeps ==
  ASSUME IInv, NEW fd \in DOMAIN m_clients, NEW c,
         Sound(c), c.stream = m_clients[fd].stream,
         m_clients' = [m_clients EXCEPT ![fd] = c], UNCHANGED <<openFds, alive>>
  PROVE  IInv'
BY DEF IInv

LEMMA ReadKeeps ==
  ASSUME IInv, NEW fd \in Fd, NEW n \in Nat,
         ReadShort(fd, n) \/ ReadIncomplete(fd, n) \/ ReadPacket(fd, n)
  PROVE  IInv'
<1> DEFINE c == m_clients[fd]
<1>1. fd \in DOMAIN m_clients
  BY DEF ReadShort, ReadIncomplete, ReadPacket, isConnected
<1>2. Sound(c)
  BY <1>1 DEF IInv
<1>3. CASE ReadShort(fd, n) \/ ReadIncomplete(fd, n)
  <2>1. m_clients' = [m_clients EXCEPT ![fd] = Refused(Arrived(c, n))] /\ UNCHANGED <<openFds, alive>>
    BY <1>3 DEF ReadShort, ReadIncomplete, Reads
  <2>2. Sound(Refused(Arrived(c, n))) /\ Refused(Arrived(c, n)).stream = c.stream
    BY <1>2, RefusedSound
  <2> QED BY <1>1, <2>1, <2>2, CallbackKeeps
<1>4. CASE ReadPacket(fd, n)
  <2>1. PICK length \in Lengths(c), id \in Ids(c) :
          /\ Available(c) + n >= PacketBytes(length)
          /\ m_clients' = [m_clients EXCEPT ![fd] = Handled(Arrived(c, n), length, id)]
          /\ UNCHANGED <<openFds, alive>>
    BY <1>4 DEF ReadPacket, Reads
  <2>2. length \in 0 .. Word - 1 /\ id \in {0, 1}
    <3>1. \A k \in Beginning(c) : c.stream[k] \in Packet
      BY <1>2 DEF Beginning, Sound, Connection
    <3>2. \A q \in Packet : q.length \in 0 .. Word - 1 /\ q.id \in {0, 1}
      BY DEF Packet
    <3> QED BY <3>1, <3>2 DEF Lengths, Ids
  <2>3. Available(Arrived(c, n)) >= PacketBytes(length)
    <3>1. c.arrived \in Nat /\ c.drained \in Nat
      BY <1>2 DEF Sound, Connection
    <3>2. Arrived(c, n).arrived = c.arrived + n /\ Arrived(c, n).drained = c.drained
      BY <1>2, ArrivedSound
    <3>3. PacketBytes(length) \in Nat
      BY <2>2, SrvCtlAssumption DEF PacketBytes
    <3> HIDE DEF c
    <3> QED BY <2>1, <3>1, <3>2, <3>3 DEF Available
  <2>4. /\ Sound(Handled(Arrived(c, n), length, id))
        /\ Handled(Arrived(c, n), length, id).stream = c.stream
    BY <1>2, <2>2, <2>3, HandledSound
  <2> QED BY <1>1, <2>1, <2>4, CallbackKeeps
<1> QED BY <1>3, <1>4

LEMMA NextIInv == IInv /\ [Next]_vars => IInv'
<1> SUFFICES ASSUME IInv, [Next]_vars PROVE IInv'
  OBVIOUS
<1>1. ASSUME NEW fd \in Fd, onAccept(fd) PROVE IInv'
  <2>1. CASE m_clients' = m_clients
    BY <1>1, <2>1 DEF onAccept, IInv
  <2>2. CASE \E stream \in Streams[fd] :
               m_clients' = [x \in DOMAIN m_clients \cup {fd} |->
                               IF x = fd THEN NewConnection(stream) ELSE m_clients[x]]
    <3>1. PICK stream \in Streams[fd] :
            m_clients' = [x \in DOMAIN m_clients \cup {fd} |->
                            IF x = fd THEN NewConnection(stream) ELSE m_clients[x]]
      BY <2>2
    <3>2. stream \in Seq(Packet)
      BY SrvCtlAssumption
    <3>3. Sound(NewConnection(stream)) /\ NewConnection(stream).stream = stream
      BY <3>2, NewSound
    <3> QED BY <1>1, <3>1, <3>3 DEF onAccept, IInv
  <2> QED BY <1>1, <2>1, <2>2 DEF onAccept
<1>2. ASSUME NEW fd \in Fd, onEvent(fd) PROVE IInv'
  BY <1>2 DEF onEvent, Removal, removeClient, Drop, IInv
<1>3. ASSUME NEW fd \in Fd, Terminate(fd) PROVE IInv'
  BY <1>3 DEF Terminate, EmptyMap, IInv
<1>4. ASSUME Restart PROVE IInv'
  BY <1>4 DEF Restart, IInv
<1>5. ASSUME NEW fd \in Fd, NEW n \in 1 .. MaxBytes,
             ReadShort(fd, n) \/ ReadIncomplete(fd, n) \/ ReadPacket(fd, n)
      PROVE  IInv'
  <2>1. n \in Nat
    OBVIOUS
  <2> QED BY <1>5, <2>1, ReadKeeps
<1>6. ASSUME UNCHANGED vars PROVE IInv'
  BY <1>6 DEF vars, IInv
<1> QED BY <1>1, <1>2, <1>3, <1>4, <1>5, <1>6 DEF Next

-----------------------------------------------------------------------------
(* The theorems.                                                           *)

\* The invariant holds of every sequence of accepts, arrivals, removals and deaths.
THEOREM Inductive == Spec => []IInv
<1>1. Init => IInv
  BY DEF Init, EmptyMap, IInv
<1>2. IInv /\ [Next]_vars => IInv'
  BY NextIInv
<1> QED BY <1>1, <1>2, PTL DEF Spec

\* No callback drains more bytes than have arrived, also when length + 8 leaves the
\* range of a size_t, and no peer is ever in a state without a handler.
THEOREM TypeCorrect == Spec => []TypeOK
<1>1. IInv => TypeOK
  <2> SUFFICES ASSUME IInv PROVE TypeOK
    OBVIOUS
  <2>1. DOMAIN m_clients \subseteq Fd /\ openFds \subseteq Fd /\ alive \in BOOLEAN
    BY DEF IInv
  <2>2. ASSUME NEW fd \in DOMAIN m_clients
        PROVE  LET c == m_clients[fd] IN
                 /\ c.state \in {"Handshake", "Login"} /\ c.stream \in Streams[fd]
                 /\ c.arrived \in Nat /\ c.drained \in 0 .. c.arrived /\ c.callbacks \in Nat
                 /\ c.answers \in Seq({1, -1}) /\ c.handled \in Seq(Nat) /\ c.whole \in BOOLEAN
    <3> DEFINE c == m_clients[fd]
    <3>1. Sound(c) /\ c.stream \in Streams[fd]
      BY DEF IInv
    <3> HIDE DEF c
    <3>2. c \in Connection /\ c.drained <= c.arrived
      BY <3>1 DEF Sound
    <3>3. /\ c.state \in {"Handshake", "Login"} /\ c.arrived \in Nat /\ c.drained \in Nat
          /\ c.callbacks \in Nat /\ c.answers \in Seq({1, -1}) /\ c.handled \in Seq(Nat)
      BY <3>2 DEF Connection
    <3>4. c.whole \in BOOLEAN
      BY <3>2, Zenon DEF Connection
    <3>5. c.drained \in 0 .. c.arrived
      BY <3>2, <3>3
    <3> QED BY <3>1, <3>3, <3>4, <3>5 DEF c
  <2> QED BY <2>1, <2>2 DEF TypeOK
<1> QED BY <1>1, Inductive, PTL

\* A peer is told of its login exactly once, whatever it sends before and after.
THEOREM SuccessCorrect == Spec => []SuccessOnce
<1>1. IInv => SuccessOnce
  <2> SUFFICES ASSUME IInv, NEW fd \in DOMAIN m_clients
               PROVE  LET c == m_clients[fd] IN
                        /\ c.state = "Handshake" => Len(c.answers) = c.callbacks /\ 1 \notin Range(c.answers)
                        /\ c.state = "Login" => \E i \in DOMAIN c.answers :
                             c.answers[i] = 1 /\ \A j \in DOMAIN c.answers : c.answers[j] = 1 => i = j
    BY DEF SuccessOnce
  <2>1. Sound(m_clients[fd])
    BY DEF IInv
  <2> QED BY <2>1 DEF Sound, Range
<1> QED BY <1>1, Inductive, PTL

\* Every connection in the table has an open descriptor.
THEOREM TableCorrect == Spec => []TableOpen
<1>1. IInv => TableOpen
  BY DEF IInv, TableOpen
<1> QED BY <1>1, Inductive, PTL

-----------------------------------------------------------------------------
(* Where a connection is in its stream.                                    *)

\* The packets of a stream end one behind the other.
LEMMA BoundaryUnfolds ==
  ASSUME NEW stream \in Seq(Packet)
  PROVE  /\ Len(stream) \in Nat /\ DOMAIN stream = 1 .. Len(stream)
         /\ Boundary(stream, 0) = 0
         /\ \A k \in 0 .. Len(stream) : Boundary(stream, k) \in Nat
         /\ \A k \in 1 .. Len(stream) : Boundary(stream, k) = Boundary(stream, k - 1) + Size(stream[k])
         /\ \A j, k \in 0 .. Len(stream) : j < k => Boundary(stream, j) < Boundary(stream, k)
<1> DEFINE m == Len(stream)
           sizes == [i \in DOMAIN stream |-> Size(stream[i])]
<1>1. m \in Nat /\ DOMAIN stream = 1 .. m /\ \A i \in 1 .. m : stream[i] \in Packet
  OBVIOUS
<1>2. \A q \in Packet : Size(q) \in Nat \ {0}
  BY SrvCtlAssumption DEF Packet, Size
<1> HIDE DEF m
<1>3. /\ sizes \in [1 .. m -> Nat \ {0}] /\ sizes \in [1 .. m -> Nat]
      /\ \A i \in 1 .. m : sizes[i] = Size(stream[i])
  BY <1>1, <1>2
<1>4. \A k : Boundary(stream, k) = End(sizes, k)
  BY DEF Boundary
<1> HIDE DEF sizes
<1>5. /\ End(sizes, 0) = 0
      /\ \A k \in 0 .. m : End(sizes, k) \in Nat
      /\ \A k \in 1 .. m : End(sizes, k) = End(sizes, k - 1) + sizes[k]
  BY <1>1, <1>3, EndUnfolds
<1>6. \A j, k \in 0 .. m : j < k => End(sizes, j) < End(sizes, k)
  BY <1>1, <1>3, EndIncreases
<1> QED BY <1>1, <1>3, <1>4, <1>5, <1>6 DEF m

\* length + 8 in a size_t: zero only when the sum is the first that does not fit.
LEMMA PacketBytesType ==
  ASSUME NEW length \in 0 .. Word - 1
  PROVE  /\ PacketBytes(length) \in Nat
         /\ PacketBytes(length) = 0 => length + Header = Word
         /\ length + Header < Word => PacketBytes(length) = length + Header
<1>1. Header \in Nat /\ Header > 0 /\ Word \in Nat /\ Word > Header
  BY SrvCtlAssumption
<1>2. length + Header \in Nat /\ length + Header > 0 /\ length + Header < Word + Word
  BY <1>1
<1>3. CASE length + Header < Word
  BY <1>1, <1>2, <1>3 DEF PacketBytes
<1>4. CASE length + Header >= Word
  <2>1. length + Header - Word \in 0 .. Word - 1
    BY <1>1, <1>2, <1>4
  <2>2. (length + Header) % Word = length + Header - Word
    BY <1>1, <1>2, <2>1, <1>4
  <2> QED BY <1>1, <1>2, <2>1, <2>2 DEF PacketBytes
<1> QED BY <1>1, <1>2, <1>3, <1>4

\* A peer that is honest and sends whole packets: everything that arrived, and
\* everything drained, ends where a packet ends; one packet for each callback.
InStep(c) ==
  c.whole /\ Honest(c.stream) =>
    /\ c.callbacks \in 0 .. Len(c.stream)
    /\ c.drained = Boundary(c.stream, c.callbacks)
    /\ \E m \in 0 .. Len(c.stream) : c.arrived = Boundary(c.stream, m)

\* What was read begins before what was drained, or where nothing was drained.
Once(c) ==
  /\ \A i \in DOMAIN c.handled :
       /\ c.handled[i] \in DOMAIN c.stream
       /\ Boundary(c.stream, c.handled[i] - 1) <= c.drained
       /\ Boundary(c.stream, c.handled[i] - 1) = c.drained =>
            c.stream[c.handled[i]].length + Header = Word
  /\ \A i, j \in DOMAIN c.handled :
       i # j /\ c.handled[i] = c.handled[j] => c.stream[c.handled[i]].length + Header = Word

LEMMA ArrivedKeeps ==
  ASSUME NEW c, Sound(c), NEW n \in Nat
  PROVE  /\ Arrived(c, n).handled = c.handled
         /\ Arrived(c, n).whole <=>
              c.whole /\ \E k \in DOMAIN c.stream : Boundary(c.stream, k) = c.arrived + n
<1> DEFINE w == c.whole /\ \E k \in DOMAIN c.stream : Boundary(c.stream, k) = c.arrived + n
<1>1. Arrived(c, n) = [c EXCEPT !.arrived = c.arrived + n, !.callbacks = c.callbacks + 1, !.whole = w]
  BY DEF Arrived
<1> HIDE DEF w
<1>2. Arrived(c, n).handled = c.handled /\ Arrived(c, n).whole = w
  BY <1>1, Zenon DEF Sound, Connection
<1> QED BY <1>2, Zenon DEF w

\* The packet a peer in step has begun with this arrival is all there.
LEMMA NextPacket ==
  ASSUME NEW c, Sound(c), InStep(c), NEW n \in Nat, n > 0,
         Arrived(c, n).whole, Honest(c.stream)
  PROVE  LET k == c.callbacks + 1
         IN /\ k \in 1 .. Len(c.stream) /\ Beginning(c) = {k}
            /\ c.stream[k].length \in 0 .. Word - 1
            /\ PacketBytes(c.stream[k].length) = Size(c.stream[k])
            /\ Boundary(c.stream, k) = c.drained + Size(c.stream[k])
            /\ Available(c) + n >= Size(c.stream[k])
            /\ Size(c.stream[k]) \in Nat /\ Size(c.stream[k]) >= Header + 1
            /\ \E m \in 0 .. Len(c.stream) : c.arrived + n = Boundary(c.stream, m)
<1> DEFINE k == c.callbacks + 1
           s == c.stream
           q == s[k]
<1>1. c \in Connection /\ c.drained <= c.arrived /\ s \in Seq(Packet)
  BY DEF Sound, Connection
<1>2. c.arrived \in Nat /\ c.drained \in Nat
  BY <1>1 DEF Connection
<1>3. c.whole /\ \E m \in DOMAIN s : Boundary(s, m) = c.arrived + n
  BY ArrivedKeeps
<1>4. /\ c.callbacks \in 0 .. Len(s) /\ c.drained = Boundary(s, c.callbacks)
  BY <1>3 DEF InStep
<1>5. PICK m \in DOMAIN s : Boundary(s, m) = c.arrived + n
  BY <1>3
<1>6. /\ Len(s) \in Nat /\ DOMAIN s = 1 .. Len(s)
      /\ \A i \in 0 .. Len(s) : Boundary(s, i) \in Nat
      /\ \A i \in 1 .. Len(s) : Boundary(s, i) = Boundary(s, i - 1) + Size(s[i])
      /\ \A i, j \in 0 .. Len(s) : i < j => Boundary(s, i) < Boundary(s, j)
  BY <1>1, BoundaryUnfolds
<1> HIDE DEF s
<1>7. c.callbacks < m
  <2>1. Boundary(s, c.callbacks) < Boundary(s, m)
    BY <1>1, <1>2, <1>4, <1>5
  <2>2. m \in 0 .. Len(s) /\ m \in Nat /\ c.callbacks \in Nat
    BY <1>4, <1>5, <1>6
  <2>3. Boundary(s, m) \in Nat /\ Boundary(s, c.callbacks) \in Nat
    BY <1>4, <1>6, <2>2
  <2>4. ~(m < c.callbacks) /\ m # c.callbacks
    BY <1>4, <1>6, <2>1, <2>2, <2>3
  <2> QED BY <2>2, <2>4
<1>8. k \in 1 .. Len(s) /\ k - 1 = c.callbacks /\ k \in 0 .. Len(s) /\ m \in 0 .. Len(s)
  BY <1>4, <1>5, <1>6, <1>7
<1>9. Beginning(c) = {k}
  <2>1. Beginning(c) = {i \in 1 .. Len(s) : Boundary(s, i - 1) = Boundary(s, c.callbacks)}
    BY <1>4, <1>6 DEF Beginning, s
  <2>2. ASSUME NEW i \in 1 .. Len(s), i # k PROVE Boundary(s, i - 1) # Boundary(s, c.callbacks)
    <3>1. PICK j \in 0 .. Len(s) : j = i - 1 /\ j # c.callbacks
      BY <1>4, <1>6, <2>2
    <3>2. j < c.callbacks \/ c.callbacks < j
      BY <1>4, <1>6, <3>1
    <3>3. Boundary(s, j) \in Nat /\ Boundary(s, c.callbacks) \in Nat
      BY <1>4, <1>6
    <3>4. Boundary(s, j) # Boundary(s, c.callbacks)
      BY <1>4, <1>6, <3>2, <3>3
    <3> QED BY <3>1, <3>4
  <2>3. k \in 1 .. Len(s) /\ Boundary(s, k - 1) = Boundary(s, c.callbacks)
    BY <1>8
  <2> HIDE DEF k
  <2> QED BY <2>1, <2>2, <2>3
<1>10. q \in Packet /\ q.length = q.size /\ q.size > 0 /\ Size(q) < Word
  BY <1>1, <1>6, <1>8 DEF Honest, s
<1>11. Boundary(s, k) = c.drained + Size(q)
  <2>1. Boundary(s, k) = Boundary(s, k - 1) + Size(s[k])
    BY <1>6, <1>8
  <2> QED BY <1>4, <1>8, <2>1
<1> HIDE DEF k, q
<1>12. q.length \in 0 .. Word - 1 /\ Size(q) = Header + q.length /\ Header \in Nat /\ q.length > 0
  BY <1>10, SrvCtlAssumption DEF Packet, Size
<1>13. PacketBytes(q.length) = Size(q) /\ Size(q) \in Nat /\ Size(q) >= Header + 1
  BY <1>10, <1>12, PacketBytesType
<1>14. Available(c) + n >= Size(q)
  <2>1. Boundary(s, k) <= Boundary(s, m)
    <3>1. k = m \/ k < m
      BY <1>6, <1>7, <1>8 DEF k
    <3> QED BY <1>6, <1>8, <3>1
  <2>2. c.arrived - c.drained + n >= Size(q)
    BY <1>2, <1>5, <1>11, <1>13, <2>1
  <2> QED BY <2>2 DEF Available
<1> QED BY <1>5, <1>8, <1>9, <1>11, <1>12, <1>13, <1>14 DEF q, k, s

\* An answer to a whole packet of a peer in step would be the only way out of it:
\* the error answers are not given to one.
LEMMA RefusedSteps ==
  ASSUME NEW c, Sound(c), InStep(c), Once(c), NEW n \in Nat, n > 0,
         \/ Available(c) + n < Header + 1
         \/ \E length \in Lengths(c) : Available(c) + n < PacketBytes(length)
  PROVE  InStep(Refused(Arrived(c, n))) /\ Once(Refused(Arrived(c, n)))
<1> DEFINE d == Arrived(c, n)
           e == Refused(d)
<1>1. /\ d \in Connection /\ d.stream = c.stream /\ d.arrived = c.arrived + n /\ d.drained = c.drained
      /\ d.handled = c.handled /\ c.drained <= c.arrived
  BY ArrivedSound, ArrivedKeeps DEF Sound
<1>2. c.arrived \in Nat /\ c.drained \in Nat /\ c.stream \in Seq(Packet) /\ c.handled \in Seq(Nat)
  BY DEF Sound, Connection
<1>3. /\ e.stream = c.stream /\ e.drained = c.arrived + n /\ e.handled = c.handled /\ e.whole = d.whole
  <2>1. e = [d EXCEPT !.drained = d.arrived, !.answers = Append(d.answers, -1)]
    BY DEF Refused, Drained
  <2> HIDE DEF d, e
  <2>2. e.stream = d.stream /\ e.drained = d.arrived /\ e.handled = d.handled /\ e.whole = d.whole
    BY <1>1, <2>1, Zenon DEF Connection
  <2> QED BY <1>1, <2>2
<1>4. InStep(e)
  <2>1. SUFFICES ASSUME d.whole, Honest(c.stream) PROVE FALSE
    BY <1>3 DEF InStep
  <2> DEFINE k == c.callbacks + 1
  <2>2. /\ Beginning(c) = {k} /\ PacketBytes(c.stream[k].length) = Size(c.stream[k])
        /\ Available(c) + n >= Size(c.stream[k])
        /\ Size(c.stream[k]) \in Nat /\ Size(c.stream[k]) >= Header + 1
    BY <2>1, NextPacket
  <2> HIDE DEF k
  <2>3. Lengths(c) = {c.stream[k].length}
    BY <2>2 DEF Lengths
  <2>4. Available(c) \in Int /\ Header \in Nat
    BY <1>1, <1>2, SrvCtlAssumption DEF Available
  <2> QED BY <2>2, <2>3, <2>4
<1>5. Once(e)
  <2>1. ASSUME NEW i \in DOMAIN c.handled
        PROVE  /\ c.handled[i] \in DOMAIN c.stream
               /\ Boundary(c.stream, c.handled[i] - 1) <= e.drained
               /\ Boundary(c.stream, c.handled[i] - 1) = e.drained =>
                    c.stream[c.handled[i]].length + Header = Word
    <3> DEFINE at == Boundary(c.stream, c.handled[i] - 1)
    <3>1. /\ c.handled[i] \in DOMAIN c.stream /\ at <= c.drained
          /\ at = c.drained => c.stream[c.handled[i]].length + Header = Word
      BY DEF Once
    <3>2. at \in Nat
      <4>1. c.handled[i] - 1 \in 0 .. Len(c.stream)
        BY <1>2, <3>1
      <4> QED BY <1>2, <4>1, BoundaryUnfolds
    <3> HIDE DEF at
    <3>3. at <= e.drained /\ (at = e.drained => at = c.drained)
      BY <1>1, <1>2, <1>3, <3>1, <3>2
    <3> QED BY <3>1, <3>3 DEF at
  <2> HIDE DEF e
  <2> QED BY <1>3, <2>1 DEF Once
<1> QED BY <1>4, <1>5

\* Where the entries of two lists are in the one that joins them.
LEMMA JoinedEntries ==
  ASSUME NEW s \in Seq(Nat), NEW t \in Seq(Nat)
  PROVE  /\ Len(s) \in Nat /\ DOMAIN s = 1 .. Len(s) /\ Len(t) \in Nat /\ DOMAIN t = 1 .. Len(t)
         /\ DOMAIN (s \o t) = 1 .. Len(s) + Len(t)
         /\ \A i \in 1 .. Len(s) : (s \o t)[i] = s[i]
         /\ \A i \in Len(s) + 1 .. Len(s) + Len(t) :
              i - Len(s) \in 1 .. Len(t) /\ (s \o t)[i] = t[i - Len(s)]
<1>1. Len(s) \in Nat /\ DOMAIN s = 1 .. Len(s) /\ Len(t) \in Nat /\ DOMAIN t = 1 .. Len(t)
  OBVIOUS
<1>2. DOMAIN (s \o t) = 1 .. Len(s) + Len(t)
  BY <1>1
<1>3. \A i \in 1 .. Len(s) : (s \o t)[i] = s[i]
  BY <1>1
<1>4. \A i \in Len(s) + 1 .. Len(s) + Len(t) : i - Len(s) \in 1 .. Len(t)
  BY <1>1
<1>5. \A i \in Len(s) + 1 .. Len(s) + Len(t) : (s \o t)[i] = t[i - Len(s)]
  BY <1>1
<1> QED BY <1>1, <1>2, <1>3, <1>4, <1>5

\* A packet is taken from the position that was drained to, and read once unless
\* nothing was drained for it.
LEMMA HandledSteps ==
  ASSUME NEW c, Sound(c), InStep(c), Once(c), NEW n \in Nat, n > 0,
         NEW length \in Lengths(c), NEW id, length \in 0 .. Word - 1
  PROVE  InStep(Handled(Arrived(c, n), length, id)) /\ Once(Handled(Arrived(c, n), length, id))
<1> DEFINE d == Arrived(c, n)
           more == SetToSeq(Beginning(d))
           e == Handled(d, length, id)
           s == c.stream
<1>1. /\ d \in Connection /\ d.stream = s /\ d.arrived = c.arrived + n /\ d.drained = c.drained
      /\ d.handled = c.handled /\ c.drained <= c.arrived /\ d.callbacks = c.callbacks + 1
  BY ArrivedSound, ArrivedKeeps DEF Sound
<1>2. /\ c.arrived \in Nat /\ c.drained \in Nat /\ s \in Seq(Packet) /\ c.handled \in Seq(Nat)
      /\ c.callbacks \in Nat
  BY DEF Sound, Connection
<1>3. /\ e.stream = s /\ e.drained = c.drained + PacketBytes(length) /\ e.whole = d.whole
      /\ e.handled = c.handled \o more /\ e.callbacks = c.callbacks + 1 /\ e.arrived = c.arrived + n
  <2>1. e = [d EXCEPT !.drained = d.drained + PacketBytes(length), !.state = NextState(d),
                      !.answers = d.answers \o Answer(d, id), !.handled = d.handled \o more]
    BY DEF Handled
  <2> HIDE DEF d, e, more
  <2>2. /\ e.stream = d.stream /\ e.drained = d.drained + PacketBytes(length) /\ e.whole = d.whole
        /\ e.handled = d.handled \o more /\ e.callbacks = d.callbacks /\ e.arrived = d.arrived
    BY <1>1, <2>1, Zenon DEF Connection
  <2> QED BY <1>1, <2>2
<1>4. Beginning(d) = Beginning(c)
  BY <1>1 DEF Beginning
<1>5. /\ more \in Seq(Nat) /\ \A i \in DOMAIN more : more[i] \in Beginning(c)
      /\ \A i, j \in DOMAIN more : more[i] = more[j] => i = j
  BY <1>1, <1>4, BeginningType DEF IsInjective
<1>6. /\ PacketBytes(length) \in Nat
      /\ PacketBytes(length) = 0 => length + Header = Word
  BY PacketBytesType
<1>7. /\ Len(s) \in Nat /\ DOMAIN s = 1 .. Len(s)
      /\ \A i \in 0 .. Len(s) : Boundary(s, i) \in Nat
      /\ \A i, j \in 0 .. Len(s) : i < j => Boundary(s, i) < Boundary(s, j)
  BY <1>2, BoundaryUnfolds
<1> HIDE DEF d, more, e
<1>8. InStep(e)
  <2>1. SUFFICES ASSUME d.whole, Honest(s)
        PROVE  /\ c.callbacks + 1 \in 0 .. Len(s)
               /\ e.drained = Boundary(s, c.callbacks + 1)
               /\ \E m \in 0 .. Len(s) : e.arrived = Boundary(s, m)
    BY <1>3 DEF InStep
  <2> DEFINE k == c.callbacks + 1
  <2>2. /\ Beginning(c) = {k} /\ PacketBytes(s[k].length) = Size(s[k])
        /\ k \in 1 .. Len(s) /\ Boundary(s, k) = c.drained + Size(s[k])
        /\ \E m \in 0 .. Len(s) : c.arrived + n = Boundary(s, m)
    BY <2>1, NextPacket DEF d
  <2> HIDE DEF k
  <2>3. length = s[k].length
    BY <2>2 DEF Lengths
  <2>4. k \in 0 .. Len(s) /\ e.drained = Boundary(s, k)
    BY <1>3, <1>7, <2>2, <2>3
  <2> QED BY <1>3, <2>2, <2>4 DEF k
<1>9. ASSUME NEW k \in Beginning(c)
      PROVE  /\ k \in DOMAIN s /\ Boundary(s, k - 1) = c.drained /\ length = s[k].length
  <2>1. k \in DOMAIN s /\ Boundary(s, k - 1) = c.drained
    BY DEF Beginning
  <2>2. PICK h \in Beginning(c) : length = s[h].length
    BY DEF Lengths
  <2>3. h \in DOMAIN s /\ Boundary(s, h - 1) = c.drained
    BY DEF Beginning
  <2>4. h = k
    <3>1. h - 1 \in 0 .. Len(s) /\ k - 1 \in 0 .. Len(s) /\ h \in Int /\ k \in Int
      BY <1>7, <2>1, <2>3
    <3>2. ~(h - 1 < k - 1) /\ ~(k - 1 < h - 1)
      BY <1>2, <1>7, <2>1, <2>3, <3>1
    <3> QED BY <3>1, <3>2
  <2> QED BY <2>1, <2>2, <2>4
<1>10. Once(e)
  <2> DEFINE l == Len(c.handled)
             more2 == e.handled
  <2>1. /\ l \in Nat /\ DOMAIN c.handled = 1 .. l /\ Len(more) \in Nat /\ DOMAIN more = 1 .. Len(more)
        /\ DOMAIN more2 = 1 .. l + Len(more)
        /\ \A i \in 1 .. l : more2[i] = c.handled[i]
        /\ \A i \in l + 1 .. l + Len(more) : i - l \in 1 .. Len(more) /\ more2[i] = more[i - l]
    <3>1. c.handled \in Seq(Nat) /\ more \in Seq(Nat) /\ more2 = c.handled \o more
      BY <1>2, <1>3, <1>5
    <3> HIDE DEF more2
    <3> QED BY <3>1, JoinedEntries
  <2> HIDE DEF l, more2
  <2>2. ASSUME NEW i \in 1 .. l
        PROVE  /\ more2[i] = c.handled[i] /\ c.handled[i] \in DOMAIN s
               /\ Boundary(s, c.handled[i] - 1) \in Nat
               /\ Boundary(s, c.handled[i] - 1) <= c.drained
               /\ Boundary(s, c.handled[i] - 1) = c.drained => s[c.handled[i]].length + Header = Word
    <3>1. /\ c.handled[i] \in DOMAIN s /\ Boundary(s, c.handled[i] - 1) <= c.drained
          /\ Boundary(s, c.handled[i] - 1) = c.drained => s[c.handled[i]].length + Header = Word
      BY <2>1 DEF Once
    <3>2. c.handled[i] - 1 \in 0 .. Len(s)
      BY <1>7, <3>1
    <3> QED BY <1>7, <2>1, <3>1, <3>2
  <2>3. ASSUME NEW i \in l + 1 .. l + Len(more)
        PROVE  /\ more2[i] = more[i - l] /\ i - l \in 1 .. Len(more)
               /\ more2[i] \in DOMAIN s /\ Boundary(s, more2[i] - 1) = c.drained
               /\ length = s[more2[i]].length
    <3>1. more2[i] = more[i - l] /\ i - l \in 1 .. Len(more) /\ more2[i] \in Beginning(c)
      BY <1>5, <2>1
    <3> QED BY <1>9, <3>1
  <2>4. DOMAIN more2 = 1 .. l \cup l + 1 .. l + Len(more)
    BY <2>1
  <2>5. e.drained \in Nat /\ e.drained >= c.drained
        /\ (e.drained = c.drained => length + Header = Word)
    BY <1>2, <1>3, <1>6
  <2>6. ASSUME NEW i \in DOMAIN more2
        PROVE  /\ more2[i] \in DOMAIN s /\ Boundary(s, more2[i] - 1) <= e.drained
               /\ Boundary(s, more2[i] - 1) = e.drained => s[more2[i]].length + Header = Word
    <3>1. CASE i \in 1 .. l
      <4>1. Boundary(s, more2[i] - 1) <= c.drained /\ Boundary(s, more2[i] - 1) \in Nat
        BY <2>2, <3>1
      <4>2. /\ Boundary(s, more2[i] - 1) <= e.drained
            /\ Boundary(s, more2[i] - 1) = e.drained => Boundary(s, more2[i] - 1) = c.drained
        BY <1>2, <2>5, <4>1
      <4>3. /\ more2[i] \in DOMAIN s
            /\ Boundary(s, more2[i] - 1) = c.drained => s[more2[i]].length + Header = Word
        BY <2>2, <3>1
      <4> QED BY <4>2, <4>3
    <3>2. CASE i \in l + 1 .. l + Len(more)
      <4>1. Boundary(s, more2[i] - 1) = c.drained /\ length = s[more2[i]].length /\ more2[i] \in DOMAIN s
        BY <2>3, <3>2
      <4> QED BY <1>2, <2>5, <4>1
    <3> QED BY <2>4, <3>1, <3>2
  <2>7. ASSUME NEW i \in DOMAIN more2, NEW j \in DOMAIN more2, i # j, more2[i] = more2[j]
        PROVE  s[more2[i]].length + Header = Word
    <3>1. CASE i \in 1 .. l /\ j \in 1 .. l
      BY <2>1, <2>2, <2>7, <3>1 DEF Once
    <3>2. CASE i \in 1 .. l /\ j \in l + 1 .. l + Len(more)
      BY <2>2, <2>3, <2>7, <3>2
    <3>3. CASE j \in 1 .. l /\ i \in l + 1 .. l + Len(more)
      BY <2>2, <2>3, <2>7, <3>3
    <3>4. CASE i \in l + 1 .. l + Len(more) /\ j \in l + 1 .. l + Len(more)
      <4>1. more[i - l] = more[j - l] /\ i - l \in 1 .. Len(more) /\ j - l \in 1 .. Len(more)
        BY <2>3, <2>7, <3>4
      <4>2. i - l = j - l
        BY <1>5, <2>1, <4>1
      <4> QED BY <2>1, <2>7, <3>4, <4>2
    <3> QED BY <2>4, <3>1, <3>2, <3>3, <3>4
  <2> QED BY <1>3, <2>6, <2>7 DEF Once, more2
<1> QED BY <1>8, <1>10 DEF d, e

LEMMA NewSteps ==
  ASSUME NEW stream \in Seq(Packet)
  PROVE  InStep(NewConnection(stream)) /\ Once(NewConnection(stream))
<1> DEFINE c == NewConnection(stream)
<1>1. /\ c.stream = stream /\ c.arrived = 0 /\ c.drained = 0 /\ c.callbacks = 0 /\ c.handled = <<>>
  BY DEF NewConnection
<1>2. 0 \in 0 .. Len(stream) /\ Boundary(stream, 0) = 0
  BY BoundaryUnfolds
<1>3. DOMAIN <<>> = {}
  OBVIOUS
<1> HIDE DEF c
<1>4. InStep(c)
  BY <1>1, <1>2 DEF InStep
<1>5. Once(c)
  BY <1>1, <1>3 DEF Once
<1> QED BY <1>4, <1>5 DEF c

Steps == \A fd \in DOMAIN m_clients : InStep(m_clients[fd]) /\ Once(m_clients[fd])

LEMMA NextSteps == IInv /\ Steps /\ [Next]_vars => Steps'
<1> SUFFICES ASSUME IInv, Steps, [Next]_vars PROVE Steps'
  OBVIOUS
<1>1. ASSUME NEW fd \in Fd, onAccept(fd) PROVE Steps'
  <2>1. CASE m_clients' = m_clients
    BY <2>1 DEF Steps
  <2>2. CASE \E stream \in Streams[fd] :
               m_clients' = [x \in DOMAIN m_clients \cup {fd} |->
                               IF x = fd THEN NewConnection(stream) ELSE m_clients[x]]
    <3>1. PICK stream \in Streams[fd] :
            m_clients' = [x \in DOMAIN m_clients \cup {fd} |->
                            IF x = fd THEN NewConnection(stream) ELSE m_clients[x]]
      BY <2>2
    <3>2. stream \in Seq(Packet)
      BY SrvCtlAssumption
    <3>3. InStep(NewConnection(stream)) /\ Once(NewConnection(stream))
      BY <3>2, NewSteps
    <3> QED BY <3>1, <3>3 DEF Steps
  <2> QED BY <1>1, <2>1, <2>2 DEF onAccept
<1>2. ASSUME NEW fd \in Fd, onEvent(fd) PROVE Steps'
  BY <1>2 DEF onEvent, Removal, removeClient, Drop, Steps
<1>3. ASSUME NEW fd \in Fd, Terminate(fd) PROVE Steps'
  BY <1>3 DEF Terminate, EmptyMap, Steps
<1>4. ASSUME Restart \/ UNCHANGED vars PROVE Steps'
  BY <1>4 DEF Restart, vars, Steps
<1>5. ASSUME NEW fd \in Fd, NEW n \in 1 .. MaxBytes,
             ReadShort(fd, n) \/ ReadIncomplete(fd, n) \/ ReadPacket(fd, n)
      PROVE  Steps'
  <2> DEFINE c == m_clients[fd]
  <2>1. fd \in DOMAIN m_clients /\ n \in Nat /\ n > 0
    <3>1. n \in Nat /\ n > 0
      OBVIOUS
    <3>2. fd \in DOMAIN m_clients
      BY <1>5 DEF ReadShort, ReadIncomplete, ReadPacket, isConnected
    <3> QED BY <3>1, <3>2
  <2>2. Sound(c) /\ InStep(c) /\ Once(c)
    BY <2>1 DEF IInv, Steps
  <2>3. ASSUME NEW e, m_clients' = [m_clients EXCEPT ![fd] = e], InStep(e), Once(e) PROVE Steps'
    BY <2>3 DEF Steps
  <2>4. CASE ReadShort(fd, n) \/ ReadIncomplete(fd, n)
    <3>1. m_clients' = [m_clients EXCEPT ![fd] = Refused(Arrived(c, n))]
      BY <2>4 DEF ReadShort, ReadIncomplete, Reads
    <3>2. \/ Available(c) + n < Header + 1
          \/ \E length \in Lengths(c) : Available(c) + n < PacketBytes(length)
      BY <2>4 DEF ReadShort, ReadIncomplete
    <3>3. InStep(Refused(Arrived(c, n))) /\ Once(Refused(Arrived(c, n)))
      BY <2>1, <2>2, <3>2, RefusedSteps
    <3> QED BY <2>3, <3>1, <3>3
  <2>5. CASE ReadPacket(fd, n)
    <3>1. PICK length \in Lengths(c), id \in Ids(c) :
            m_clients' = [m_clients EXCEPT ![fd] = Handled(Arrived(c, n), length, id)]
      BY <2>5 DEF ReadPacket, Reads
    <3>2. length \in 0 .. Word - 1
      <4>1. \A k \in Beginning(c) : c.stream[k] \in Packet
        BY <2>2 DEF Beginning, Sound, Connection
      <4>2. \A q \in Packet : q.length \in 0 .. Word - 1
        BY DEF Packet
      <4> QED BY <4>1, <4>2 DEF Lengths
    <3>3. /\ InStep(Handled(Arrived(c, n), length, id))
          /\ Once(Handled(Arrived(c, n), length, id))
      BY <2>1, <2>2, <3>2, HandledSteps
    <3> QED BY <2>3, <3>1, <3>3
  <2> QED BY <1>5, <2>4, <2>5
<1> QED BY <1>1, <1>2, <1>3, <1>4, <1>5 DEF Next

LEMMA StepsInductive == Spec => []Steps
<1>1. Init => Steps
  BY DEF Init, EmptyMap, Steps
<1>2. IInv /\ Steps /\ [Next]_vars => Steps'
  BY NextSteps
<1> QED BY <1>1, <1>2, Inductive, PTL DEF Spec

\* A peer that sends whole packets of the length they say is never out of step,
\* however many packets arrive together: each callback takes exactly one, and no
\* answer of an error throws anything of them away.
THEOREM OnePerCallbackCorrect == Spec => []OnePerCallback
<1>1. Steps => OnePerCallback
  BY DEF Steps, InStep, OnePerCallback
<1> QED BY <1>1, StepsInductive, PTL

\* Whatever a peer sends and however it arrives, the header of a packet is read
\* again only when length + 8 came out as 0 in a size_t.
THEOREM HandledOnceCorrect == Spec => []HandledOnce
<1>1. Steps => HandledOnce
  BY DEF Steps, Once, HandledOnce
<1> QED BY <1>1, StepsInductive, PTL
=============================================================================
