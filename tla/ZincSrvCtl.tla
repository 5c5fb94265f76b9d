---------------------------- MODULE ZincSrvCtl ----------------------------
(***************************************************************************)
(* The server control port (SrvCtlServer, SrvCtlConnection): a thread with *)
(* an event loop, a connection table and a packet format of its own.  A    *)
(* packet is a length of Header bytes and a body.  Whatever a read         *)
(* callback finds that is not at least one whole packet is answered with   *)
(* an error and thrown away; of several packets it takes the first.        *)
(*                                                                         *)
(* Of a peer's bytes only positions are kept.  A header that is read at a  *)
(* position where no packet begins may hold any length.                    *)
(***************************************************************************)
EXTENDS Integers, SequencesExt, ZincSums

CONSTANTS
  Fd,          \* descriptors
  Streams,     \* what a peer may send, by descriptor: sequences of packets
  Header,      \* bytes of the length field (8 in the code)
  Word         \* values of size_t (2^64 in the code)

Packet == [length : 0 .. Word - 1, size : Nat, id : {0, 1}]

ASSUME SrvCtlAssumption ==
  /\ Header \in Nat \ {0} /\ Word \in Nat /\ Word > Header
  /\ Streams \in [Fd -> SUBSET Seq(Packet)]

VARIABLES
  m_clients,   \* descriptor -> connection
  openFds,     \* descriptors the process holds open
  alive

vars == <<m_clients, openFds, alive>>

EmptyMap == [x \in {} |-> x]
Drop(f, k) == [x \in DOMAIN f \ {k} |-> f[x]]

Size(p) == Header + p.size
\* The position behind the first k packets of a stream.
Boundary(stream, k) == End([i \in DOMAIN stream |-> Size(stream[i])], k)

\* m_state, the bytes that have arrived and those drained; "answers" are the
\* states the peer was sent.  History: the callbacks, the packets whose header
\* was read, and whether every arrival so far ended where a packet ends.
State == {"Handshake", "Login", "Config", "Execution"}
NewConnection(stream) ==
  [state |-> "Handshake", stream |-> stream, arrived |-> 0, drained |-> 0,
   answers |-> <<>>, callbacks |-> 0, handled |-> <<>>, whole |-> TRUE]

Init == m_clients = EmptyMap /\ openFds = {} /\ alive = TRUE

isConnected(fd) == fd \in DOMAIN m_clients

\* addClient; without a bufferevent onAccept returns and nobody closes fd.
onAccept(fd) ==
  /\ alive /\ fd \notin openFds
  /\ openFds' = openFds \cup {fd}
  /\ \/ UNCHANGED m_clients
     \/ \E stream \in Streams[fd] :
          m_clients' = [x \in DOMAIN m_clients \cup {fd} |->
                          IF x = fd THEN NewConnection(stream) ELSE m_clients[x]]
  /\ UNCHANGED alive

----------------------------------------------------------------------------
(* onRead *)

\* The packet that begins at the first byte that was not drained, if one does.
Beginning(c) == {k \in DOMAIN c.stream : Boundary(c.stream, k - 1) = c.drained}
\* What the length field and the byte behind it may hold.
Lengths(c) == IF Beginning(c) = {} THEN 0 .. Word - 1 ELSE {c.stream[k].length : k \in Beginning(c)}
Ids(c) ==
  IF Beginning(c) = {} \/ \E k \in Beginning(c) : c.stream[k].size = 0 THEN {0, 1}
  ELSE {c.stream[k].id : k \in Beginning(c)}

\* length + 8, a size_t.
PacketBytesBody(length) == length  \* mutant: the length field itself is left behind
PacketBytes(length) == (length + Header) % Word

Arrived(c, n) ==
  LET arrived == c.arrived + n
  IN [c EXCEPT !.arrived = arrived, !.callbacks = @ + 1,
               !.whole = @ /\ \E k \in DOMAIN c.stream : Boundary(c.stream, k) = arrived]
Available(c) == c.arrived - c.drained

\* The error answers: everything there is gets drained.
DrainedHeader(c) == c.drained + Header  \* mutant: only the length field is thrown away
Drained(c) == c.arrived
Refused(c) == [c EXCEPT !.drained = Drained(c), !.answers = Append(@, -1)]

\* The handlers; a login start (id 0) has none yet.
NextStateKept(c) == c.state  \* mutant: no setState
NextState(c) == IF c.state = "Handshake" THEN "Login" ELSE c.state
Answer(c, id) ==
  CASE c.state = "Handshake" -> <<1>>
    [] c.state = "Login" /\ id = 0 -> <<>>
    [] c.state = "Login" /\ id # 0 -> <<-1>>
    [] OTHER -> <<-2>>
Handled(c, length, id) ==
  [c EXCEPT !.drained = @ + PacketBytes(length), !.state = NextState(c),
            !.answers = @ \o Answer(c, id), !.handled = @ \o SetToSeq(Beginning(c))]

Reads(fd, n, After(_)) ==
  /\ alive /\ isConnected(fd)
  /\ n <= Boundary(m_clients[fd].stream, Len(m_clients[fd].stream)) - m_clients[fd].arrived
  /\ m_clients' = [m_clients EXCEPT ![fd] = After(Arrived(m_clients[fd], n))]
  /\ UNCHANGED <<openFds, alive>>

ReadShort(fd, n) ==
  /\ isConnected(fd) /\ Available(m_clients[fd]) + n < Header + 1
  /\ Reads(fd, n, Refused)
ReadIncomplete(fd, n) ==
  /\ isConnected(fd) /\ Available(m_clients[fd]) + n >= Header + 1
  /\ \E length \in Lengths(m_clients[fd]) : Available(m_clients[fd]) + n < PacketBytes(length)
  /\ Reads(fd, n, Refused)
ReadPacket(fd, n) ==
  /\ isConnected(fd) /\ Available(m_clients[fd]) + n >= Header + 1
  /\ \E length \in Lengths(m_clients[fd]), id \in Ids(m_clients[fd]) :
       /\ Available(m_clients[fd]) + n >= PacketBytes(length)
       /\ Reads(fd, n, LAMBDA c : Handled(c, length, id))

----------------------------------------------------------------------------
(* onEvent, and the end of the process *)

removeClient(fd) ==
  /\ m_clients' = Drop(m_clients, fd)
  /\ openFds' = openFds \ {fd}
KeepEntry(fd) ==  \* mutant: the table keeps a connection that is closed
  /\ m_clients' = m_clients
  /\ openFds' = openFds \ {fd}

\* EOF, error and timeout alike.
Removal(fd) == removeClient(fd)
onEvent(fd) == alive /\ isConnected(fd) /\ Removal(fd) /\ UNCHANGED alive
\* close() has freed the bufferevent that ~TCPConnection frees again.
Terminate(fd) ==
  /\ alive /\ isConnected(fd)
  /\ alive' = FALSE /\ m_clients' = EmptyMap /\ openFds' = {}
Restart == ~alive /\ alive' = TRUE /\ UNCHANGED <<m_clients, openFds>>

MaxBytes == Max({Boundary(stream, Len(stream)) : stream \in UNION Range(Streams)})
Next ==
  \/ \E fd \in Fd : onAccept(fd) \/ onEvent(fd) \/ Terminate(fd)
  \/ \E fd \in Fd, n \in 1 .. MaxBytes : ReadShort(fd, n) \/ ReadIncomplete(fd, n) \/ ReadPacket(fd, n)
  \/ Restart

Spec == Init /\ [][Next]_vars

----------------------------------------------------------------------------
(* Properties. *)

\* Types; the answer for an unsupported state (-2) is never given, since no
\* handler leads to Config or Execution, and no more is drained than arrived.
TypeOK ==
  /\ DOMAIN m_clients \subseteq Fd /\ openFds \subseteq Fd /\ alive \in BOOLEAN
  /\ \A fd \in DOMAIN m_clients : LET c == m_clients[fd] IN
       /\ c.state \in {"Handshake", "Login"} /\ c.stream \in Streams[fd]
       /\ c.arrived \in Nat /\ c.drained \in 0 .. c.arrived /\ c.callbacks \in Nat
       /\ c.answers \in Seq({1, -1}) /\ c.handled \in Seq(Nat) /\ c.whole \in BOOLEAN

\* Every packet has the length it says, and with its header fits a size_t.
Honest(stream) ==
  \A k \in DOMAIN stream :
    stream[k].length = stream[k].size /\ stream[k].size > 0 /\ Size(stream[k]) < Word
\* A peer whose packets arrive whole stays in step: every callback of onRead takes
\* one packet and no byte more, however many came with it (the rest of a burst
\* waits for the next arrival).
OnePerCallback ==
  \A fd \in DOMAIN m_clients : LET c == m_clients[fd] IN
    c.whole /\ Honest(c.stream) => c.drained = Boundary(c.stream, c.callbacks)

\* The header of a packet is read twice only when length + 8 came out as 0 in a
\* size_t, so that nothing was drained.
HandledOnce ==
  \A fd \in DOMAIN m_clients : LET c == m_clients[fd] IN
    \A i, j \in DOMAIN c.handled :
      i # j /\ c.handled[i] = c.handled[j] => c.stream[c.handled[i]].length + Header = Word

\* A peer in Handshake was answered at every callback, with errors only; one in
\* Login was told of its success exactly once, whatever it has sent since.
SuccessOnce ==
  \A fd \in DOMAIN m_clients : LET c == m_clients[fd] IN
    /\ c.state = "Handshake" => Len(c.answers) = c.callbacks /\ 1 \notin Range(c.answers)
    /\ c.state = "Login" => \E i \in DOMAIN c.answers :
         c.answers[i] = 1 /\ \A j \in DOMAIN c.answers : c.answers[j] = 1 => i = j

\* Every connection of the table has an open descriptor, also after any sequence
\* of failed accepts, removals and deaths.
TableOpen == DOMAIN m_clients \subseteq openFds
============================================================================
