----------------------------- MODULE ZincFraming -----------------------------
(***************************************************************************)
(* How ZincConnection::read and the tail of ZincServer::onRead cut packets *)
(* out of the byte stream of one connection.                               *)
(*                                                                         *)
(* A frame is a VarInt length and that many bytes.  Frames are numbered in *)
(* the order the peer sends them; of the stream only the number of bytes   *)
(* of each frame that are on the way or in the evbuffer is kept.  read()   *)
(* copies the whole evbuffer, so it always starts at the first byte that   *)
(* was not drained.  Bytes past the end of a ByteBuffer read as zero.      *)
(*                                                                         *)
(* Once the first byte in the evbuffer is not the first of a frame, or the *)
(* frame's prefix is garbled, what read() makes of it is arbitrary: the    *)
(* connection has gone astray and the model follows it no further.         *)
(***************************************************************************)
EXTENDS Integers, Sequences, ZincSums

CONSTANTS
  Base,          \* values of a VarInt digit: 128 in the code
  Length,        \* lengths of the frames the peer sends
  MaxFrames      \* bound on the number of frames sent

ASSUME BaseAssumption == Base \in Nat \ {0, 1}
ASSUME LengthAssumption == Length \subseteq 1..(Base * Base - 1)
ASSUME BoundAssumption == MaxFrames \in Nat

VARIABLES
  frames,        \* lengths of all frames sent
  inFlight,      \* bytes on the way
  input,         \* bytes in the evbuffer
  stale,         \* how many of them have been through the decryptor already
  encrypted,     \* encryption is on
  handled,       \* what onRead got: frame and how many of its bytes were there
  reading,       \* a read callback is running
  status         \* "framed", "astray" or "dead" (an uncaught length_error)

vars == <<frames, inFlight, input, encrypted, stale, handled, reading, status>>

\* getVarNumericLength, for the one- and two-digit lengths considered.
Prefix(length) == IF length < Base THEN 1 ELSE 2
Size(length) == Prefix(length) + length

Current == Len(handled) + 1

Init ==
  /\ frames = <<>>
  /\ inFlight = 0
  /\ input = 0
  /\ encrypted = FALSE
  /\ stale = 0
  /\ handled = <<>>
  /\ reading = FALSE
  /\ status = "framed"

\* The peer writes a frame.
Send(length) ==
  /\ Len(frames) < MaxFrames
  /\ frames' = Append(frames, length)
  /\ inFlight' = inFlight + Size(length)
  /\ UNCHANGED <<input, encrypted, stale, handled, reading, status>>

\* TCP brings n bytes, which starts the read callback.
Arrive(n) ==
  /\ ~reading /\ status = "framed"
  /\ n \in 1..inFlight
  /\ inFlight' = inFlight - n
  /\ input' = input + n
  /\ reading' = TRUE
  /\ UNCHANGED <<frames, encrypted, stale, handled, status>>

\* The length read() decodes: of a two-digit prefix of which only the first
\* byte is there it sees that digit, followed by a zero.
Decoded(length) == IF input >= Prefix(length) THEN length ELSE length % Base

\* The check of read(); the input it looks at still contains the prefix.
WaitsShort(decoded) == decoded > input + 1        \* faulty: off by one
Waits(decoded) == decoded > input

\* The state of the handler decides whether onRead goes on with what is left:
\* of the handlers only the handshake's, for the first frame.
ContinuesNever(frame) == FALSE                    \* faulty: the handshake forgets it
Continues(frame) == frame = 1

\* evbuffer_drain takes what is there, at most.
DrainedAll(decoded) == input - Size(decoded)      \* faulty: takes what is not there
DrainedBody(decoded) == IF decoded < input THEN input - decoded ELSE 0  \* faulty: prefix stays
Drained(decoded) == IF Size(decoded) < input THEN input - Size(decoded) ELSE 0

\* What stays in the evbuffer has been through the decryptor if it was in use.
Leave(rest) == input' = rest /\ stale' = IF encrypted THEN rest ELSE 0

\* In a read callback there is some of a frame, with nothing decrypted yet.
Reads == reading /\ stale = 0 /\ Current \in DOMAIN frames

\* "Wait for more data": onRead returns on the packet id -1.
Wait ==
  /\ Reads
  /\ Waits(Decoded(frames[Current]))
  /\ Leave(input)
  /\ reading' = FALSE
  /\ UNCHANGED <<frames, inFlight, encrypted, handled, status>>

\* A packet is drained and handed to the handler of the connection's state.  A
\* length of zero leaves minus one byte for the packet's data.  Any packet after
\* the handshake may be the one whose handler turns encryption on.
Take ==
  LET length  == frames[Current]
      decoded == Decoded(length)
      rest    == Drained(decoded)
      have    == IF input < Size(length) THEN input ELSE Size(length)
  IN  /\ Reads
      /\ ~Waits(decoded)
      /\ Leave(rest)
      /\ encrypted' \in {encrypted, encrypted \/ Current > 1}
      /\ handled' = Append(handled, [frame |-> Current, have |-> have])
      /\ status' = IF decoded = 0 THEN "dead"
                   ELSE IF have < Size(length) THEN "astray" ELSE "framed"
      /\ reading' = (status' = "framed" /\ Continues(Current) /\ rest > 0)
      /\ UNCHANGED <<frames, inFlight>>

\* Bytes that were decrypted before are decrypted again, with another IV.
Garble ==
  /\ reading /\ stale > 0
  /\ status' \in {"astray", "dead"}
  /\ reading' = FALSE
  /\ UNCHANGED <<frames, inFlight, input, encrypted, stale, handled>>

Next ==
  \/ \E length \in Length : Send(length)
  \/ \E n \in 1..inFlight : Arrive(n)
  \/ Wait
  \/ Take
  \/ Garble

\* The network delivers what was sent; a callback that has begun goes on.
Fairness == WF_vars(\E n \in 1..inFlight : Arrive(n)) /\ WF_vars(Wait \/ Take \/ Garble)

Spec == Init /\ [][Next]_vars /\ Fairness

-----------------------------------------------------------------------------
(* Properties.                                                             *)

TypeOK ==
  /\ frames \in Seq(Length) /\ Len(frames) <= MaxFrames
  /\ inFlight \in Nat /\ input \in Nat
  /\ encrypted \in BOOLEAN /\ stale \in 0..(IF encrypted THEN input ELSE 0)
  /\ handled \in Seq([frame : 1..MaxFrames, have : Nat])
  /\ reading \in BOOLEAN
  /\ status \in {"framed", "astray", "dead"}

\* The position in the stream behind the first k of the frames sent.
FrameEnd(sent, k) == End([i \in DOMAIN sent |-> Size(sent[i])], k)

\* While the connection is framed, the bytes not yet drained are exactly those
\* of the frames not yet handled: read() drains each prefix and body once.
BytesAccounted ==
  status = "framed" => input + inFlight = FrameEnd(frames, Len(frames)) - FrameEnd(frames, Len(handled))

\* A frame reaches its handler short only when no more bytes are missing than
\* its prefix has, or when the prefix itself was cut: all other partial frames
\* wait.
ShortByPrefixAtMost ==
  \A i \in DOMAIN handled :
    LET length == frames[handled[i].frame]
    IN  \/ Size(length) - handled[i].have <= Prefix(length)
        \/ handled[i].have < Prefix(length)

\* What arrives together with the handshake is handled in the same callback:
\* the peer need not send anything more.
HandshakeContinues ==
  (/\ Len(handled) = 0 /\ Len(frames) >= 2
   /\ reading /\ input >= Size(frames[1]) + Size(frames[2]))
  ~> Len(handled) >= 2

\* A frame is handed on only when all of it has arrived.
PartialFrameWaits ==
  \A i \in DOMAIN handled : handled[i].have = Size(frames[handled[i].frame])

\* A frame that had to wait is still read correctly when the rest has come.
WaitedFrameSurvives == Len(handled) < Len(frames) /\ stale > 0 => status = "framed"
=============================================================================
