-------------------------- MODULE ZincNumberStream --------------------------
(***************************************************************************)
(* Numbers and strings of any kinds, one behind the other, in a ByteBuffer *)
(* that is moved and cleared and that gives blocks back or not while they  *)
(* are read: what every other type of ZincCodecs is built from.            *)
(*                                                                         *)
(* "numberRead" is the record read last: its kind, what was written, what  *)
(* was read - nothing when the reader went astray - and how many bytes.    *)
(***************************************************************************)
EXTENDS ZincNumbers, ZincBuffer

CONSTANTS
  NumberSamples, \* kind -> values that are written
  MaxNumbers     \* bound: records written in a run

\* A value of a type of n values that may be negative.
Signeds(n) == -(n \div 2) .. n - n \div 2 - 1
VarInts == -Power(2, Bits - 1) .. Power(2, Bits - 1) - 1
Shorts == 4 * Base * Base

EncodedNumber(kind, v, bigEndian) ==
  CASE kind = "VarInt" -> writeVarNumeric(v)
    [] kind = "ZigZag" -> writeZigZagVarNumeric(v)
    [] kind = "Position" -> writePosition(v)
    [] kind \in {"Short", "UnsignedShort"} -> writeShort(v, bigEndian)
    [] kind = "String" -> writeString(v)
DecodedNumber(kind, in, p, bigEndian) ==
  CASE kind = "VarInt" -> readVarNumeric(in, p)
    [] kind = "ZigZag" -> readZigZagVarNumeric(in, p)
    [] kind = "Position" -> readPosition(in, p)
    [] kind = "Short" -> Map(readShort(in, p, bigEndian), LAMBDA v : Wrapped(v, Shorts))
    [] kind = "UnsignedShort" -> readShort(in, p, bigEndian)
    [] kind = "String" -> readString(in, p)

\* Values of the types, and cells for all they are written as.
NumberTypes ==
  [VarInt |-> VarInts, ZigZag |-> VarInts, Position |-> [x : Int, y : Int, z : Int],
   Short |-> Signeds(Shorts), UnsignedShort |-> 0 .. Shorts - 1, String |-> Seq(Byte)]
ASSUME StreamAssumption ==
  /\ Zero = Blank
  /\ DOMAIN NumberSamples \subseteq DOMAIN NumberTypes
  /\ \A kind \in DOMAIN NumberSamples : \A v \in NumberSamples[kind] :
       /\ v \in NumberTypes[kind]
       /\ kind = "String" => Len(v) \in VarInts
       /\ \A bigEndian \in BOOLEAN : EncodedNumber(kind, v, bigEndian) \in Seq(Byte)
  /\ MaxNumbers \in Nat

----------------------------------------------------------------------------
VARIABLES
  bigEndian,
  numbers,      \* records in the buffer: <<kind, value>>
  numberWrites, \* history: how many there have been
  numberRead

numbersVars == <<buffer, got, overrun, bigEndian, numbers, numberWrites, numberRead>>

NoNumberRead == [kind |-> "none", value |-> 0, read |-> <<0>>, took |-> 0]
NumbersReady == ~overrun /\ numberRead.read # <<>>

NumbersInit ==
  /\ BufferInit
  /\ bigEndian \in BOOLEAN
  /\ numbers = <<>> /\ numberWrites = 0 /\ numberRead = NoNumberRead

WriteNumber(kind, v) ==
  /\ NumbersReady
  /\ numberWrites < MaxNumbers
  /\ Write(EncodedNumber(kind, v, bigEndian))
  /\ numbers' = Append(numbers, <<kind, v>>) /\ numberWrites' = numberWrites + 1
  /\ UNCHANGED <<bigEndian, numberRead>>

\* What a reader makes of the record at the front.
NumberInFront == DecodedNumber(numbers[1][1], buffer.cells, buffer.reader + 1, bigEndian)
Taken(r) == r.at - 1 - buffer.reader
ReadNumber ==
  /\ NumbersReady
  /\ numbers # <<>>
  /\ IF NumberInFront.ok THEN Read(Taken(NumberInFront)) ELSE UNCHANGED bufferVars
  /\ numberRead' = [kind |-> numbers[1][1], value |-> numbers[1][2],
                    read |-> IF NumberInFront.ok THEN <<NumberInFront.v>> ELSE <<>>, took |-> Taken(NumberInFront)]
  /\ numbers' = Tail(numbers)
  /\ UNCHANGED <<bigEndian, numberWrites>>

ClearNumbers == NumbersReady /\ clear /\ numbers' = <<>> /\ UNCHANGED <<bigEndian, numberWrites, numberRead>>
RecycleUnderNumbers ==
  NumbersReady /\ toggleBlockRecycle /\ UNCHANGED <<bigEndian, numbers, numberWrites, numberRead>>
MoveNumbers == NumbersReady /\ Move /\ UNCHANGED <<bigEndian, numbers, numberWrites, numberRead>>

NumbersNext ==
  \/ \E kind \in DOMAIN NumberSamples : \E v \in NumberSamples[kind] : WriteNumber(kind, v)
  \/ ReadNumber
  \/ ClearNumbers \/ RecycleUnderNumbers \/ MoveNumbers
NumbersSpec == NumbersInit /\ [][NumbersNext]_numbersVars

----------------------------------------------------------------------------
(* Properties. *)

\* What is left of a value: of a block position the bits there is room for.
KeptOf(kind, v) ==
  IF kind = "Position" THEN [x |-> Wrapped(v.x, XZ), y |-> Wrapped(v.y, Y), z |-> Wrapped(v.z, XZ)] ELSE v
LengthOf(kind, v) ==
  CASE kind = "VarInt" -> getVarNumericLength(v)
    [] kind = "ZigZag" -> getZigZagVarNumericLength(v)
    [] kind = "Position" -> 1
    [] kind \in {"Short", "UnsignedShort"} -> 2
    [] kind = "String" -> getVarNumericLength(Len(v)) + Len(v)

\* Who reads numbers never reads past the writer, so that ByteQueue says what every read
\* returns.
NeverOverrun == numberWrites # 0 => ~overrun

\* Every number comes back as it was written, negative ones too, whatever is in front of
\* it in the buffer, wherever the blocks' boundaries are and whether they are given back;
\* a VarInt or ZigZag number takes as many bytes as getVarNumericLength and
\* getZigZagVarNumericLength say, and a string those of its length's VarInt and its own.
\* A block position comes back wrapped to the bits writePosition has for its parts.
ReadAsWritten ==
  numberRead.kind # "none" =>
    /\ numberRead.read = << KeptOf(numberRead.kind, numberRead.value) >>
    /\ numberRead.took = LengthOf(numberRead.kind, numberRead.value)

\* What is written is what is read, and nothing else is.
NumbersSurvive == ReadAsWritten /\ NeverOverrun
============================================================================
