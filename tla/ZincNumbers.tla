---------------------------- MODULE ZincNumbers ----------------------------
(***************************************************************************)
(* How ByteBuffer writes and reads single numbers, VarInts above all.      *)
(*                                                                         *)
(* What is written is a sequence of cells <<kind, value>>: a byte is       *)
(* <<"b", n>>, a short two of them, a wider number one cell of a kind of   *)
(* its own ("i32", "i64", "f32", "f64"), and a character, or a word where  *)
(* its letters do not matter, <<"c", x>>.  Blank is a cell nobody wrote:   *)
(* one of the zero bytes a block starts with.                              *)
(*                                                                         *)
(* A reader gives [ok, v, at]: the value and the position behind it.  It   *)
(* is not ok where the code would take bytes of another kind for what it   *)
(* wants, or would read behind the last block: what happens from there on  *)
(* is not followed.                                                        *)
(***************************************************************************)
EXTENDS Integers, Sequences, FiniteSets, ZincSums

CONSTANTS
  Bits,            \* width of a VarInt's type; 32 or 64
  DigitBits,       \* bits a byte of a VarInt holds; 7
  PositionBits,    \* bits of x and z in a packed position; 26
  HeightBits       \* bits of y in a packed position; 12

ASSUME NumbersAssumption ==
  /\ {Bits, DigitBits, PositionBits, HeightBits} \subseteq Nat \ {0}
  /\ DigitBits < Bits

Octet(n) == <<"b", n>>
Blank == <<"0", 0>>

Found(v, at) == [ok |-> TRUE, v |-> v, at |-> at]
Astray == [ok |-> FALSE, v |-> 0, at |-> 0]

\* writeNumeric, writeByte and writeUnsignedByte; readNumeric, readByte, readUnsignedByte.
writeNumeric(kind, v) == << <<kind, v>> >>
readNumeric(kind, in, p) ==
  IF p > Len(in) THEN Astray
  ELSE IF in[p] = Blank THEN Found(0, p + 1)
  ELSE IF in[p][1] = kind THEN Found(in[p][2], p + 1) ELSE Astray

\* A reader's value put through Op, or through a reader that goes on behind it.
Map(r, Op(_)) == IF r.ok THEN Found(Op(r.v), r.at) ELSE Astray
Then(r, Op(_, _)) == IF r.ok THEN Op(r.v, r.at) ELSE Astray

Base == Power(2, DigitBits)   \* 0x80: the flag of a VarInt's byte that another follows
Wrapped(v, n) == ((v + n \div 2) % n) - n \div 2

\* A short, in the buffer's byte order; as an unsigned one it is a length.
writeShort(v, bigEndian) ==
  LET high == Octet((v \div (2 * Base)) % (2 * Base))
      low == Octet(v % (2 * Base))
  IN IF bigEndian THEN <<high, low>> ELSE <<low, high>>
readShort(in, p, bigEndian) ==
  Then(readNumeric("b", in, p), LAMBDA a, q :
    Map(readNumeric("b", in, q), LAMBDA b : IF bigEndian THEN 2 * Base * a + b ELSE 2 * Base * b + a))

----------------------------------------------------------------------------
(* VarInts. *)

Unsigned(v) == v % Power(2, Bits)
Signed(u) == IF u >= Power(2, Bits - 1) THEN u - Power(2, Bits) ELSE u

varNumericMaxSize == Bits \div DigitBits + 1

getVarNumericLength(v) ==
  CHOOSE n \in 1 .. varNumericMaxSize :
    Unsigned(v) < Power(Base, n) /\ (n > 1 => Unsigned(v) >= Power(Base, n - 1))

writeVarNumericSigned(v) ==  \* mutant: a negative number's magnitude is written
  LET u == IF v < 0 THEN -v ELSE v
      n == getVarNumericLength(u)
  IN [i \in 1 .. n |-> Octet(((u \div Power(Base, i - 1)) % Base) + (IF i < n THEN Base ELSE 0))]
writeVarNumeric(v) ==
  LET n == getVarNumericLength(v)
  IN [i \in 1 .. n |-> Octet(((Unsigned(v) \div Power(Base, i - 1)) % Base) + (IF i < n THEN Base ELSE 0))]

\* The bytes up to the first without the flag, but no more than fill the type; 0
\* when the flag is still there.  Bits shifted out of the type are lost.
readVarUnsigned(in, p) ==
  LET byte(i) == readNumeric("b", in, p + i - 1)
      full == (Bits + DigitBits - 1) \div DigitBits
      last == CHOOSE i \in 1 .. full :
                /\ i = full \/ byte(i).v < Base
                /\ \A j \in 1 .. i - 1 : byte(j).v >= Base
      sum[i \in 0 .. last] == IF i = 0 THEN 0 ELSE sum[i - 1] + (byte(i).v % Base) * Power(Base, i - 1)
  IN IF \E i \in 1 .. last : ~byte(i).ok THEN Astray
     ELSE Found(IF byte(last).v < Base THEN Unsigned(sum[last]) ELSE 0, p + last)
readVarNumeric(in, p) ==
  LET r == readVarUnsigned(in, p) IN [r EXCEPT !.v = Signed(@)]

\* The sign goes to the lowest bit.
ZigZag(v) == IF v >= 0 THEN 2 * v ELSE -2 * v - 1
getZigZagVarNumericLength(v) == getVarNumericLength(ZigZag(v))
writeZigZagVarNumeric(v) == writeVarNumeric(ZigZag(v))
readZigZagVarNumeric(in, p) ==
  LET r == readVarUnsigned(in, p)
  IN [r EXCEPT !.v = IF @ % 2 = 0 THEN @ \div 2 ELSE -(@ \div 2) - 1]

----------------------------------------------------------------------------
(* A block position in one long; wrapping brings back the sign of each part. *)

XZ == Power(2, PositionBits)
Y == Power(2, HeightBits)
writePosition(at) == writeNumeric("i64", (Wrapped(at.x, XZ) * XZ + (at.z % XZ)) * Y + (at.y % Y))
readPosition(in, p) ==
  Map(readNumeric("i64", in, p),
      LAMBDA n : [x |-> n \div (XZ * Y), y |-> Wrapped(n % Y, Y), z |-> Wrapped((n \div Y) % XZ, XZ)])

----------------------------------------------------------------------------
(* Strings and byte arrays: the cells, behind how many there are. *)

writePrefixedByteArray(cells) == writeVarNumeric(Len(cells)) \o cells
readByteArray(n, in, p) ==
  IF n \in 0 .. Len(in) + 1 - p THEN Found(SubSeq(in, p, p + n - 1), p + n) ELSE Astray
readPrefixedByteArray(in, p) == Then(readVarNumeric(in, p), LAMBDA n, q : readByteArray(n, in, q))
writeString(value) == writePrefixedByteArray(value)
readString(in, p) == readPrefixedByteArray(in, p)
\* Identifier(std::string) looks for the colon and does not get over its absence.
Colon == <<"c", ":">>
writeIdentifier(value) == writeString(value)
readIdentifier(in, p) ==
  Then(readString(in, p), LAMBDA s, q :
    IF \E i \in DOMAIN s : s[i] = Colon THEN Found(s, q) ELSE Astray)
============================================================================
