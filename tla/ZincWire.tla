------------------------------ MODULE ZincWire ------------------------------
(***************************************************************************)
(* ByteBuffer's templates: how a format of ZincTypes is written and read.  *)
(*                                                                         *)
(* The environment is [bigEndian, rightToLeft]: the buffer's byte order,   *)
(* and the order in which the compiler lets a call's arguments be read.    *)
(***************************************************************************)
EXTENDS ZincTypes, FiniteSetsExt

CONSTANTS
  NumberOctets,   \* bytes of a number wider than one; 4 or 8
  Polynomial      \* of the checksum, 0xEDB88320: which of its bits are set

\* The bits of an unsigned.
Register == 0 .. OctetBits * NumberOctets - 1

ASSUME WireAssumption == NumberOctets \in Nat \ {0} /\ Polynomial \subseteq Register

\* A cell holds what a big-endian buffer reads in it: in a little-endian one a number
\* is written and read with its bytes the other way round.  (A short is two cells, and an
\* element that is read in another order than it was written in goes astray before that.)
OctetBase == 2 ^ OctetBits
Swapped(v) ==
  LET octet(i) == (v \div OctetBase ^ (i - 1)) % OctetBase
      upTo[i \in 0 .. NumberOctets] ==
        IF i = 0 THEN 0 ELSE upTo[i - 1] + octet(i) * OctetBase ^ (NumberOctets - i)
  IN Wrapped(upTo[NumberOctets], OctetBase ^ NumberOctets)
SwappedWord(word_) == {WordBits - OctetBits * (j \div OctetBits + 1) + (j % OctetBits) : j \in word_}
Ordered(kind, v, bigEndian) ==
  IF bigEndian \/ kind = "b" THEN v ELSE IF kind = "u64" THEN SwappedWord(v) ELSE Swapped(v)

Writer(name) == IF name = "SlotDisplay" THEN writeSlotDisplay ELSE writePotionEffectDetail
Reader(name) == IF name = "SlotDisplay" THEN readSlotDisplay ELSE readPotionEffectDetail

Present(field, r) == field[3] = "" \/ r[field[3]] \in field[4]
NumberOf(bits, width) == LET upTo[n \in 0 .. width] ==
                               IF n = 0 THEN 0 ELSE upTo[n - 1] + (IF n - 1 \in bits THEN 2 ^ (n - 1) ELSE 0)
                         IN upTo[width]
BitsOf(number, width) == {j \in 0 .. width - 1 : (number \div 2 ^ j) % 2 = 1}

\* main calls initCRC32, which fills the table, before anything else.
ShiftedRight(c, n) == {j - n : j \in {k \in c : k >= n}}
crc32Table ==
  [byte \in SUBSET (0 .. OctetBits - 1) |->
     LET step(c) == SymDiff(ShiftedRight(c, 1), IF 0 \in c THEN Polynomial ELSE {})
         upTo[j \in 0 .. OctetBits] == IF j = 0 THEN byte ELSE step(upTo[j - 1])
     IN upTo[OctetBits]]
crc32Unfilled(data) ==  \* mutant: the table is all zeros
  LET crc[i \in 0 .. Len(data)] == IF i = 0 THEN Register ELSE ShiftedRight(crc[i - 1], OctetBits)
  IN NumberOf(Register \ crc[Len(data)], OctetBits * NumberOctets)
crc32(data) ==
  LET step(c, octet) ==
        SymDiff(ShiftedRight(c, OctetBits),
                crc32Table[SymDiff(c \cap (0 .. OctetBits - 1), BitsOf(octet[2], OctetBits))])
      crc[i \in 0 .. Len(data)] == IF i = 0 THEN Register ELSE step(crc[i - 1], data[i])
  IN NumberOf(Register \ crc[Len(data)], OctetBits * NumberOctets)

TeleportBits == 9
Nibble == 2 ^ (OctetBits \div 2)
\* The cast to char drops the fraction of a step, and the turns a byte has no room for.
writeAngle(v) ==
  LET steps == IF v >= 0 THEN v \div 2 ELSE -((-v) \div 2) IN << Octet(Wrapped(steps, 2 ^ OctetBits)) >>
readAngle(in, p) == Map(readNumeric("b", in, p), LAMBDA n : 2 * n)

writeBitSet(b, bigEndian) ==
  LET longs == toLongArray(b)
  IN writeVarNumeric(Len(longs)) \o [i \in DOMAIN longs |-> <<"u64", Ordered("u64", longs[i], bigEndian)>>]
writeFixedBitSet(b) ==
  LET bytes == toByteArray(b) IN [i \in DOMAIN bytes |-> Octet(NumberOf(bytes[i], OctetBits))]
\* An EnumSet is the fixed bit set of its members' numbers.
Among(members) ==
  LET upTo[n \in 0 .. Len(members)] == IF n = 0 THEN EmptyBitSet ELSE set(upTo[n - 1], members[n])
  IN upTo[Len(members)]
writeEnumSet(members) == writeFixedBitSet(Among(members))
keyOf(ids, type) == IF type \in DOMAIN ids THEN ids[type] ELSE 0

RECURSIVE write(_, _, _)
writeArray(f, values, bigEndian) == Concat([i \in DOMAIN values |-> write(f, values[i], bigEndian)])
writePrefixedArray(f, values, bigEndian) == writeVarNumeric(Len(values)) \o writeArray(f, values, bigEndian)
writePrefixedOptional(f, value, bigEndian) == << Octet(Len(value)) >> \o writeArray(f, value, bigEndian)
writeFields(fields, r, bigEndian) ==
  Concat([i \in DOMAIN fields |->
    IF Present(fields[i], r) THEN write(fields[i][2], r[fields[i][1]], bigEndian) ELSE <<>>])
\* Neither or both: nothing is written.
writeEither(f, v, bigEndian) ==
  IF Len(v.x) = Len(v.y) THEN <<>>
  ELSE (IF f[2] THEN << Octet(Len(v.x)) >> ELSE <<>>) \o
       writeArray(f[3], v.x, bigEndian) \o writeArray(f[4], v.y, bigEndian)
writeExactly(f, values, bigEndian) ==
  writeArray(f[3], IF Len(values) = f[2] THEN values ELSE [i \in 1 .. f[2] |-> f[4]], bigEndian)
writePairs(f, pairs, bigEndian) ==
  Concat([i \in DOMAIN pairs |->
    IF Len(pairs[i]) # 2 THEN <<>>
    ELSE write(f[2][1], pairs[i][1], bigEndian) \o write(f[2][2], pairs[i][2], bigEndian)])
write(f, v, bigEndian) ==
  CASE f[1] = "number" -> writeNumeric(f[2], Ordered(f[2], v, bigEndian))
    [] f[1] = "short" -> writeShort(v, bigEndian)
    [] f[1] = "var" -> writeVarNumeric(v)
    [] f[1] \in {"string", "bytes"} -> writePrefixedByteArray(v)
    [] f[1] = "identifier" -> writeIdentifier(v)
    [] f[1] = "raw" -> v
    [] f[1] = "nbt" -> writeNBTElement(v, bigEndian)
    [] f[1] = "text" -> writeTextComponent(v, bigEndian)
    [] f[1] = "bitset" -> writeBitSet(v, bigEndian)
    [] f[1] = "fixed" -> writeFixedBitSet(v)
    [] f[1] = "enums" -> writeEnumSet(v)
    [] f[1] = "xz" -> << Octet((v.x % Nibble) * Nibble + (v.z % Nibble)) >>
    [] f[1] = "angle" -> writeAngle(v)
    [] f[1] = "flags" -> writeNumeric("i32", Ordered("i32", NumberOf(v, TeleportBits), bigEndian))
    [] f[1] = "checksum" -> writeNumeric("u32", Ordered("u32", crc32(v), bigEndian))
    [] f[1] = "positive" -> << Octet(IF v > 0 THEN 1 ELSE 0) >>
    [] f[1] = "size" -> writeVarNumeric(Len(v))
    [] f[1] = "has" -> << Octet(Len(v)) >>
    [] f[1] = "orzero" -> write(f[2], Or(v, 0), bigEndian)
    [] f[1] = "key" -> writeVarNumeric(keyOf(f[2], v))
    [] f[1] = "array" -> writePrefixedArray(f[2], v, bigEndian)
    [] f[1] = "each" -> writeArray(f[2], v, bigEndian)
    [] f[1] = "pairs" -> writePairs(f, v, bigEndian)
    [] f[1] = "exactly" -> writeExactly(f, v, bigEndian)
    [] f[1] = "optional" -> writePrefixedOptional(f[2], v, bigEndian)
    [] f[1] = "either" -> writeEither(f, v, bigEndian)
    [] f[1] = "ref" -> write(Writer(f[2]), v, bigEndian)
    [] f[1] = "own" -> write(f[2], v, TRUE)
    [] f[1] \in {"record", "arguments"} -> writeFields(f[3], v, bigEndian)

----------------------------------------------------------------------------
readBitSet(bigEndian, in, p) ==
  Then(readVarNumeric(in, p), LAMBDA n, q :
    Map(readMany("u64", n, in, q), LAMBDA longs :
      fromLongArray([i \in DOMAIN longs |-> Ordered("u64", longs[i], bigEndian)])))
readFixedBitSet(n, in, p) ==
  Map(readMany("b", n, in, p), LAMBDA bytes : fromByteArray([i \in DOMAIN bytes |-> BitsOf(bytes[i], OctetBits)]))
readEnumSet(n, in, p) ==
  Map(readFixedBitSet(n, in, p), LAMBDA b :
    LET members == {pos \in SetBits(b) : pos < n * OctetBits}
        upTo[pos \in 0 .. n * OctetBits] ==
          IF pos = 0 THEN <<>> ELSE upTo[pos - 1] \o (IF pos - 1 \in members THEN <<pos - 1>> ELSE <<>>)
    IN upTo[n * OctetBits])
getIdentifierFromValue(ids, default, n) ==
  IF \E type \in DOMAIN ids : ids[type] = n THEN CHOOSE type \in DOMAIN ids : ids[type] = n ELSE default
Backwards(s) == [i \in DOMAIN s |-> s[Len(s) + 1 - i]]

RECURSIVE read(_, _, _, _, _), readArray(_, _, _, _, _), readFields(_, _, _, _, _)
\* n elements, one behind the other.
readArray(f, n, env, in, p) ==
  IF n = 0 THEN Found(<<>>, p)
  ELSE IF n < 0 \/ n > MaxInt THEN Astray
  ELSE Then(read(f, [none |-> 0], env, in, p), LAMBDA v, q :
         Map(readArray(f, n - 1, env, in, q), LAMBDA rest : <<v>> \o rest))
readPrefixedArray(f, env, in, p) == Then(readVarNumeric(in, p), LAMBDA n, q : readArray(f, n, env, in, q))
readPrefixedOptional(f, env, in, p) ==
  Then(readNumeric("b", in, p), LAMBDA b, q : readArray(f, IF b = 0 THEN 0 ELSE 1, env, in, q))
\* The fields into r, which starts out as the type's default.
readFields(fields, r, env, in, p) ==
  IF fields = <<>> THEN Found(r, p)
  ELSE IF ~Present(fields[1], r) THEN readFields(Tail(fields), r, env, in, p)
  ELSE Then(read(fields[1][2], r, env, in, p), LAMBDA v, q :
         readFields(Tail(fields), [r EXCEPT ![fields[1][1]] = v], env, in, q))
readEither(f, env, in, p) ==
  Then(readNumeric("b", in, p), LAMBDA b, q :
    IF b # 0 THEN Map(read(f[3], [none |-> 0], env, in, q), LAMBDA v : [x |-> <<v>>, y |-> <<>>])
    ELSE Map(read(f[4], [none |-> 0], env, in, q), LAMBDA v : [x |-> <<>>, y |-> <<v>>]))
readPair(f, env, in, p) ==
  Then(read(f[2][1], [none |-> 0], env, in, p), LAMBDA a, q :
    Map(read(f[2][2], [none |-> 0], env, in, q), LAMBDA b : <<a, b>>))
read(f, r, env, in, p) ==
  CASE f[1] = "number" -> Map(readNumeric(f[2], in, p), LAMBDA v : Ordered(f[2], v, env.bigEndian))
    [] f[1] = "short" -> Map(readShort(in, p, env.bigEndian), LAMBDA v : Wrapped(v, 4 * Base * Base))
    [] f[1] = "var" -> readVarNumeric(in, p)
    [] f[1] \in {"string", "bytes"} -> readPrefixedByteArray(in, p)
    [] f[1] = "identifier" -> readIdentifier(in, p)
    [] f[1] = "nbt" -> readNBTElement(env.bigEndian, in, p)
    [] f[1] = "text" -> readTextComponent(env.bigEndian, in, p)
    [] f[1] = "bitset" -> readBitSet(env.bigEndian, in, p)
    [] f[1] = "fixed" -> readFixedBitSet(f[2], in, p)
    [] f[1] = "enums" -> readEnumSet(f[2], in, p)
    [] f[1] = "xz" -> Map(readNumeric("b", in, p), LAMBDA n : [x |-> n \div Nibble, z |-> n % Nibble])
    [] f[1] = "angle" -> readAngle(in, p)
    [] f[1] = "flags" -> Map(readNumeric("i32", in, p), LAMBDA n :
                           BitsOf(Ordered("i32", n, env.bigEndian), TeleportBits))
    [] f[1] = "key" -> Map(readVarNumeric(in, p), LAMBDA n : getIdentifierFromValue(f[2], f[3], n))
    [] f[1] = "array" -> readPrefixedArray(f[2], env, in, p)
    [] f[1] = "times" -> readArray(f[2], r[f[3]] - f[4], env, in, p)
    [] f[1] = "pair" -> readPair(f, env, in, p)
    [] f[1] = "exactly" -> readArray(f[3], f[2], env, in, p)
    [] f[1] = "optional" -> readPrefixedOptional(f[2], env, in, p)
    [] f[1] = "either" -> readEither(f, env, in, p)
    [] f[1] = "ref" -> read(Reader(f[2]), r, env, in, p)
    [] f[1] = "record" -> readFields(f[3], f[2], env, in, p)
    [] f[1] = "arguments" -> readFields(IF env.rightToLeft THEN Backwards(f[3]) ELSE f[3], f[2], env, in, p)
=============================================================================
