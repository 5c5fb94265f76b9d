----------------------------- MODULE ZincBitSet -----------------------------
(***************************************************************************)
(* BitSet: bits in words, with the highest set bit kept beside them.       *)
(*                                                                         *)
(* A word is the set of its bits.  "highest" is NPOS when no bit is set;   *)
(* words behind the highest bit may be there or not, depending on how the  *)
(* bits came about.                                                        *)
(***************************************************************************)
EXTENDS Integers, Sequences, FiniteSets

CONSTANTS
  WordBits,     \* bits of a word; 64
  OctetBits     \* bits of a byte; 8

ASSUME BitSetAssumption == {OctetBits, WordBits} \subseteq Nat \ {0} /\ WordBits % OctetBits = 0

NPOS == -1   \* the greatest unsigned long; only compared with = by what follows
EmptyBitSet == [data |-> <<>>, highest |-> NPOS]

LeastOf(S, none) == IF S = {} THEN none ELSE CHOOSE x \in S : \A y \in S : x <= y
GreatestOf(S) == IF S = {} THEN NPOS ELSE CHOOSE x \in S : \A y \in S : x >= y

Room(b) == WordBits * Len(b.data)
get(b, pos) == pos < Room(b) /\ pos % WordBits \in b.data[pos \div WordBits + 1]
SetBits(b) == {pos \in 0 .. Room(b) - 1 : get(b, pos)}
findHighestSet(data) == GreatestOf(SetBits([data |-> data, highest |-> NPOS]))

Word(b, i) == IF i <= Len(b.data) THEN b.data[i] ELSE {}
Longer(b, c) == IF Len(b.data) > Len(c.data) THEN Len(b.data) ELSE Len(c.data)
Resized(b, pos) ==
  [b EXCEPT !.data = @ \o [i \in 1 .. pos \div WordBits + 1 - Len(@) |-> {}]]
Raised(b, pos) == IF b.highest = NPOS \/ pos > b.highest THEN [b EXCEPT !.highest = pos] ELSE b
Lowered(b, pos) == IF pos = b.highest THEN [b EXCEPT !.highest = findHighestSet(b.data)] ELSE b

set(b, pos) ==
  LET r == Resized(b, pos)
  IN IF get(r, pos) THEN r
     ELSE Raised([r EXCEPT !.data[pos \div WordBits + 1] = @ \cup {pos % WordBits}], pos)
clearBitStale(b, pos) ==  \* mutant: the highest bit is not looked for again
  IF ~get(b, pos) THEN b
  ELSE [b EXCEPT !.data[pos \div WordBits + 1] = @ \ {pos % WordBits}]
clearBit(b, pos) ==
  IF ~get(b, pos) THEN b
  ELSE Lowered([b EXCEPT !.data[pos \div WordBits + 1] = @ \ {pos % WordBits}], pos)
flip(b, pos) == IF get(b, pos) THEN clearBit(b, pos) ELSE set(b, pos)

bitSize(b) == b.highest + 1
count(b) == Cardinality(SetBits(b))
any(b) == b.highest # NPOS
none(b) == b.highest = NPOS

\* From the word of fromIndex on; behind the last word there is nothing to look at.
nextSetBit(b, from) ==
  IF b.highest # NPOS /\ from > b.highest THEN NPOS
  ELSE LeastOf({pos \in SetBits(b) : pos >= from}, NPOS)
nextClearBit(b, from) ==
  LeastOf({pos \in 0 .. Room(b) - 1 : pos >= from /\ ~get(b, pos)}, Room(b))

\* andNot, &=, |= and ^= go word by word, over the words both have or all of them.
Combined(data) == [data |-> data, highest |-> findHighestSet(data)]
andNot(b, c) == Combined([i \in 1 .. Len(b.data) |-> b.data[i] \ Word(c, i)])
intersect(b, c) == Combined([i \in 1 .. Len(b.data) |-> b.data[i] \cap Word(c, i)])
unite(b, c) == Combined([i \in 1 .. Longer(b, c) |-> Word(b, i) \cup Word(c, i)])
differ(b, c) ==
  Combined([i \in 1 .. Longer(b, c) |-> (Word(b, i) \ Word(c, i)) \cup (Word(c, i) \ Word(b, i))])
equal(b, c) == \A i \in 1 .. Longer(b, c) : Word(b, i) = Word(c, i)

toLongArray(b) == IF none(b) THEN <<>> ELSE SubSeq(b.data, 1, b.highest \div WordBits + 1)
fromLongArray(longs) == Combined(longs)

\* As many bytes as the highest bit's NUMBER needs, rounded up.
toByteArray(b) ==
  [i \in 1 .. (IF none(b) THEN 0 ELSE (b.highest + OctetBits - 1) \div OctetBits) |->
     {j \in 0 .. OctetBits - 1 : get(b, (i - 1) * OctetBits + j)}]
fromByteArray(bytes) ==
  LET each == WordBits \div OctetBits
  IN Combined([i \in 1 .. (Len(bytes) + each - 1) \div each |->
       {k \in 0 .. WordBits - 1 :
          LET n == (i - 1) * each + k \div OctetBits + 1
          IN n <= Len(bytes) /\ k % OctetBits \in bytes[n]}])
=============================================================================
