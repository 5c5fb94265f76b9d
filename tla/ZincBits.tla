------------------------------ MODULE ZincBits ------------------------------
(***************************************************************************)
(* A BitSet in use: any sequence of calls that change it, beside the set   *)
(* of the bits that should be set in it.                                   *)
(***************************************************************************)
EXTENDS ZincBitSet

CONSTANTS
  Positions,    \* of the bits that are set, cleared and flipped
  Others,       \* bit sets that are combined with it
  Rooms         \* numbers of bits BitSet(n) is made for

\* What a BitSet can be: any words, and the highest of their bits.
BitSets ==
  {b \in [data : Seq(SUBSET (0 .. WordBits - 1)), highest : Nat \cup {NPOS}] :
     b.highest = findHighestSet(b.data)}

ASSUME BitsAssumption ==
  /\ Positions \subseteq Nat /\ Rooms \subseteq Nat
  /\ \A c \in Others : c \in BitSets

VARIABLES
  bits,         \* the BitSet
  members       \* history: the bits that should be set in it

bitsVars == <<bits, members>>

\* BitSet(n): words, and no bit in them.
WithRoom(n) == [EmptyBitSet EXCEPT !.data = [i \in 1 .. (n + WordBits - 1) \div WordBits |-> {}]]

BitsInit == bits \in {WithRoom(n) : n \in Rooms} /\ members = {}

SetBit(pos) == bits' = set(bits, pos) /\ members' = members \cup {pos}
ClearBit(pos) == bits' = clearBit(bits, pos) /\ members' = members \ {pos}
FlipBit(pos) ==
  bits' = flip(bits, pos) /\ members' = IF pos \in members THEN members \ {pos} ELSE members \cup {pos}
AndNot(c) == bits' = andNot(bits, c) /\ members' = members \ SetBits(c)
Intersect(c) == bits' = intersect(bits, c) /\ members' = members \cap SetBits(c)
Unite(c) == bits' = unite(bits, c) /\ members' = members \cup SetBits(c)
Differ(c) == bits' = differ(bits, c) /\ members' = (members \ SetBits(c)) \cup (SetBits(c) \ members)

BitsNext ==
  \/ \E pos \in Positions : SetBit(pos) \/ ClearBit(pos) \/ FlipBit(pos)
  \/ \E c \in Others : AndNot(c) \/ Intersect(c) \/ Unite(c) \/ Differ(c)
BitsSpec == BitsInit /\ [][BitsNext]_bitsVars

----------------------------------------------------------------------------
(* Properties. *)

\* Whatever calls built it, the BitSet has the bits it should have, knows the highest,
\* and finds the next set and clear bit as a search of the bits would; only behind its
\* last word nextClearBit answers with a bit in front of where it was to start.
AnswersAgree ==
  /\ SetBits(bits) = members
  /\ bitSize(bits) = GreatestOf(members) + 1
  /\ count(bits) = Cardinality(members)
  /\ any(bits) = (members # {}) /\ none(bits) = (members = {})
  /\ \A from \in Positions :
       /\ nextSetBit(bits, from) = LeastOf({pos \in members : pos >= from}, NPOS)
       /\ LET clear_ == nextClearBit(bits, from)
          IN IF from > Room(bits) THEN clear_ = Room(bits)
             ELSE /\ clear_ >= from /\ clear_ \notin members
                  /\ \A pos \in from .. clear_ - 1 : pos \in members

\* The words and the bytes a BitSet is written as hold its bits: what fromLongArray makes
\* of the words has them all, what fromByteArray makes of the bytes has all but one - the
\* highest, if it is the first bit of a byte, for which toByteArray makes no room.
ArraysKept ==
  /\ equal(fromLongArray(toLongArray(bits)), bits)
  /\ SetBits(fromByteArray(toByteArray(bits))) =
       members \ {pos \in members : pos = GreatestOf(members) /\ pos % OctetBits = 0}

\* A BitSet is the set its calls make of it, and so is what it is written as.
BitSetAgrees == AnswersAgree /\ ArraysKept
=============================================================================
