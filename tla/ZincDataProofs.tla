--------------------------- MODULE ZincDataProofs ---------------------------
(***************************************************************************)
(* Proofs about what holds data: ByteBuffer's blocks (ZincBuffer), BitSet  *)
(* (ZincBits), and the numbers and strings that are written to a buffer    *)
(* and read from it (ZincNumbers, ZincNumberStream) - for every size of a  *)
(* block, a word, a byte and a type, and every sequence of calls.          *)
(*                                                                         *)
(* In this order: the buffer is a queue of bytes; a BitSet is a set and    *)
(* the arrays made of it hold it; a number is its digits, so that reading  *)
(* gives back what was written; and a buffer holds the records written to  *)
(* it one behind the other, so that each is read where it begins.          *)
(***************************************************************************)
EXTENDS ZincNumberStream, ZincBits, ZincSumsProofs, SequenceTheorems, FiniteSetTheorems

-----------------------------------------------------------------------------
(* Blocks and offsets.                                                     *)

\* A position lies in its block.
LEMMA BlockBounds ==
  ASSUME NEW n \in Nat
  PROVE  /\ n \div BLOCK_SIZE \in Nat
         /\ BlockStart(n) \in Nat /\ BlockStart(n) <= n /\ n < BlockStart(n) + BLOCK_SIZE
BY BufferAssumption DEF BlockStart

\* The block of a position is the one it lies in.
LEMMA BlockUnique ==
  ASSUME NEW n \in Nat, NEW k \in Nat, BLOCK_SIZE * k <= n, n < BLOCK_SIZE * k + BLOCK_SIZE
  PROVE  n \div BLOCK_SIZE = k
<1> DEFINE B == BLOCK_SIZE
           r == n - B * k
<1>1. B \in Nat \ {0} /\ B * k \in Nat
  BY BufferAssumption
<1>2. r \in 0 .. B - 1 /\ n = B * k + r
  BY <1>1
<1> HIDE DEF B, r
<1> QED BY <1>1, <1>2, DivisionUnique DEF B

\* Giving whole blocks back moves the beginning of every block by as much.
LEMMA BlockShift ==
  ASSUME NEW n \in Nat, NEW j \in Nat, BLOCK_SIZE * j <= n
  PROVE  BlockStart(n - BLOCK_SIZE * j) = BlockStart(n) - BLOCK_SIZE * j
<1> DEFINE q == n \div BLOCK_SIZE
           B == BLOCK_SIZE
           m == B * j
<1>1. /\ q \in Nat /\ B * q \in Nat /\ B * q <= n /\ n < B * q + B /\ B \in Nat \ {0} /\ m \in Nat
  BY BlockBounds, BufferAssumption DEF BlockStart
<1>2. j <= q
  <2>1. ~(q + 1 <= j)
    <3> HIDE DEF q
    <3> QED BY <1>1, Product
  <2> HIDE DEF q
  <2> QED BY <1>1, <2>1
<1> HIDE DEF q, B
<1>3. q - j \in Nat /\ B * (q - j) = B * q - m
  BY <1>1, <1>2
<1>4. n - m \in Nat
  BY <1>1 DEF B
<1>5. B * (q - j) <= n - m /\ n - m < B * (q - j) + B
  BY <1>1, <1>3, <1>4
<1>6. (n - m) \div B = q - j
  BY <1>3, <1>4, <1>5, BlockUnique DEF B
<1> QED BY <1>3, <1>6 DEF BlockStart, q, B

-----------------------------------------------------------------------------
(* What write, read and move do to a buffer.                               *)

\* The invariant: the writer is in the last block, the reader not ahead of it.
Fits(b) == b \in Buffer /\ Len(b.cells) = BlockEnd(b.writer) /\ b.reader <= b.writer
PendingOf(b) == SubSeq(b.cells, b.reader + 1, b.writer)

\* A buffer that fits has whole blocks, and the writer in the last of them.
LEMMA FitsFacts ==
  ASSUME NEW b, Fits(b)
  PROVE  /\ b.cells \in Seq(Byte) /\ b.writer \in Nat /\ b.reader \in Nat
         /\ Len(b.cells) \in Nat /\ b.writer < Len(b.cells) /\ b.reader <= b.writer
         /\ DOMAIN b.cells = 1 .. Len(b.cells)
         /\ \A i \in 1 .. Len(b.cells) : b.cells[i] \in Byte
<1>1. b.cells \in Seq(Byte) /\ b.writer \in Nat /\ b.reader \in Nat
  BY DEF Fits, Buffer
<1>2. b.writer < BlockEnd(b.writer)
  BY <1>1, BlockBounds DEF BlockEnd
<1> QED BY <1>1, <1>2 DEF Fits

\* The bytes from the reader to the writer are a queue's content.
LEMMA PendingFacts ==
  ASSUME NEW b, Fits(b)
  PROVE  /\ PendingOf(b) \in Seq(Byte)
         /\ Len(PendingOf(b)) = b.writer - b.reader
         /\ \A i \in 1 .. b.writer - b.reader : PendingOf(b)[i] = b.cells[b.reader + i]
<1> DEFINE m == b.reader + 1
           n == b.writer
<1>1. m \in Int /\ n \in Int /\ \A i \in m .. n : b.cells[i] \in Byte
  BY FitsFacts
<1>2. /\ SubSeq(b.cells, m, n) \in Seq(Byte)
      /\ Len(SubSeq(b.cells, m, n)) = IF m <= n THEN n - m + 1 ELSE 0
      /\ \A i \in 1 .. n - m + 1 : SubSeq(b.cells, m, n)[i] = b.cells[m + i - 1]
  <2> HIDE DEF m, n
  <2> QED BY <1>1, SubSeqProperties
<1>3. b.reader \in Nat /\ b.writer \in Nat /\ b.reader <= b.writer
  BY FitsFacts
<1>4. n - m + 1 = b.writer - b.reader /\ (~(m <= n) => b.writer - b.reader = 0)
  BY <1>3
<1>5. \A i \in 1 .. b.writer - b.reader : m + i - 1 = b.reader + i
  BY <1>3
<1> QED BY <1>2, <1>4, <1>5 DEF PendingOf

\* A new buffer fits, and reader and writer are at its beginning.
LEMMA EmptyFits == Fits(EmptyBuffer) /\ EmptyBuffer.writer = 0 /\ EmptyBuffer.reader = 0
<1>1. BlockStart(0) = 0 /\ BlockEnd(0) = BLOCK_SIZE /\ BLOCK_SIZE \in Nat
  BY BlockBounds, BufferAssumption DEF BlockStart, BlockEnd
<1>2. /\ [i \in 1 .. BLOCK_SIZE |-> Zero] \in Seq(Byte)
      /\ Len([i \in 1 .. BLOCK_SIZE |-> Zero]) = BLOCK_SIZE
  BY <1>1, BufferAssumption
<1> QED BY <1>1, <1>2 DEF EmptyBuffer, Fits, Buffer

\* write() keeps the fit and puts the bytes behind those that wait.
LEMMA WrittenFits ==
  ASSUME NEW b, Fits(b), NEW data \in Seq(Byte)
  PROVE  LET w == Written(b, data)
         IN /\ Fits(w) /\ w.reader = b.reader /\ w.writer = b.writer + Len(data)
            /\ \A i \in 1 .. b.writer : w.cells[i] = b.cells[i]
            /\ \A i \in 1 .. Len(data) : w.cells[b.writer + i] = data[i]
<1> DEFINE end == b.writer + Len(data)
           all == BlockEnd(end)
           cell(i) == IF i \in b.writer + 1 .. end THEN data[i - b.writer]
                      ELSE IF i <= Len(b.cells) THEN b.cells[i] ELSE Zero
           cells == [i \in 1 .. all |-> cell(i)]
           w == Written(b, data)
<1>1. /\ b.cells \in Seq(Byte) /\ b.writer \in Nat /\ b.reader \in Nat
      /\ Len(b.cells) \in Nat /\ b.writer < Len(b.cells) /\ b.reader <= b.writer
      /\ \A i \in 1 .. Len(b.cells) : b.cells[i] \in Byte
  BY FitsFacts
<1>2. end \in Nat /\ Len(data) \in Nat /\ b.writer <= end
  BY <1>1
<1>3. all \in Nat /\ end < all
  <2>1. BlockStart(end) \in Nat /\ end < BlockStart(end) + BLOCK_SIZE /\ BLOCK_SIZE \in Nat
    <3> HIDE DEF end
    <3> QED BY <1>2, BlockBounds, BufferAssumption
  <2>2. all = BlockStart(end) + BLOCK_SIZE
    BY DEF BlockEnd
  <2> HIDE DEF end, all
  <2> QED BY <2>1, <2>2
<1>4. w = [b EXCEPT !.writer = end, !.cells = cells]
  BY DEF Written
<1> HIDE DEF all, w
<1>5. ASSUME NEW i \in 1 .. all PROVE cell(i) \in Byte
  <2>1. CASE i \in b.writer + 1 .. end
    <3>1. i - b.writer \in 1 .. Len(data)
      BY <1>1, <1>2, <2>1
    <3> QED BY <2>1, <3>1
  <2>2. CASE i \notin b.writer + 1 .. end
    BY <1>1, <1>3, <2>2, BufferAssumption
  <2> QED BY <2>1, <2>2
<1>6. cells \in Seq(Byte) /\ Len(cells) = all /\ \A i \in 1 .. all : cells[i] = cell(i)
  <2> HIDE DEF cell
  <2> QED BY <1>3, <1>5
<1> HIDE DEF cells
<1>7. b \in Buffer
  BY DEF Fits
<1>8. w.writer = end /\ w.cells = cells /\ w.reader = b.reader /\ w \in Buffer
  <2> HIDE DEF end
  <2> QED BY <1>2, <1>4, <1>6, <1>7, Zenon DEF Buffer
<1>9. \A i \in 1 .. b.writer : cells[i] = b.cells[i]
  <2> SUFFICES ASSUME NEW i \in 1 .. b.writer PROVE cells[i] = b.cells[i]
    OBVIOUS
  <2>1. i \in 1 .. all /\ i \notin b.writer + 1 .. end /\ i <= Len(b.cells)
    <3> HIDE DEF end
    <3> QED BY <1>1, <1>2, <1>3
  <2>2. cell(i) = b.cells[i]
    BY <2>1
  <2> HIDE DEF cell
  <2> QED BY <1>6, <2>1, <2>2
<1>10. \A i \in 1 .. Len(data) : cells[b.writer + i] = data[i]
  <2> SUFFICES ASSUME NEW i \in 1 .. Len(data) PROVE cells[b.writer + i] = data[i]
    OBVIOUS
  <2>1. /\ b.writer + i \in b.writer + 1 .. end /\ b.writer + i \in 1 .. all
        /\ (b.writer + i) - b.writer = i
    BY <1>1, <1>2, <1>3
  <2> QED BY <1>6, <2>1
<1>11. Fits(w)
  BY <1>1, <1>2, <1>6, <1>8 DEF Fits, all
<1>12. /\ Fits(w) /\ w.reader = b.reader /\ w.writer = b.writer + Len(data)
       /\ \A i \in 1 .. b.writer : w.cells[i] = b.cells[i]
       /\ \A i \in 1 .. Len(data) : w.cells[b.writer + i] = data[i]
  BY <1>8, <1>9, <1>10, <1>11
<1> QED BY <1>12 DEF w

\* A read that stays behind the writer, whether blocks are given back or not.
LEMMA AdvancedFits ==
  ASSUME NEW b, Fits(b), NEW n \in Nat, b.reader + n <= b.writer
  PROVE  LET a == Advanced(b, n)
         IN /\ Fits(a) /\ a.writer - a.reader = b.writer - (b.reader + n)
            /\ \A i \in 1 .. a.writer - a.reader : a.cells[a.reader + i] = b.cells[b.reader + n + i]
            /\ Front(b, n) = SubSeq(b.cells, b.reader + 1, b.reader + n)
<1> DEFINE end == b.reader + n
           B == BLOCK_SIZE
           gone == Gone(b, end)
           a == Advanced(b, n)
<1>1. /\ b.cells \in Seq(Byte) /\ b.writer \in Nat /\ b.reader \in Nat
      /\ Len(b.cells) \in Nat /\ b.writer < Len(b.cells) /\ b.reader <= b.writer
      /\ \A i \in 1 .. Len(b.cells) : b.cells[i] \in Byte
  BY FitsFacts
<1>2. end \in Nat /\ b.reader <= end /\ end <= b.writer /\ B \in Nat \ {0}
  BY <1>1, BufferAssumption
<1>3. Readable(b, n) = n
  BY <1>1, <1>2 DEF Readable
<1>4. \E j \in Nat : gone = B * j
  <2> DEFINE q == end \div B
             r == b.reader \div B
  <2>1. /\ q \in Nat /\ r \in Nat /\ BlockStart(end) = B * q /\ BlockStart(b.reader) = B * r
        /\ B * q \in Nat /\ B * r \in Nat /\ B * r <= b.reader /\ end < B * q + B
    <3> HIDE DEF end
    <3> QED BY <1>1, <1>2, BlockBounds DEF BlockStart
  <2> HIDE DEF q, r, B
  <2>2. ~(q + 1 <= r)
    <3> SUFFICES ASSUME q + 1 <= r PROVE FALSE
      OBVIOUS
    <3>1. B * q + B <= B * r
      BY <1>2, <2>1, Product
    <3> DEFINE x == B * q
               y == B * r
    <3>2. x \in Nat /\ y \in Nat /\ x + B <= y /\ y <= b.reader /\ end < x + B
      BY <2>1, <3>1
    <3> HIDE DEF end, x, y
    <3> QED BY <1>1, <1>2, <3>2
  <2>3. q - r \in Nat /\ B * (q - r) = B * q - B * r
    BY <1>2, <2>1, <2>2
  <2>4. B * 0 = 0
    BY <1>2
  <2> HIDE DEF end
  <2> QED BY <2>1, <2>3, <2>4 DEF Gone
<1>5. PICK j \in Nat : gone = B * j
  BY <1>4
<1>6. gone \in Nat /\ gone <= end
  <2>1. BlockStart(end) \in Nat /\ BlockStart(end) <= end /\ BlockStart(b.reader) \in Nat
    <3> HIDE DEF end
    <3> QED BY <1>1, <1>2, BlockBounds
  <2>2. gone \in Nat
    <3> HIDE DEF gone
    <3> QED BY <1>2, <1>5
  <2> HIDE DEF end
  <2> QED BY <1>2, <2>1, <2>2 DEF Gone
<1>7. WriterAfter(b.writer, gone) = b.writer - gone
  <2> HIDE DEF gone, end
  <2> QED BY <1>1, <1>2, <1>6 DEF WriterAfter
<1>8. a = [b EXCEPT !.reader = end - gone, !.writer = b.writer - gone,
                    !.cells = SubSeq(b.cells, gone + 1, Len(b.cells))]
  BY <1>3, <1>7 DEF Advanced
<1> DEFINE cells == SubSeq(b.cells, gone + 1, Len(b.cells))
<1> HIDE DEF a, gone, end, B
<1>9. /\ cells \in Seq(Byte) /\ Len(cells) = Len(b.cells) - gone
      /\ \A i \in 1 .. Len(b.cells) - gone : cells[i] = b.cells[gone + i]
  <2> DEFINE m == gone + 1
             k == Len(b.cells)
  <2>1. m \in Int /\ k \in Int /\ \A i \in m .. k : b.cells[i] \in Byte
    BY <1>1, <1>6
  <2>2. /\ SubSeq(b.cells, m, k) \in Seq(Byte)
        /\ Len(SubSeq(b.cells, m, k)) = IF m <= k THEN k - m + 1 ELSE 0
        /\ \A i \in 1 .. k - m + 1 : SubSeq(b.cells, m, k)[i] = b.cells[m + i - 1]
    <3> HIDE DEF m, k
    <3> QED BY <2>1, SubSeqProperties
  <2>3. m <= k /\ k - m + 1 = Len(b.cells) - gone
    BY <1>1, <1>2, <1>6
  <2>4. \A i \in 1 .. Len(b.cells) - gone : m + i - 1 = gone + i
    BY <1>6
  <2> QED BY <2>2, <2>3, <2>4
<1> HIDE DEF cells
<1>10. end - gone \in Nat /\ b.writer - gone \in Nat /\ end - gone <= b.writer - gone
  BY <1>1, <1>2, <1>6
<1>11. /\ a \in Buffer /\ a.reader = end - gone /\ a.writer = b.writer - gone /\ a.cells = cells
  <2>1. b \in Buffer
    BY DEF Fits
  <2> QED BY <1>8, <1>9, <1>10, <2>1, Zenon DEF Buffer, cells
<1>12. Len(a.cells) = BlockEnd(a.writer)
  <2>1. BlockStart(b.writer - gone) = BlockStart(b.writer) - gone
    <3>1. BLOCK_SIZE * j = gone
      BY <1>5 DEF B
    <3>2. BLOCK_SIZE * j <= b.writer
      BY <1>1, <1>2, <1>6, <3>1
    <3>3. BlockStart(b.writer - BLOCK_SIZE * j) = BlockStart(b.writer) - BLOCK_SIZE * j
      BY <1>1, <3>2, BlockShift
    <3> QED BY <3>1, <3>3
  <2>2. BlockStart(b.writer) \in Nat
    BY <1>1, BlockBounds
  <2>3. Len(b.cells) = BlockStart(b.writer) + BLOCK_SIZE
    BY DEF Fits, BlockEnd
  <2> QED BY <1>2, <1>6, <1>9, <1>11, <2>1, <2>2, <2>3 DEF BlockEnd, B
<1>13. Fits(a)
  BY <1>10, <1>11, <1>12 DEF Fits
<1>14. a.writer - a.reader = b.writer - end
  BY <1>1, <1>2, <1>6, <1>11
<1>15. \A i \in 1 .. a.writer - a.reader : a.cells[a.reader + i] = b.cells[end + i]
  <2> SUFFICES ASSUME NEW i \in 1 .. b.writer - end PROVE cells[(end - gone) + i] = b.cells[end + i]
    BY <1>11, <1>14
  <2>1. (end - gone) + i \in 1 .. Len(b.cells) - gone /\ gone + ((end - gone) + i) = end + i
    BY <1>1, <1>2, <1>6
  <2> QED BY <1>9, <2>1
<1>16. Front(b, n) = SubSeq(b.cells, b.reader + 1, b.reader + n)
  BY <1>3 DEF Front
<1> QED BY <1>13, <1>14, <1>15, <1>16 DEF a, end

-----------------------------------------------------------------------------
(* The buffer's theorems.                                                  *)

\* What write(), read() and move keep: whole blocks, the writer in the last.
BufferInv == overrun \in BOOLEAN /\ (~overrun => Fits(buffer))

\* It holds of a new buffer.
LEMMA BufferInitInv == BufferInit => BufferInv
BY EmptyFits DEF BufferInit, BufferInv

\* A buffer that is copied has its reader where it was, and the same bytes.
LEMMA MovedFits ==
  ASSUME NEW b, Fits(b)
  PROVE  Fits(Moved(b)) /\ PendingOf(Moved(b)) = PendingOf(b)
<1> DEFINE data == getBytes(b)
           w == Written(EmptyBuffer, data)
           v == Moved(b)
<1>1. /\ b.writer \in Nat /\ b.reader \in Nat /\ b.writer < Len(b.cells) /\ b.reader <= b.writer
      /\ Len(b.cells) \in Nat /\ \A i \in 1 .. Len(b.cells) : b.cells[i] \in Byte
  BY FitsFacts
<1>2. /\ data \in Seq(Byte) /\ Len(data) = b.writer
      /\ \A i \in 1 .. b.writer : data[i] = b.cells[i]
  <2>1. \A i \in 1 .. b.writer : b.cells[i] \in Byte
    BY <1>1
  <2>2. /\ SubSeq(b.cells, 1, b.writer) \in Seq(Byte)
        /\ Len(SubSeq(b.cells, 1, b.writer)) = IF 1 <= b.writer THEN b.writer - 1 + 1 ELSE 0
        /\ \A i \in 1 .. b.writer - 1 + 1 : SubSeq(b.cells, 1, b.writer)[i] = b.cells[1 + i - 1]
    BY <1>1, <2>1, SubSeqProperties
  <2> QED BY <1>1, <2>2 DEF getBytes
<1> HIDE DEF data
<1>3. /\ Fits(w) /\ w.reader = 0 /\ w.writer = b.writer
      /\ \A i \in 1 .. b.writer : w.cells[i] = b.cells[i]
  <2>1. /\ Fits(w) /\ w.reader = EmptyBuffer.reader /\ w.writer = EmptyBuffer.writer + Len(data)
        /\ \A i \in 1 .. Len(data) : w.cells[EmptyBuffer.writer + i] = data[i]
    BY <1>2, EmptyFits, WrittenFits
  <2>2. \A i \in 1 .. b.writer : 0 + i = i
    BY <1>1
  <2> QED BY <1>1, <1>2, <2>1, <2>2, EmptyFits
<1>4. v = [w EXCEPT !.reader = b.reader]
  BY DEF Moved, data, getReaderPointer
<1> HIDE DEF w, v
<1>5. v \in Buffer /\ v.reader = b.reader /\ v.writer = w.writer /\ v.cells = w.cells
  <2>1. w \in Buffer
    BY <1>3 DEF Fits
  <2> QED BY <1>1, <1>4, <2>1, Zenon DEF Buffer
<1>6. Fits(v)
  BY <1>1, <1>3, <1>5 DEF Fits
<1>7. PendingOf(v) = PendingOf(b)
  <2>1. /\ PendingOf(v) \in Seq(Byte) /\ Len(PendingOf(v)) = b.writer - b.reader
        /\ \A i \in 1 .. b.writer - b.reader : PendingOf(v)[i] = w.cells[b.reader + i]
    BY <1>3, <1>5, <1>6, PendingFacts
  <2>2. /\ PendingOf(b) \in Seq(Byte) /\ Len(PendingOf(b)) = b.writer - b.reader
        /\ \A i \in 1 .. b.writer - b.reader : PendingOf(b)[i] = b.cells[b.reader + i]
    BY PendingFacts
  <2>3. ASSUME NEW i \in 1 .. b.writer - b.reader
        PROVE  w.cells[b.reader + i] = b.cells[b.reader + i]
    <3>1. b.reader + i \in 1 .. b.writer
      BY <1>1
    <3> QED BY <1>3, <3>1
  <2> QED BY <2>1, <2>2, <2>3, SeqEqual
<1> QED BY <1>6, <1>7 DEF v

\* What is behind a read that was covered is what was pending behind it.
LEMMA ReadPending ==
  ASSUME NEW b, Fits(b), NEW n \in Nat, b.reader + n <= b.writer
  PROVE  /\ n <= Len(PendingOf(b))
         /\ PendingOf(Advanced(b, n)) = SubSeq(PendingOf(b), n + 1, Len(PendingOf(b)))
         /\ Front(b, n) = SubSeq(PendingOf(b), 1, n)
<1> DEFINE a == Advanced(b, n)
           p == PendingOf(b)
           k == b.writer - (b.reader + n)
           l == b.writer - b.reader
<1>1. /\ Fits(a) /\ a.writer - a.reader = k
      /\ \A i \in 1 .. k : a.cells[a.reader + i] = b.cells[b.reader + n + i]
      /\ Front(b, n) = SubSeq(b.cells, b.reader + 1, b.reader + n)
  BY AdvancedFits
<1>2. /\ b.writer \in Nat /\ b.reader \in Nat /\ b.writer < Len(b.cells) /\ b.reader <= b.writer
      /\ Len(b.cells) \in Nat /\ \A i \in 1 .. Len(b.cells) : b.cells[i] \in Byte
  BY FitsFacts
<1>3. k \in Nat /\ l \in Nat /\ l - n = k /\ n <= l
  BY <1>2
<1>4. p \in Seq(Byte) /\ Len(p) = l /\ \A i \in 1 .. l : p[i] = b.cells[b.reader + i]
  BY PendingFacts
<1>5. /\ PendingOf(a) \in Seq(Byte) /\ Len(PendingOf(a)) = k
      /\ \A i \in 1 .. k : PendingOf(a)[i] = b.cells[b.reader + n + i]
  BY <1>1, PendingFacts
<1> HIDE DEF a, p
<1>6. PendingOf(a) = SubSeq(p, n + 1, l)
  <2>1. \A i \in n + 1 .. l : p[i] \in Byte
    BY <1>3, <1>4
  <2>2. /\ SubSeq(p, n + 1, l) \in Seq(Byte)
        /\ Len(SubSeq(p, n + 1, l)) = IF n + 1 <= l THEN l - (n + 1) + 1 ELSE 0
        /\ \A i \in 1 .. l - (n + 1) + 1 : SubSeq(p, n + 1, l)[i] = p[(n + 1) + i - 1]
    <3> HIDE DEF l
    <3> QED BY <1>3, <2>1, SubSeqProperties
  <2>3. Len(SubSeq(p, n + 1, l)) = k /\ l - (n + 1) + 1 = k
    <3> HIDE DEF l, k
    <3> QED BY <1>3, <2>2
  <2>4. ASSUME NEW i \in 1 .. k PROVE SubSeq(p, n + 1, l)[i] = PendingOf(a)[i]
    <3>1. (n + 1) + i - 1 \in 1 .. l /\ b.reader + ((n + 1) + i - 1) = b.reader + n + i
      BY <1>2, <1>3
    <3>2. SubSeq(p, n + 1, l)[i] = p[(n + 1) + i - 1]
      BY <2>2, <2>3
    <3> QED BY <1>4, <1>5, <3>1, <3>2
  <2> HIDE DEF l, k
  <2> QED BY <1>5, <2>2, <2>3, <2>4, SeqEqual
<1>7. Front(b, n) = SubSeq(p, 1, n)
  <2> DEFINE s == SubSeq(b.cells, b.reader + 1, b.reader + n)
             t == SubSeq(p, 1, n)
  <2>1. /\ s \in Seq(Byte)
        /\ Len(s) = IF b.reader + 1 <= b.reader + n THEN (b.reader + n) - (b.reader + 1) + 1 ELSE 0
        /\ \A i \in 1 .. (b.reader + n) - (b.reader + 1) + 1 : s[i] = b.cells[(b.reader + 1) + i - 1]
    <3>1. \A i \in b.reader + 1 .. b.reader + n : b.cells[i] \in Byte
      BY <1>2
    <3>2. b.reader + 1 \in Int /\ b.reader + n \in Int
      BY <1>2
    <3> QED BY <3>1, <3>2, SubSeqProperties
  <2>2. /\ t \in Seq(Byte) /\ Len(t) = IF 1 <= n THEN n - 1 + 1 ELSE 0
        /\ \A i \in 1 .. n - 1 + 1 : t[i] = p[1 + i - 1]
    <3>1. \A i \in 1 .. n : p[i] \in Byte
      BY <1>3, <1>4
    <3> QED BY <3>1, SubSeqProperties
  <2> HIDE DEF s, t
  <2>3. Len(s) = n /\ Len(t) = n
    BY <1>2, <2>1, <2>2
  <2>4. ASSUME NEW i \in 1 .. n PROVE s[i] = t[i]
    <3>1. /\ i \in 1 .. (b.reader + n) - (b.reader + 1) + 1 /\ (b.reader + 1) + i - 1 = b.reader + i
          /\ i \in 1 .. n - 1 + 1 /\ 1 + i - 1 = i /\ i \in 1 .. l
      BY <1>2, <1>3
    <3> QED BY <1>4, <2>1, <2>2, <3>1
  <2>5. s = t
    BY <2>1, <2>2, <2>3, <2>4, SeqEqual
  <2> QED BY <1>1, <2>5 DEF s, t
<1> QED BY <1>3, <1>4, <1>6, <1>7 DEF a, p

\* A read overruns exactly when the writer is behind its end.
LEMMA ReadOverrun ==
  ASSUME Fits(buffer), NEW n \in Nat, Read(n)
  PROVE  overrun' = IF buffer.reader + n <= buffer.writer THEN FALSE ELSE TRUE
<1>1. (buffer.reader + n > buffer.writer) <=> ~(buffer.reader + n <= buffer.writer)
  BY FitsFacts
<1>2. overrun' = (buffer.reader + n > buffer.writer)
  BY Zenon DEF Read
<1>3. (buffer.reader + n > buffer.writer) \in BOOLEAN
  BY SMT
<1> QED BY <1>1, <1>2, <1>3, Zenon

\* Every call keeps it.
LEMMA BufferNextInv == BufferInv /\ [BufferNext]_bufferVars => BufferInv'
<1> SUFFICES ASSUME BufferInv, [BufferNext]_bufferVars PROVE BufferInv'
  OBVIOUS
<1>1. ASSUME ~overrun, NEW data \in Seq(Byte), Write(data) PROVE BufferInv'
  <2>1. Fits(Written(buffer, data))
    BY <1>1, WrittenFits DEF BufferInv
  <2> QED BY <1>1, <2>1 DEF Write, BufferInv
<1>2. ASSUME ~overrun, NEW n \in Nat, Read(n) PROVE BufferInv'
  <2>1. overrun' = IF buffer.reader + n <= buffer.writer THEN FALSE ELSE TRUE
    BY <1>2, ReadOverrun DEF BufferInv
  <2>2. overrun' \in BOOLEAN
    BY <2>1, Zenon
  <2>3. ASSUME ~overrun' PROVE Fits(buffer')
    <3>1. buffer.reader + n <= buffer.writer
      BY <2>1, <2>3, Zenon
    <3>2. buffer' = Advanced(buffer, n)
      BY <1>2 DEF Read
    <3> QED BY <1>2, <3>1, <3>2, AdvancedFits DEF BufferInv
  <2> QED BY <2>2, <2>3 DEF BufferInv
<1>3. ASSUME ~overrun, clear PROVE BufferInv'
  <2>1. /\ buffer'.cells = EmptyBuffer.cells /\ buffer'.writer = EmptyBuffer.writer
        /\ buffer'.reader = EmptyBuffer.reader /\ buffer' \in Buffer
    <3>1. EmptyBuffer \in Buffer /\ buffer \in Buffer
      BY <1>3, EmptyFits DEF Fits, BufferInv
    <3> QED BY <1>3, <3>1, Zenon DEF clear, Buffer
  <2>2. Fits(buffer')
    BY <2>1, EmptyFits DEF Fits
  <2> QED BY <1>3, <2>2 DEF clear, BufferInv
<1>4. ASSUME ~overrun, toggleBlockRecycle PROVE BufferInv'
  <2>1. /\ buffer'.cells = buffer.cells /\ buffer'.writer = buffer.writer
        /\ buffer'.reader = buffer.reader /\ buffer' \in Buffer
    <3>1. buffer \in Buffer
      BY <1>4 DEF Fits, BufferInv
    <3> QED BY <1>4, <3>1, Zenon DEF toggleBlockRecycle, Buffer
  <2>2. Fits(buffer')
    BY <1>4, <2>1 DEF Fits, BufferInv
  <2> QED BY <1>4, <2>2 DEF toggleBlockRecycle, BufferInv
<1>5. ASSUME ~overrun, Move PROVE BufferInv'
  <2>1. Fits(Moved(buffer))
    BY <1>5, MovedFits DEF BufferInv
  <2> QED BY <1>5, <2>1 DEF Move, BufferInv
<1>6. ASSUME UNCHANGED bufferVars PROVE BufferInv'
  BY <1>6 DEF bufferVars, BufferInv
<1> QED BY <1>1, <1>2, <1>3, <1>4, <1>5, <1>6 DEF BufferNext

\* However blocks are added, given back and copied, write()'s last block is there.
THEOREM WriterCorrect == BufferSpec => []WriterInLastBlock
<1>1. BufferInit => BufferInv
  BY BufferInitInv
<1>2. BufferInv /\ [BufferNext]_bufferVars => BufferInv'
  BY BufferNextInv
<1>3. BufferInv => WriterInLastBlock
  BY DEF BufferInv, Fits, WriterInLastBlock
<1> QED BY <1>1, <1>2, <1>3, PTL DEF BufferSpec

\* Every step of the buffer is one of the queue, or none: bytes come out in the
\* order they went in, none twice and none left out, whatever the block size.
THEOREM BufferImplementsQueue == BufferSpec => ByteQueue
<1> DEFINE queue == IF overrun THEN <<>> ELSE Pending
           queueVars == <<queue, got, overrun>>
<1>1. BufferInit => Queue!Init
  <2> SUFFICES ASSUME BufferInit PROVE Queue!Init
    OBVIOUS
  <2>1. Pending = <<>>
    <3>1. Len(PendingOf(EmptyBuffer)) = 0 - 0 /\ PendingOf(EmptyBuffer) \in Seq(Byte)
      BY EmptyFits, PendingFacts
    <3>2. PendingOf(EmptyBuffer) = <<>>
      BY <3>1
    <3> QED BY <3>2 DEF BufferInit, Pending, PendingOf
  <2> QED BY <2>1 DEF BufferInit, Queue!Init
<1>2. BufferInv /\ [BufferNext]_bufferVars => [Queue!Next]_queueVars
  <2> SUFFICES ASSUME BufferInv, [BufferNext]_bufferVars PROVE [Queue!Next]_queueVars
    OBVIOUS
  <2>0. Pending = PendingOf(buffer) /\ Pending' = PendingOf(buffer')
    BY DEF Pending, PendingOf
  <2>1. ASSUME ~overrun, NEW data \in Seq(Byte), Write(data) PROVE Queue!Next
    <3> DEFINE b == buffer
               w == Written(b, data)
               p == PendingOf(b)
               r == PendingOf(w)
    <3>1. Fits(b)
      BY <2>1 DEF BufferInv
    <3>2. /\ Fits(w) /\ w.reader = b.reader /\ w.writer = b.writer + Len(data)
          /\ \A i \in 1 .. b.writer : w.cells[i] = b.cells[i]
      BY <3>1, WrittenFits
    <3>3. b.writer \in Nat /\ b.reader \in Nat /\ b.reader <= b.writer /\ Len(data) \in Nat
      BY <3>1, FitsFacts
    <3>4. /\ p \in Seq(Byte) /\ Len(p) = b.writer - b.reader
          /\ \A i \in 1 .. b.writer - b.reader : p[i] = b.cells[b.reader + i]
      BY <3>1, PendingFacts
    <3>5. /\ r \in Seq(Byte) /\ Len(r) = w.writer - w.reader
          /\ \A i \in 1 .. w.writer - w.reader : r[i] = w.cells[w.reader + i]
      BY <3>2, PendingFacts
    <3> HIDE DEF b, w, p, r
    <3>6. Len(r) >= Len(p) /\ Len(p) \in Nat
      BY <3>2, <3>3, <3>4, <3>5
    <3>7. \A i \in 1 .. Len(p) : r[i] = p[i]
      <4> SUFFICES ASSUME NEW i \in 1 .. Len(p) PROVE r[i] = p[i]
        OBVIOUS
      <4>1. i \in 1 .. w.writer - w.reader /\ b.reader + i \in 1 .. b.writer
        BY <3>2, <3>3, <3>4
      <4> QED BY <3>2, <3>4, <3>5, <4>1
    <3>8. SubSeq(r, 1, Len(p)) = p
      <4> DEFINE n == Len(p)
                 s == SubSeq(r, 1, n)
      <4>1. \A i \in 1 .. n : r[i] \in Byte
        BY <3>4, <3>7
      <4>2. /\ s \in Seq(Byte) /\ Len(s) = IF 1 <= n THEN n - 1 + 1 ELSE 0
            /\ \A i \in 1 .. n - 1 + 1 : s[i] = r[1 + i - 1]
        <5> HIDE DEF n
        <5> QED BY <3>6, <4>1, SubSeqProperties DEF n
      <4> HIDE DEF s
      <4>3. Len(s) = n /\ \A i \in 1 .. n : s[i] = r[i]
        BY <3>6, <4>2
      <4> QED BY <3>4, <3>7, <4>2, <4>3, SeqEqual DEF s
    <3>9. queue = p /\ queue' = r /\ overrun' = overrun /\ got' = got
      BY <2>0, <2>1 DEF Write, b, w, p, r
    <3> HIDE DEF queue
    <3>10. Queue!Put
      BY <3>6, <3>8, <3>9 DEF Queue!Put, queue
    <3> QED BY <2>1, <3>10 DEF Queue!Next
  <2>2. ASSUME ~overrun, NEW n \in Nat, Read(n) PROVE Queue!Next
    <3>1. /\ Fits(buffer)
          /\ overrun' = IF buffer.reader + n <= buffer.writer THEN FALSE ELSE TRUE
      BY <2>2, ReadOverrun DEF BufferInv
    <3>2. CASE buffer.reader + n <= buffer.writer
      <4>1. /\ n <= Len(PendingOf(buffer))
            /\ PendingOf(Advanced(buffer, n)) = SubSeq(PendingOf(buffer), n + 1, Len(PendingOf(buffer)))
            /\ Front(buffer, n) = SubSeq(PendingOf(buffer), 1, n)
        BY <3>1, <3>2, ReadPending
      <4>2. overrun = FALSE /\ overrun' = FALSE
        BY <2>2, <3>1, <3>2, Zenon DEF BufferInv
      <4>3. Len(PendingOf(buffer)) \in Nat
        BY <3>1, PendingFacts
      <4>4. /\ queue = PendingOf(buffer) /\ queue' = PendingOf(Advanced(buffer, n))
            /\ got' = Front(buffer, n) /\ overrun' = overrun
        <5>1. buffer' = Advanced(buffer, n) /\ got' = Front(buffer, n)
          BY <2>2 DEF Read
        <5> QED BY <2>0, <4>2, <5>1, Zenon
      <4>5. n \in 0 .. Len(PendingOf(buffer))
        BY <4>1, <4>3
      <4> HIDE DEF queue
      <4>6. Queue!Get
        BY <4>1, <4>4, <4>5 DEF Queue!Get, queue
      <4> QED BY <2>2, <4>6 DEF Queue!Next
    <3>3. CASE ~(buffer.reader + n <= buffer.writer)
      <4>1. overrun' = TRUE
        BY <3>1, <3>3, Zenon
      <4> QED BY <2>2, <4>1 DEF Queue!Next, Queue!Leave
    <3> QED BY <3>2, <3>3
  <2>3. ASSUME ~overrun, clear PROVE Queue!Next
    <3>1. /\ buffer'.cells = EmptyBuffer.cells /\ buffer'.writer = EmptyBuffer.writer
          /\ buffer'.reader = EmptyBuffer.reader
      <4>1. EmptyBuffer \in Buffer /\ buffer \in Buffer
        BY <2>3, EmptyFits DEF Fits, BufferInv
      <4> QED BY <2>3, <4>1, Zenon DEF clear, Buffer
    <3>2. PendingOf(buffer') = PendingOf(EmptyBuffer)
      BY <3>1 DEF PendingOf
    <3>3. PendingOf(EmptyBuffer) = <<>>
      <4>1. Len(PendingOf(EmptyBuffer)) = 0 - 0 /\ PendingOf(EmptyBuffer) \in Seq(Byte)
        BY EmptyFits, PendingFacts
      <4> QED BY <4>1
    <3>4. queue' = <<>> /\ got' = <<>> /\ overrun' = overrun
      BY <2>0, <2>3, <3>2, <3>3 DEF clear
    <3> HIDE DEF queue
    <3>5. Queue!Forget
      BY <3>4 DEF Queue!Forget, queue
    <3> QED BY <2>3, <3>5 DEF Queue!Next
  <2>4. ASSUME ~overrun, toggleBlockRecycle PROVE UNCHANGED queueVars
    <3>1. /\ buffer'.cells = buffer.cells /\ buffer'.writer = buffer.writer
          /\ buffer'.reader = buffer.reader
      <4>1. buffer \in Buffer
        BY <2>4 DEF Fits, BufferInv
      <4> QED BY <2>4, <4>1, Zenon DEF toggleBlockRecycle, Buffer
    <3>2. PendingOf(buffer') = PendingOf(buffer)
      BY <3>1 DEF PendingOf
    <3> QED BY <2>0, <2>4, <3>2 DEF toggleBlockRecycle
  <2>5. ASSUME ~overrun, Move PROVE UNCHANGED queueVars
    <3>1. PendingOf(Moved(buffer)) = PendingOf(buffer)
      BY <2>5, MovedFits DEF BufferInv
    <3> QED BY <2>0, <2>5, <3>1 DEF Move
  <2>6. ASSUME UNCHANGED bufferVars PROVE UNCHANGED queueVars
    BY <2>6 DEF bufferVars, Pending
  <2> QED BY <2>1, <2>2, <2>3, <2>4, <2>5, <2>6 DEF BufferNext
<1>3. BufferInit => BufferInv
  BY BufferInitInv
<1>4. BufferInv /\ [BufferNext]_bufferVars => BufferInv'
  BY BufferNextInv
<1> QED BY <1>1, <1>2, <1>3, <1>4, PTL DEF BufferSpec, ByteQueue, Queue!QueueSpec

-----------------------------------------------------------------------------
(* Greatest and least.                                                     *)

\* A set of numbers with a bound has a greatest one.
LEMMA GreatestExists ==
  ASSUME NEW n \in Nat, NEW S \in SUBSET (0 .. n - 1), S # {}
  PROVE  \E x \in S : \A y \in S : y <= x
<1> DEFINE P == {k \in Nat : \A T \in SUBSET (0 .. k - 1) : T # {} => \E x \in T : \A y \in T : y <= x}
<1>1. 0 \in P
  <2>1. \A T \in SUBSET (0 .. 0 - 1) : T = {}
    OBVIOUS
  <2> QED BY <2>1
<1>2. ASSUME NEW k \in Nat, k \in P PROVE k + 1 \in P
  <2> SUFFICES ASSUME NEW T \in SUBSET (0 .. (k + 1) - 1), T # {}
               PROVE  \E x \in T : \A y \in T : y <= x
    OBVIOUS
  <2>1. CASE k \in T
    <3>1. \A y \in T : y <= k
      OBVIOUS
    <3> QED BY <2>1, <3>1
  <2>2. CASE k \notin T
    <3>1. T \in SUBSET (0 .. k - 1)
      BY <2>2
    <3> QED BY <1>2, <3>1
  <2> QED BY <2>1, <2>2
<1> HIDE DEF P
<1>3. P = Nat
  <2>1. P \in SUBSET Nat
    BY DEF P
  <2> QED BY <1>1, <1>2, <2>1, Induction
<1> QED BY <1>3 DEF P

\* GreatestOf is it, and NPOS of no numbers.
LEMMA GreatestIs ==
  ASSUME NEW n \in Nat, NEW S \in SUBSET (0 .. n - 1)
  PROVE  /\ S = {} => GreatestOf(S) = NPOS
         /\ S # {} => GreatestOf(S) \in S /\ \A y \in S : y <= GreatestOf(S)
         /\ GreatestOf(S) \in Nat \cup {NPOS}
<1>1. S = {} => GreatestOf(S) = NPOS
  BY DEF GreatestOf
<1>2. ASSUME S # {} PROVE GreatestOf(S) \in S /\ \A y \in S : y <= GreatestOf(S)
  <2>1. \E x \in S : \A y \in S : x >= y
    BY <1>2, GreatestExists
  <2>2. GreatestOf(S) = CHOOSE x \in S : \A y \in S : x >= y
    BY <1>2 DEF GreatestOf
  <2> QED BY <2>1, <2>2
<1>3. GreatestOf(S) \in Nat \cup {NPOS}
  <2>1. S \in SUBSET Nat
    OBVIOUS
  <2> QED BY <1>1, <1>2, <2>1, Zenon
<1> QED BY <1>1, <1>2, <1>3, Zenon

\* What no other number of a set exceeds is what GreatestOf chooses.
LEMMA GreatestUnique ==
  ASSUME NEW S \in SUBSET Nat, NEW x \in S, \A y \in S : y <= x
  PROVE  GreatestOf(S) = x
<1>1. GreatestOf(S) = CHOOSE z \in S : \A y \in S : z >= y
  BY DEF GreatestOf
<1>2. \E z \in S : \A y \in S : z >= y
  OBVIOUS
<1>3. PICK g \in S : GreatestOf(S) = g /\ g >= x
  BY <1>1, <1>2
<1>4. g \in Nat /\ x \in Nat /\ g <= x
  OBVIOUS
<1> QED BY <1>3, <1>4

\* Any set of numbers has a least one, which LeastOf is.
LEMMA LeastIs ==
  ASSUME NEW S \in SUBSET Nat, NEW none_, S # {}
  PROVE  LeastOf(S, none_) \in S /\ \A y \in S : LeastOf(S, none_) <= y
<1>1. \E x \in S : \A y \in S : x <= y
  <2>1. IsWellFoundedOn(OpToRel(<, Nat), Nat)
    BY NatLessThanWellFounded
  <2>2. OpToRel(<, Nat) = {ss \in Nat \X Nat : ss[1] < ss[2]}
    BY DEF OpToRel
  <2>3. PICK x \in S : \A y \in S : ~ (<<y, x>> \in OpToRel(<, Nat))
    BY <2>1, WFMin
  <2>4. ASSUME NEW y \in S PROVE x <= y
    <3>1. <<y, x>>[1] = y /\ <<y, x>>[2] = x /\ x \in Nat /\ y \in Nat
      OBVIOUS
    <3>2. ~(y < x)
      BY <2>2, <2>3, <3>1
    <3> QED BY <3>1, <3>2
  <2> QED BY <2>4
<1> QED BY <1>1 DEF LeastOf

-----------------------------------------------------------------------------
(* The bits in words.                                                      *)

\* The words of a BitSet, the bits they hold, and whether they hold one.
Words == Seq(SUBSET (0 .. WordBits - 1))
Held(data) == SetBits([data |-> data, highest |-> NPOS])
Has(data, pos) == pos \div WordBits < Len(data) /\ pos % WordBits \in data[pos \div WordBits + 1]

\* A word is made of whole bytes.
LEMMA Widths == WordBits \in Nat \ {0} /\ OctetBits \in Nat \ {0} /\ WordBits % OctetBits = 0
BY BitSetAssumption

\* A position is so many whole words and a bit of the next.
LEMMA Place ==
  ASSUME NEW pos \in Nat
  PROVE  /\ pos \div WordBits \in Nat /\ pos % WordBits \in 0 .. WordBits - 1
         /\ pos = WordBits * (pos \div WordBits) + (pos % WordBits)
BY Widths, Division

\* get() finds the bits the words have.
LEMMA GetHas ==
  ASSUME NEW b, b.data \in Words, NEW pos \in Nat
  PROVE  get(b, pos) <=> Has(b.data, pos)
<1>1. pos < WordBits * Len(b.data) <=> pos \div WordBits < Len(b.data)
  <2>1. Len(b.data) \in Nat
    BY DEF Words
  <2> QED BY Widths, <2>1, QuotientBelow
<1> QED BY <1>1 DEF get, Room, Has

\* The bits of a BitSet are those its words have, and depend on nothing else.
LEMMA SetBitsHas ==
  ASSUME NEW b, b.data \in Words
  PROVE  /\ SetBits(b) = {pos \in Nat : Has(b.data, pos)}
         /\ SetBits(b) = Held(b.data)
         /\ SetBits(b) \in SUBSET (0 .. Room(b) - 1) /\ Room(b) \in Nat
<1>1. Room(b) \in Nat /\ Room(b) = WordBits * Len(b.data)
  BY Widths DEF Room, Words
<1>2. SetBits(b) = Held(b.data)
  BY DEF SetBits, Held, get, Room
<1>3. SetBits(b) = {pos \in 0 .. Room(b) - 1 : get(b, pos)}
  BY DEF SetBits
<1>4. ASSUME NEW pos \in Nat, Has(b.data, pos) PROVE pos \in 0 .. Room(b) - 1 /\ get(b, pos)
  <2>1. get(b, pos)
    BY <1>4, GetHas
  <2>2. pos < Room(b)
    BY <2>1 DEF get
  <2> QED BY <1>1, <2>1, <2>2
<1>5. ASSUME NEW pos \in SetBits(b) PROVE pos \in Nat /\ Has(b.data, pos)
  <2>1. pos \in Nat /\ get(b, pos)
    BY <1>1, <1>3
  <2> QED BY <2>1, GetHas
<1>6. SetBits(b) = {pos \in Nat : Has(b.data, pos)}
  BY <1>3, <1>4, <1>5
<1> QED BY <1>1, <1>2, <1>3, <1>6

\* findHighestSet finds the greatest of the bits words have.
LEMMA HeldHas ==
  ASSUME NEW data \in Words
  PROVE  /\ Held(data) = {pos \in Nat : Has(data, pos)}
         /\ Held(data) \in SUBSET (0 .. WordBits * Len(data) - 1) /\ WordBits * Len(data) \in Nat
         /\ findHighestSet(data) = GreatestOf(Held(data))
<1> DEFINE b == [data |-> data, highest |-> NPOS]
<1>1. b.data = data
  OBVIOUS
<1>2. Room(b) = WordBits * Len(data)
  BY DEF Room
<1> HIDE DEF b
<1>3. Held(data) = SetBits(b)
  BY DEF Held, b
<1>4. SetBits(b) = {pos \in Nat : Has(b.data, pos)} /\ SetBits(b) \in SUBSET (0 .. Room(b) - 1) /\ Room(b) \in Nat
  BY <1>1, SetBitsHas
<1> QED BY <1>1, <1>2, <1>3, <1>4 DEF findHighestSet, b

\* What a BitSet is: words, and the greatest of the bits they hold.
LEMMA BitSetIs ==
  ASSUME NEW b \in BitSets
  PROVE  /\ b.data \in Words /\ b.highest \in Nat \cup {NPOS}
         /\ b = [data |-> b.data, highest |-> b.highest]
         /\ SetBits(b) = {pos \in Nat : Has(b.data, pos)}
         /\ b.highest = GreatestOf(SetBits(b))
         /\ SetBits(b) = {} => b.highest = NPOS
         /\ SetBits(b) # {} => b.highest \in SetBits(b) /\ \A pos \in SetBits(b) : pos <= b.highest
<1>1. b.data \in Words /\ b.highest \in Nat \cup {NPOS} /\ b = [data |-> b.data, highest |-> b.highest]
      /\ b.highest = findHighestSet(b.data)
  BY DEF BitSets, Words
<1>2. SetBits(b) = {pos \in Nat : Has(b.data, pos)} /\ SetBits(b) = Held(b.data)
  BY <1>1, SetBitsHas
<1>3. b.highest = GreatestOf(SetBits(b))
  BY <1>1, <1>2, HeldHas
<1>4. SetBits(b) \in SUBSET (0 .. Room(b) - 1) /\ Room(b) \in Nat
  BY <1>1, SetBitsHas
<1>5. /\ SetBits(b) = {} => b.highest = NPOS
      /\ SetBits(b) # {} => b.highest \in SetBits(b) /\ \A pos \in SetBits(b) : pos <= b.highest
  BY <1>3, <1>4, GreatestIs
<1> QED BY <1>1, <1>2, <1>3, <1>5

\* Words beside the greatest of their bits are a BitSet.
LEMMA BitSetMade ==
  ASSUME NEW data \in Words, NEW h, h = GreatestOf(Held(data))
  PROVE  /\ [data |-> data, highest |-> h] \in BitSets
         /\ SetBits([data |-> data, highest |-> h]) = {pos \in Nat : Has(data, pos)}
<1>1. h = findHighestSet(data) /\ h \in Nat \cup {NPOS}
  BY HeldHas, GreatestIs
<1>2. [data |-> data, highest |-> h] \in BitSets
  BY <1>1 DEF BitSets, Words
<1> QED BY <1>2, BitSetIs

\* So is what the operators on two bit sets make.
LEMMA CombinedIs ==
  ASSUME NEW data \in Words
  PROVE  Combined(data) \in BitSets /\ SetBits(Combined(data)) = {pos \in Nat : Has(data, pos)}
BY BitSetMade, HeldHas DEF Combined

-----------------------------------------------------------------------------
(* What the operations do to the bits.                                     *)

\* Words are a sequence of sets of bits.
LEMMA WordsFacts ==
  ASSUME NEW data \in Words
  PROVE  /\ Len(data) \in Nat /\ DOMAIN data = 1 .. Len(data)
         /\ \A i \in 1 .. Len(data) : data[i] \in SUBSET (0 .. WordBits - 1)
BY DEF Words

\* A position is its word and its place in it.
LEMMA SamePlace ==
  ASSUME NEW p \in Nat, NEW q \in Nat, p \div WordBits = q \div WordBits, p % WordBits = q % WordBits
  PROVE  p = q
<1>1. /\ p = WordBits * (p \div WordBits) + (p % WordBits)
      /\ q = WordBits * (q \div WordBits) + (q % WordBits)
  BY Place
<1> QED BY <1>1

\* Equal words hold equal bits, and words behind the last may be there or not.
LEMMA SameHeld ==
  ASSUME NEW c \in Words, NEW d \in Words, \A pos \in Nat : Has(c, pos) <=> Has(d, pos)
  PROVE  Held(c) = Held(d)
<1>1. Held(c) = {pos \in Nat : Has(c, pos)} /\ Held(d) = {pos \in Nat : Has(d, pos)}
  BY HeldHas
<1> QED BY <1>1

\* Another word in one place changes the bits of that word only.
LEMMA WordChanged ==
  ASSUME NEW data \in Words, NEW pos \in Nat, pos \div WordBits < Len(data),
         NEW w \in SUBSET (0 .. WordBits - 1)
  PROVE  LET new == [data EXCEPT ![pos \div WordBits + 1] = w]
         IN /\ new \in Words
            /\ \A p \in Nat : Has(new, p) <=> IF p \div WordBits = pos \div WordBits
                                              THEN p % WordBits \in w ELSE Has(data, p)
<1> DEFINE k == pos \div WordBits
           new == [data EXCEPT ![k + 1] = w]
<1>1. k \in Nat /\ k + 1 \in 1 .. Len(data)
  <2>1. k \in Nat /\ Len(data) \in Nat
    BY Place, WordsFacts
  <2> HIDE DEF k
  <2> QED BY <2>1 DEF k
<1>2. new \in Words /\ Len(new) = Len(data)
  BY <1>1 DEF Words
<1>3. \A i \in 1 .. Len(data) : new[i] = IF i = k + 1 THEN w ELSE data[i]
  BY <1>1 DEF Words
<1>4. ASSUME NEW p \in Nat
      PROVE  Has(new, p) <=> IF p \div WordBits = k THEN p % WordBits \in w ELSE Has(data, p)
  <2> DEFINE l == p \div WordBits
             m == p % WordBits
  <2>1. l \in Nat /\ Len(data) \in Nat
    BY Place, WordsFacts
  <2>2. Has(new, p) <=> l < Len(data) /\ m \in new[l + 1]
    BY <1>2 DEF Has
  <2>3. Has(data, p) <=> l < Len(data) /\ m \in data[l + 1]
    BY DEF Has
  <2> HIDE DEF l, m, k, new
  <2>4. CASE l = k
    <3>1. l < Len(data) /\ new[l + 1] = w
      BY <1>1, <1>3, <2>1, <2>4
    <3>2. (p \div WordBits = k) <=> TRUE
      BY <2>4 DEF l
    <3> QED BY <2>2, <3>1, <3>2 DEF m
  <2>5. CASE l # k
    <3>1. ASSUME l < Len(data) PROVE new[l + 1] = data[l + 1]
      <4>1. l + 1 \in 1 .. Len(data) /\ l + 1 # k + 1
        BY <1>1, <2>1, <2>5, <3>1
      <4> QED BY <1>3, <4>1
    <3>2. ~(p \div WordBits = k)
      BY <2>5 DEF l
    <3> QED BY <2>2, <2>3, <3>1, <3>2
  <2> QED BY <2>4, <2>5
<1> HIDE DEF k
<1> QED BY <1>2, <1>4 DEF k

\* Words without bits, put behind the others, change no bits.
LEMMA ResizedHas ==
  ASSUME NEW data \in Words, NEW n \in Int
  PROVE  LET longer == data \o [i \in 1 .. n |-> {}]
         IN /\ longer \in Words /\ Len(longer) >= Len(data) /\ Len(longer) >= Len(data) + n
            /\ \A p \in Nat : Has(longer, p) <=> Has(data, p)
<1> DEFINE more == [i \in 1 .. n |-> {}]
           longer == data \o more
           l == IF n > 0 THEN n ELSE 0
<1>1. l \in Nat /\ 1 .. n = 1 .. l
  OBVIOUS
<1>2. more \in Words /\ Len(more) = l /\ \A i \in 1 .. l : more[i] = {}
  <2>1. more = [i \in 1 .. l |-> {}]
    BY <1>1
  <2> HIDE DEF l, more
  <2> QED BY <1>1, <2>1 DEF Words
<1> HIDE DEF more, l
<1>3. /\ longer \in Words /\ Len(longer) = Len(data) + l
      /\ \A i \in 1 .. Len(data) + l : longer[i] = IF i <= Len(data) THEN data[i] ELSE more[i - Len(data)]
  BY <1>1, <1>2, ConcatProperties DEF Words
<1>4. Len(data) \in Nat
  BY DEF Words
<1>5. ASSUME NEW p \in Nat PROVE Has(longer, p) <=> Has(data, p)
  <2> DEFINE k == p \div WordBits
             m == p % WordBits
  <2>1. k \in Nat
    BY Place
  <2>2. Has(longer, p) <=> k < Len(longer) /\ m \in longer[k + 1]
    BY DEF Has
  <2>3. Has(data, p) <=> k < Len(data) /\ m \in data[k + 1]
    BY DEF Has
  <2> HIDE DEF k, m, longer
  <2>4. CASE k < Len(data)
    <3>1. k + 1 \in 1 .. Len(data) + l /\ k + 1 <= Len(data) /\ k < Len(longer)
      BY <1>1, <1>3, <1>4, <2>1, <2>4
    <3>2. longer[k + 1] = data[k + 1]
      BY <1>3, <3>1
    <3> QED BY <2>2, <2>3, <2>4, <3>1, <3>2
  <2>5. CASE ~(k < Len(data))
    <3>1. ASSUME k < Len(longer) PROVE longer[k + 1] = {}
      <4>1. /\ k + 1 \in 1 .. Len(data) + l /\ ~(k + 1 <= Len(data))
            /\ k + 1 - Len(data) \in 1 .. l
        BY <1>1, <1>3, <1>4, <2>1, <2>5, <3>1
      <4> QED BY <1>2, <1>3, <4>1
    <3> QED BY <2>2, <2>3, <2>5, <3>1
  <2> QED BY <2>4, <2>5
<1>6. Len(longer) >= Len(data) /\ Len(longer) >= Len(data) + n
  BY <1>3, <1>4 DEF l
<1> QED BY <1>3, <1>5, <1>6 DEF longer, more

\* set() adds its bit, whether or not there was a word for it.
LEMMA SetSets ==
  ASSUME NEW b \in BitSets, NEW pos \in Nat
  PROVE  set(b, pos) \in BitSets /\ SetBits(set(b, pos)) = SetBits(b) \cup {pos}
<1> DEFINE k == pos \div WordBits
           m == pos % WordBits
           S == SetBits(b)
           data == b.data \o [i \in 1 .. k + 1 - Len(b.data) |-> {}]
           new == [data EXCEPT ![k + 1] = @ \cup {m}]
           h == IF b.highest = NPOS \/ pos > b.highest THEN pos ELSE b.highest
           r == [data |-> data, highest |-> b.highest]
<1>1. /\ b.data \in Words /\ b.highest \in Nat \cup {NPOS}
      /\ b = [data |-> b.data, highest |-> b.highest]
      /\ S = {p \in Nat : Has(b.data, p)} /\ b.highest = GreatestOf(S)
      /\ S = {} => b.highest = NPOS
      /\ S # {} => b.highest \in S /\ \A p \in S : p <= b.highest
  BY BitSetIs
<1>2. k \in Nat /\ m \in 0 .. WordBits - 1 /\ Len(b.data) \in Nat
  BY <1>1, Place DEF Words
<1>3. k + 1 - Len(b.data) \in Int
  BY <1>2
<1>4. /\ data \in Words /\ Len(data) >= Len(b.data) + (k + 1 - Len(b.data))
      /\ \A p \in Nat : Has(data, p) <=> Has(b.data, p)
  <2> DEFINE n == k + 1 - Len(b.data)
  <2> HIDE DEF n
  <2>1. n \in Int
    BY <1>3 DEF n
  <2>2. LET longer == b.data \o [i \in 1 .. n |-> {}]
        IN /\ longer \in Words /\ Len(longer) >= Len(b.data) + n
           /\ \A p \in Nat : Has(longer, p) <=> Has(b.data, p)
    BY <1>1, <2>1, ResizedHas
  <2> QED BY <2>2 DEF n
<1>5. k < Len(data)
  <2>1. Len(data) \in Nat
    <3> HIDE DEF data
    <3> QED BY <1>4, WordsFacts
  <2> HIDE DEF data, k
  <2> QED BY <1>2, <1>4, <2>1
<1>6. Resized(b, pos) = r
  <2>1. Resized(b, pos) = [b EXCEPT !.data = data]
    BY DEF Resized
  <2> HIDE DEF data
  <2> QED BY <1>1, <2>1
<1> HIDE DEF data
<1>7. r \in BitSets /\ SetBits(r) = S
  <2>1. Held(data) = S
    BY <1>1, <1>4, HeldHas
  <2> HIDE DEF S
  <2> QED BY <1>1, <1>4, <2>1, HeldHas, BitSetMade
<1>8. get(r, pos) <=> pos \in S
  <2>1. get(r, pos) <=> Has(data, pos)
    BY <1>4, GetHas
  <2> QED BY <1>1, <1>4, <2>1
<1>9. CASE get(r, pos)
  <2>1. set(b, pos) = r
    BY <1>6, <1>9 DEF set
  <2> QED BY <1>7, <1>8, <1>9, <2>1
<1>10. CASE ~get(r, pos)
  <2>1. set(b, pos) = [data |-> new, highest |-> h]
    <3>1. [r EXCEPT !.data[k + 1] = @ \cup {m}] = [data |-> new, highest |-> b.highest]
      <4>1. r.data = data /\ r.highest = b.highest /\ DOMAIN r = {"data", "highest"}
        OBVIOUS
      <4>2. [r EXCEPT !.data[k + 1] = @ \cup {m}] = [r EXCEPT !.data = [r.data EXCEPT ![k + 1] = r.data[k + 1] \cup {m}]]
        <5> HIDE DEF r, k, m
        <5> QED OBVIOUS
      <4> HIDE DEF k, m
      <4> QED BY <4>1, <4>2
    <3>2. set(b, pos) = Raised([data |-> new, highest |-> b.highest], pos)
      BY <1>6, <1>10, <3>1 DEF set
    <3> HIDE DEF new
    <3> QED BY <3>2 DEF Raised
  <2>2. k + 1 \in 1 .. Len(data) /\ data[k + 1] \in SUBSET (0 .. WordBits - 1)
    <3> HIDE DEF k
    <3> QED BY <1>2, <1>4, <1>5 DEF Words
  <2>3. /\ new \in Words
        /\ \A p \in Nat : Has(new, p) <=> IF p \div WordBits = k
                                          THEN p % WordBits \in data[k + 1] \cup {m} ELSE Has(data, p)
    <3> DEFINE w == data[k + 1] \cup {m}
    <3>1. w \in SUBSET (0 .. WordBits - 1) /\ new = [data EXCEPT ![pos \div WordBits + 1] = w]
      BY <1>2, <2>2
    <3>2. \A p \in Nat : Has(new, p) <=> IF p \div WordBits = k THEN p % WordBits \in w ELSE Has(data, p)
      <4> HIDE DEF w
      <4> QED BY <1>4, <1>5, <3>1, WordChanged
    <3>3. new \in Words
      <4> HIDE DEF w
      <4> QED BY <1>4, <1>5, <3>1, WordChanged
    <3> QED BY <3>2, <3>3
  <2>4. ASSUME NEW p \in Nat PROVE Has(new, p) <=> p \in S \cup {pos}
    <3>1. p \in S <=> Has(data, p)
      BY <1>1, <1>4
    <3>2. CASE p \div WordBits = k
      <4>1. Has(data, p) <=> p % WordBits \in data[k + 1]
        <5> HIDE DEF k
        <5> QED BY <1>5, <3>2 DEF Has
      <4>2. p % WordBits = m <=> p = pos
        BY <3>2, SamePlace
      <4> QED BY <2>3, <3>1, <3>2, <4>1, <4>2
    <3>3. CASE p \div WordBits # k
      <4>1. p # pos
        BY <3>3
      <4> QED BY <2>3, <3>1, <3>3, <4>1
    <3> QED BY <3>2, <3>3
  <2>5. Held(new) = S \cup {pos}
    <3>1. Held(new) = {p \in Nat : Has(new, p)} /\ S \in SUBSET Nat
      BY <1>1, <2>3, HeldHas
    <3> HIDE DEF S, new
    <3> QED BY <2>4, <3>1
  <2>6. h = GreatestOf(S \cup {pos})
    <3>1. h \in S \cup {pos} /\ \A p \in S \cup {pos} : p <= h
      <4>1. CASE S = {}
        BY <1>1, <4>1
      <4>2. CASE S # {}
        <5>1. b.highest \in S /\ b.highest \in Nat /\ \A p \in S : p \in Nat /\ p <= b.highest
          BY <1>1, <4>2
        <5>2. b.highest # NPOS
          BY <5>1 DEF NPOS
        <5> HIDE DEF S
        <5> QED BY <5>1, <5>2
      <4> QED BY <4>1, <4>2
    <3>2. S \cup {pos} \in SUBSET Nat
      BY <1>1
    <3> HIDE DEF S, h
    <3> QED BY <3>1, <3>2, GreatestUnique
  <2> HIDE DEF S, h, new
  <2>7. [data |-> new, highest |-> h] \in BitSets
    BY <2>3, <2>5, <2>6, BitSetMade
  <2>8. SetBits([data |-> new, highest |-> h]) = S \cup {pos}
    <3>1. SetBits([data |-> new, highest |-> h]) = {p \in Nat : Has(new, p)}
      BY <2>3, <2>5, <2>6, BitSetMade
    <3>2. Held(new) = {p \in Nat : Has(new, p)}
      BY <2>3, HeldHas
    <3> QED BY <2>5, <3>1, <3>2
  <2> QED BY <2>1, <2>7, <2>8 DEF S
<1> QED BY <1>9, <1>10

\* clear() takes its bit away and finds the highest of the others.
LEMMA ClearClears ==
  ASSUME NEW b \in BitSets, NEW pos \in Nat
  PROVE  clearBit(b, pos) \in BitSets /\ SetBits(clearBit(b, pos)) = SetBits(b) \ {pos}
<1> DEFINE k == pos \div WordBits
           m == pos % WordBits
           S == SetBits(b)
           data == b.data
           w == data[k + 1] \ {m}
           new == [data EXCEPT ![k + 1] = w]
           h == IF pos = b.highest THEN findHighestSet(new) ELSE b.highest
<1>1. /\ data \in Words /\ b = [data |-> data, highest |-> b.highest]
      /\ S = {p \in Nat : Has(data, p)} /\ b.highest = GreatestOf(S)
      /\ S = {} => b.highest = NPOS
      /\ S # {} => b.highest \in S /\ \A p \in S : p <= b.highest
  BY BitSetIs
<1>2. get(b, pos) <=> pos \in S
  BY <1>1, GetHas
<1>3. CASE ~get(b, pos)
  BY <1>2, <1>3 DEF clearBit
<1>4. CASE get(b, pos)
  <2>1. k < Len(data) /\ w \in SUBSET (0 .. WordBits - 1)
    <3>1. k < Len(data) /\ k \in Nat /\ Len(data) \in Nat
      BY <1>1, <1>2, <1>4, Place, WordsFacts DEF Has
    <3>2. data[k + 1] \in SUBSET (0 .. WordBits - 1)
      <4> HIDE DEF k
      <4> QED BY <1>1, <3>1, WordsFacts
    <3> QED BY <3>1, <3>2
  <2>2. clearBit(b, pos) = [data |-> new, highest |-> h]
    <3>1. [b EXCEPT !.data[k + 1] = @ \ {m}] = [b EXCEPT !.data = [b.data EXCEPT ![k + 1] = b.data[k + 1] \ {m}]]
      <4> HIDE DEF k, m
      <4> QED OBVIOUS
    <3>2. [b EXCEPT !.data[k + 1] = @ \ {m}] = [data |-> new, highest |-> b.highest]
      <4> HIDE DEF k, m
      <4> QED BY <1>1, <3>1
    <3>3. clearBit(b, pos) = Lowered([data |-> new, highest |-> b.highest], pos)
      BY <1>4, <3>2 DEF clearBit
    <3> HIDE DEF new
    <3> QED BY <3>3 DEF Lowered
  <2>3. /\ new \in Words
        /\ \A p \in Nat : Has(new, p) <=> IF p \div WordBits = k THEN p % WordBits \in w ELSE Has(data, p)
    <3> HIDE DEF w
    <3> QED BY <1>1, <2>1, WordChanged
  <2>4. ASSUME NEW p \in Nat PROVE Has(new, p) <=> p \in S \ {pos}
    <3>1. p \in S <=> Has(data, p)
      BY <1>1
    <3>2. CASE p \div WordBits = k
      <4>1. Has(data, p) <=> p % WordBits \in data[k + 1]
        <5> HIDE DEF k
        <5> QED BY <2>1, <3>2 DEF Has
      <4>2. p % WordBits = m <=> p = pos
        BY <3>2, SamePlace
      <4> QED BY <2>3, <3>1, <3>2, <4>1, <4>2
    <3>3. CASE p \div WordBits # k
      <4>1. p # pos
        BY <3>3
      <4> QED BY <2>3, <3>1, <3>3, <4>1
    <3> QED BY <3>2, <3>3
  <2>5. Held(new) = S \ {pos}
    <3>1. Held(new) = {p \in Nat : Has(new, p)} /\ S \in SUBSET Nat
      BY <1>1, <2>3, HeldHas
    <3> HIDE DEF S, new
    <3> QED BY <2>4, <3>1
  <2>6. h = GreatestOf(Held(new))
    <3>1. CASE pos = b.highest
      BY <2>3, <3>1, HeldHas
    <3>2. CASE pos # b.highest
      <4>1. b.highest \in S \ {pos} /\ \A p \in S \ {pos} : p <= b.highest
        BY <1>1, <1>2, <1>4, <3>2
      <4>2. S \ {pos} \in SUBSET Nat
        BY <1>1
      <4> HIDE DEF S
      <4>3. GreatestOf(S \ {pos}) = b.highest
        BY <4>1, <4>2, GreatestUnique
      <4> QED BY <2>5, <3>2, <4>3
    <3> QED BY <3>1, <3>2
  <2> HIDE DEF S, h, new
  <2>7. [data |-> new, highest |-> h] \in BitSets
    BY <2>3, <2>6, BitSetMade
  <2>8. SetBits([data |-> new, highest |-> h]) = S \ {pos}
    <3>1. SetBits([data |-> new, highest |-> h]) = {p \in Nat : Has(new, p)}
      BY <2>3, <2>6, BitSetMade
    <3>2. Held(new) = {p \in Nat : Has(new, p)}
      BY <2>3, HeldHas
    <3> QED BY <2>5, <3>1, <3>2
  <2> QED BY <2>2, <2>7, <2>8 DEF S
<1> QED BY <1>3, <1>4

\* flip() does the one or the other.
LEMMA FlipFlips ==
  ASSUME NEW b \in BitSets, NEW pos \in Nat
  PROVE  /\ flip(b, pos) \in BitSets
         /\ SetBits(flip(b, pos)) = IF pos \in SetBits(b) THEN SetBits(b) \ {pos} ELSE SetBits(b) \cup {pos}
<1>1. get(b, pos) <=> pos \in SetBits(b)
  BY BitSetIs, GetHas
<1> QED BY <1>1, SetSets, ClearClears DEF flip

\* A bit of a BitSet is one of its word there, also behind the last word.
LEMMA InWord ==
  ASSUME NEW b \in BitSets, NEW p \in Nat
  PROVE  p \in SetBits(b) <=> p % WordBits \in Word(b, p \div WordBits + 1)
<1>1. p \in SetBits(b) <=> Has(b.data, p)
  BY BitSetIs
<1>2. p \div WordBits \in Nat /\ Len(b.data) \in Nat
  BY BitSetIs, Place, WordsFacts
<1>3. p \div WordBits < Len(b.data) <=> p \div WordBits + 1 <= Len(b.data)
  BY <1>2
<1> QED BY <1>1, <1>3 DEF Has, Word

\* A word has bits, behind the last none.
LEMMA WordIs ==
  ASSUME NEW b \in BitSets, NEW i \in Nat \ {0}
  PROVE  Word(b, i) \in SUBSET (0 .. WordBits - 1) /\ (i > Len(b.data) => Word(b, i) = {})
<1>1. b.data \in Words
  BY BitSetIs
<1> QED BY <1>1, WordsFacts DEF Word

\* The word of a bit below n words is one of them.
LEMMA WordIndex ==
  ASSUME NEW p \in Nat, NEW n \in Nat, p \div WordBits < n
  PROVE  p \div WordBits + 1 \in 1 .. n
<1> DEFINE k == p \div WordBits
<1>1. k \in Nat /\ k < n
  BY Place
<1> HIDE DEF k
<1>2. k + 1 \in 1 .. n
  BY <1>1
<1> QED BY <1>2 DEF k

\* Words that are computed one by one.
LEMMA Wordwise ==
  ASSUME NEW d \in Words, NEW S \in SUBSET Nat,
         \A p \in Nat : p \div WordBits < Len(d) => (p \in S <=> p % WordBits \in d[p \div WordBits + 1]),
         \A p \in S : p \div WordBits < Len(d)
  PROVE  Combined(d) \in BitSets /\ SetBits(Combined(d)) = S
<1>1. Combined(d) \in BitSets /\ SetBits(Combined(d)) = {p \in Nat : Has(d, p)}
  BY CombinedIs
<1>2. \A p \in Nat : Has(d, p) <=> p \in S
  BY DEF Has
<1> HIDE DEF Words
<1>3. {p \in Nat : Has(d, p)} = S
  BY <1>2
<1> QED BY <1>1, <1>3

\* A bit that is set has a word.
LEMMA HasRoom ==
  ASSUME NEW b \in BitSets, NEW p \in SetBits(b)
  PROVE  p \in Nat /\ p \div WordBits \in Nat /\ p \div WordBits < Len(b.data) /\ Len(b.data) \in Nat
BY BitSetIs, Place, WordsFacts DEF Has

\* andNot() takes away the other's bits.
LEMMA AndNotIs ==
  ASSUME NEW b \in BitSets, NEW c \in BitSets
  PROVE  andNot(b, c) \in BitSets /\ SetBits(andNot(b, c)) = SetBits(b) \ SetBits(c)
<1> DEFINE d == [i \in 1 .. Len(b.data) |-> b.data[i] \ Word(c, i)]
           S == SetBits(b) \ SetBits(c)
<1>1. b.data \in Words /\ Len(b.data) \in Nat
  BY BitSetIs, WordsFacts
<1>2. d \in Words /\ Len(d) = Len(b.data)
  <2>1. \A i \in 1 .. Len(b.data) : b.data[i] \ Word(c, i) \in SUBSET (0 .. WordBits - 1)
    BY <1>1, WordsFacts
  <2> QED BY <1>1, <2>1 DEF Words
<1>3. ASSUME NEW p \in Nat, p \div WordBits < Len(d)
      PROVE  p \in S <=> p % WordBits \in d[p \div WordBits + 1]
  <2> DEFINE j == p \div WordBits + 1
  <2>1. j \in 1 .. Len(b.data)
    BY <1>1, <1>2, <1>3, WordIndex
  <2>2. Word(b, j) = b.data[j] /\ d[j] = b.data[j] \ Word(c, j)
    <3> HIDE DEF j
    <3> QED BY <2>1 DEF Word
  <2> QED BY <2>2, InWord
<1>4. S \in SUBSET Nat /\ \A p \in S : p \div WordBits < Len(d)
  BY <1>2, HasRoom
<1> HIDE DEF d, S
<1>5. Combined(d) \in BitSets /\ SetBits(Combined(d)) = S
  BY <1>2, <1>3, <1>4, Wordwise
<1> QED BY <1>5 DEF andNot, d, S

\* &= keeps the bits both have.
LEMMA IntersectIs ==
  ASSUME NEW b \in BitSets, NEW c \in BitSets
  PROVE  intersect(b, c) \in BitSets /\ SetBits(intersect(b, c)) = SetBits(b) \cap SetBits(c)
<1> DEFINE d == [i \in 1 .. Len(b.data) |-> b.data[i] \cap Word(c, i)]
           S == SetBits(b) \cap SetBits(c)
<1>1. b.data \in Words /\ Len(b.data) \in Nat
  BY BitSetIs, WordsFacts
<1>2. d \in Words /\ Len(d) = Len(b.data)
  <2>1. \A i \in 1 .. Len(b.data) : b.data[i] \cap Word(c, i) \in SUBSET (0 .. WordBits - 1)
    BY <1>1, WordsFacts
  <2> QED BY <1>1, <2>1 DEF Words
<1>3. ASSUME NEW p \in Nat, p \div WordBits < Len(d)
      PROVE  p \in S <=> p % WordBits \in d[p \div WordBits + 1]
  <2> DEFINE j == p \div WordBits + 1
  <2>1. j \in 1 .. Len(b.data)
    BY <1>1, <1>2, <1>3, WordIndex
  <2>2. Word(b, j) = b.data[j] /\ d[j] = b.data[j] \cap Word(c, j)
    <3> HIDE DEF j
    <3> QED BY <2>1 DEF Word
  <2> QED BY <2>2, InWord
<1>4. S \in SUBSET Nat /\ \A p \in S : p \div WordBits < Len(d)
  BY <1>2, HasRoom
<1> HIDE DEF d, S
<1>5. Combined(d) \in BitSets /\ SetBits(Combined(d)) = S
  BY <1>2, <1>3, <1>4, Wordwise
<1> QED BY <1>5 DEF intersect, d, S

\* The longer of two bit sets has room for the bits of both.
LEMMA LongerIs ==
  ASSUME NEW b \in BitSets, NEW c \in BitSets
  PROVE  /\ Longer(b, c) \in Nat /\ Longer(b, c) >= Len(b.data) /\ Longer(b, c) >= Len(c.data)
         /\ \A p \in SetBits(b) \cup SetBits(c) : p \in Nat /\ p \div WordBits < Longer(b, c)
<1>1. Len(b.data) \in Nat /\ Len(c.data) \in Nat
  BY BitSetIs, WordsFacts
<1>2. Longer(b, c) \in Nat /\ Longer(b, c) >= Len(b.data) /\ Longer(b, c) >= Len(c.data)
  BY <1>1 DEF Longer
<1>3. ASSUME NEW p \in SetBits(b) PROVE p \in Nat /\ p \div WordBits < Longer(b, c)
  <2>1. p \in Nat /\ p \div WordBits \in Nat /\ p \div WordBits < Len(b.data)
    BY HasRoom
  <2> DEFINE k == p \div WordBits
  <2> HIDE DEF k
  <2>2. k < Longer(b, c)
    BY <1>1, <1>2, <2>1 DEF k
  <2> QED BY <2>1, <2>2 DEF k
<1>4. ASSUME NEW p \in SetBits(c) PROVE p \in Nat /\ p \div WordBits < Longer(b, c)
  <2>1. p \in Nat /\ p \div WordBits \in Nat /\ p \div WordBits < Len(c.data)
    BY HasRoom
  <2> DEFINE k == p \div WordBits
  <2> HIDE DEF k
  <2>2. k < Longer(b, c)
    BY <1>1, <1>2, <2>1 DEF k
  <2> QED BY <2>1, <2>2 DEF k
<1> QED BY <1>2, <1>3, <1>4

\* |= has the bits of both, though one has fewer words.
LEMMA UniteIs ==
  ASSUME NEW b \in BitSets, NEW c \in BitSets
  PROVE  unite(b, c) \in BitSets /\ SetBits(unite(b, c)) = SetBits(b) \cup SetBits(c)
<1> DEFINE n == Longer(b, c)
           d == [i \in 1 .. n |-> Word(b, i) \cup Word(c, i)]
           S == SetBits(b) \cup SetBits(c)
<1>1. n \in Nat /\ \A p \in S : p \in Nat /\ p \div WordBits < n
  BY LongerIs
<1> HIDE DEF n
<1>2. d \in Words /\ Len(d) = n
  <2>1. \A i \in 1 .. n : Word(b, i) \cup Word(c, i) \in SUBSET (0 .. WordBits - 1)
    BY WordIs
  <2> QED BY <1>1, <2>1 DEF Words
<1>3. ASSUME NEW p \in Nat, p \div WordBits < Len(d)
      PROVE  p \in S <=> p % WordBits \in d[p \div WordBits + 1]
  <2> DEFINE j == p \div WordBits + 1
  <2>1. j \in 1 .. n
    BY <1>1, <1>2, <1>3, WordIndex
  <2>2. d[j] = Word(b, j) \cup Word(c, j)
    <3> HIDE DEF j
    <3> QED BY <2>1
  <2> QED BY <2>2, InWord
<1>4. S \in SUBSET Nat /\ \A p \in S : p \div WordBits < Len(d)
  BY <1>1, <1>2
<1> HIDE DEF d, S
<1>5. Combined(d) \in BitSets /\ SetBits(Combined(d)) = S
  BY <1>2, <1>3, <1>4, Wordwise
<1> QED BY <1>5 DEF unite, d, S, n

\* ^= has the bits of one or the other.
LEMMA DifferIs ==
  ASSUME NEW b \in BitSets, NEW c \in BitSets
  PROVE  /\ differ(b, c) \in BitSets
         /\ SetBits(differ(b, c)) = (SetBits(b) \ SetBits(c)) \cup (SetBits(c) \ SetBits(b))
<1> DEFINE n == Longer(b, c)
           d == [i \in 1 .. n |-> (Word(b, i) \ Word(c, i)) \cup (Word(c, i) \ Word(b, i))]
           S == (SetBits(b) \ SetBits(c)) \cup (SetBits(c) \ SetBits(b))
<1>1. n \in Nat /\ \A p \in S : p \in Nat /\ p \div WordBits < n
  BY LongerIs
<1> HIDE DEF n
<1>2. d \in Words /\ Len(d) = n
  <2>1. \A i \in 1 .. n : (Word(b, i) \ Word(c, i)) \cup (Word(c, i) \ Word(b, i)) \in SUBSET (0 .. WordBits - 1)
    BY WordIs
  <2> QED BY <1>1, <2>1 DEF Words
<1>3. ASSUME NEW p \in Nat, p \div WordBits < Len(d)
      PROVE  p \in S <=> p % WordBits \in d[p \div WordBits + 1]
  <2> DEFINE j == p \div WordBits + 1
  <2>1. j \in 1 .. n
    BY <1>1, <1>2, <1>3, WordIndex
  <2>2. d[j] = (Word(b, j) \ Word(c, j)) \cup (Word(c, j) \ Word(b, j))
    <3> HIDE DEF j
    <3> QED BY <2>1
  <2> QED BY <2>2, InWord
<1>4. S \in SUBSET Nat /\ \A p \in S : p \div WordBits < Len(d)
  BY <1>1, <1>2
<1> HIDE DEF d, S
<1>5. Combined(d) \in BitSets /\ SetBits(Combined(d)) = S
  BY <1>2, <1>3, <1>4, Wordwise
<1> QED BY <1>5 DEF differ, d, S, n

-----------------------------------------------------------------------------
(* The bit set's theorems.                                                 *)

\* A BitSet with its highest bit beside it, and the bits are those that should be set.
BitsInv == bits \in BitSets /\ SetBits(bits) = members

\* BitSet(n) has words and no bits.
LEMMA RoomIsEmpty ==
  ASSUME NEW n \in Nat
  PROVE  WithRoom(n) \in BitSets /\ SetBits(WithRoom(n)) = {}
<1> DEFINE l == (n + WordBits - 1) \div WordBits
           d == [i \in 1 .. l |-> {}]
<1>1. l \in Nat
  <2>1. n + WordBits - 1 \in Nat
    BY Widths
  <2> QED BY <2>1, Widths, Division
<1> HIDE DEF l
<1>2. d \in Words /\ Len(d) = l /\ \A i \in 1 .. l : d[i] = {}
  BY <1>1 DEF Words
<1>3. WithRoom(n) = [data |-> d, highest |-> NPOS]
  <2>1. WithRoom(n) = [EmptyBitSet EXCEPT !.data = d]
    BY DEF WithRoom, l
  <2> HIDE DEF d
  <2> QED BY <2>1 DEF EmptyBitSet
<1> HIDE DEF d
<1>4. \A p \in Nat : ~Has(d, p)
  BY <1>1, <1>2, WordIndex DEF Has
<1>5. Held(d) = {}
  BY <1>2, <1>4, HeldHas
<1>6. NPOS = GreatestOf(Held(d))
  BY <1>5 DEF GreatestOf
<1>7. /\ [data |-> d, highest |-> NPOS] \in BitSets
      /\ SetBits([data |-> d, highest |-> NPOS]) = {p \in Nat : Has(d, p)}
  BY <1>2, <1>6, BitSetMade
<1> QED BY <1>3, <1>4, <1>7

\* The invariant holds of a new BitSet.
LEMMA InitBits == BitsInit => BitsInv
BY RoomIsEmpty, BitsAssumption DEF BitsInit, BitsInv

\* Every call that changes a BitSet keeps it.
LEMMA NextBits == BitsInv /\ [BitsNext]_bitsVars => BitsInv'
<1> SUFFICES ASSUME BitsInv, [BitsNext]_bitsVars PROVE BitsInv'
  OBVIOUS
<1> USE DEF BitsInv
<1>1. ASSUME NEW pos \in Positions, SetBit(pos) PROVE BitsInv'
  BY <1>1, SetSets, BitsAssumption DEF SetBit
<1>2. ASSUME NEW pos \in Positions, ClearBit(pos) PROVE BitsInv'
  BY <1>2, ClearClears, BitsAssumption DEF ClearBit
<1>3. ASSUME NEW pos \in Positions, FlipBit(pos) PROVE BitsInv'
  BY <1>3, FlipFlips, BitsAssumption DEF FlipBit
<1>4. ASSUME NEW c \in Others, AndNot(c) PROVE BitsInv'
  BY <1>4, AndNotIs, BitsAssumption DEF AndNot
<1>5. ASSUME NEW c \in Others, Intersect(c) PROVE BitsInv'
  BY <1>5, IntersectIs, BitsAssumption DEF Intersect
<1>6. ASSUME NEW c \in Others, Unite(c) PROVE BitsInv'
  BY <1>6, UniteIs, BitsAssumption DEF Unite
<1>7. ASSUME NEW c \in Others, Differ(c) PROVE BitsInv'
  BY <1>7, DifferIs, BitsAssumption DEF Differ
<1>8. CASE UNCHANGED bitsVars
  BY <1>8 DEF bitsVars
<1> QED BY <1>1, <1>2, <1>3, <1>4, <1>5, <1>6, <1>7, <1>8 DEF BitsNext

\* A search for a set bit starts at the highest at the latest.
LEMMA NextSetBitIs ==
  ASSUME NEW b \in BitSets, NEW from \in Nat
  PROVE  nextSetBit(b, from) = LeastOf({pos \in SetBits(b) : pos >= from}, NPOS)
<1>1. CASE b.highest # NPOS /\ from > b.highest
  <2>1. {pos \in SetBits(b) : pos >= from} = {}
    <3>1. \A pos \in SetBits(b) : pos \in Nat /\ pos <= b.highest
      BY BitSetIs
    <3>2. b.highest \in Nat
      BY <1>1, BitSetIs
    <3> QED BY <1>1, <3>1, <3>2
  <2> QED BY <1>1, <2>1 DEF nextSetBit, LeastOf
<1>2. CASE ~(b.highest # NPOS /\ from > b.highest)
  BY <1>2 DEF nextSetBit
<1> QED BY <1>1, <1>2

\* A search for a clear bit passes set bits only, or starts behind the last word.
LEMMA NextClearBitIs ==
  ASSUME NEW b \in BitSets, NEW from \in Nat
  PROVE  IF from > Room(b) THEN nextClearBit(b, from) = Room(b)
         ELSE /\ nextClearBit(b, from) >= from /\ nextClearBit(b, from) \notin SetBits(b)
              /\ \A pos \in from .. nextClearBit(b, from) - 1 : pos \in SetBits(b)
<1> DEFINE r == Room(b)
           C == {pos \in 0 .. r - 1 : pos >= from /\ ~get(b, pos)}
           x == nextClearBit(b, from)
<1>1. /\ r \in Nat /\ SetBits(b) = {pos \in 0 .. r - 1 : get(b, pos)}
  BY BitSetIs, SetBitsHas DEF SetBits
<1>2. x = LeastOf(C, r)
  BY DEF nextClearBit
<1> HIDE DEF r, x
<1>3. C \in SUBSET Nat
  BY <1>1
<1>4. CASE C = {}
  <2>1. x = r
    BY <1>2, <1>4 DEF LeastOf
  <2>2. \A pos \in from .. r - 1 : pos \in SetBits(b)
    BY <1>1, <1>4
  <2>3. r \notin SetBits(b)
    BY <1>1
  <2> HIDE DEF C
  <2> QED BY <1>1, <2>1, <2>2, <2>3 DEF r, x
<1>5. CASE C # {}
  <2>1. x \in C /\ \A y \in C : x <= y
    <3> HIDE DEF C
    <3> QED BY <1>2, <1>3, <1>5, LeastIs
  <2>2. x \in 0 .. r - 1 /\ x >= from /\ x \notin SetBits(b)
    BY <1>1, <2>1
  <2>3. ASSUME NEW pos \in from .. x - 1 PROVE pos \in SetBits(b)
    <3>1. pos \in 0 .. r - 1 /\ pos >= from /\ ~(x <= pos)
      BY <1>1, <2>2
    <3>2. pos \notin C
      BY <2>1, <3>1
    <3> QED BY <1>1, <3>1, <3>2
  <2>4. ~(from > r)
    BY <1>1, <2>2
  <2> HIDE DEF C
  <2> QED BY <2>2, <2>3, <2>4 DEF x, r
<1> QED BY <1>4, <1>5

\* The invariant is all that the answers of a BitSet need.
LEMMA Agrees == BitsInv => AnswersAgree
<1> SUFFICES ASSUME BitsInv PROVE AnswersAgree
  OBVIOUS
<1>1. bits \in BitSets /\ SetBits(bits) = members
  BY DEF BitsInv
<1>2. /\ bits.highest = GreatestOf(members) /\ members \in SUBSET Nat
      /\ members = {} => bits.highest = NPOS
      /\ members # {} => bits.highest \in members
      /\ bits.highest \in Nat \cup {NPOS}
  BY <1>1, BitSetIs
<1>3. bitSize(bits) = GreatestOf(members) + 1
  BY <1>2 DEF bitSize
<1>4. count(bits) = Cardinality(members)
  BY <1>1 DEF count
<1>5. bits.highest = NPOS <=> members = {}
  BY <1>2 DEF NPOS
<1>6. any(bits) = (members # {}) /\ none(bits) = (members = {})
  BY <1>5, Zenon DEF any, none
<1>7. ASSUME NEW from \in Positions
      PROVE  /\ nextSetBit(bits, from) = LeastOf({pos \in members : pos >= from}, NPOS)
             /\ LET clear_ == nextClearBit(bits, from)
                IN IF from > Room(bits) THEN clear_ = Room(bits)
                   ELSE /\ clear_ >= from /\ clear_ \notin members
                        /\ \A pos \in from .. clear_ - 1 : pos \in members
  <2>1. from \in Nat
    BY BitsAssumption
  <2> QED BY <1>1, <2>1, NextSetBitIs, NextClearBitIs
<1> QED BY <1>1, <1>3, <1>4, <1>6, <1>7 DEF AnswersAgree

-----------------------------------------------------------------------------
(* The words and bytes a bit set is written as.                            *)

\* Two bit sets are equal when the same bits are set.
LEMMA EqualIs ==
  ASSUME NEW b \in BitSets, NEW c \in BitSets, SetBits(b) = SetBits(c)
  PROVE  equal(b, c)
<1> SUFFICES ASSUME NEW i \in 1 .. Longer(b, c) PROVE Word(b, i) = Word(c, i)
  BY DEF equal
<1>1. i \in Nat \ {0}
  BY LongerIs
<1>2. ASSUME NEW m \in 0 .. WordBits - 1 PROVE m \in Word(b, i) <=> m \in Word(c, i)
  <2> DEFINE p == WordBits * (i - 1) + m
  <2>1. i - 1 \in Nat /\ WordBits * (i - 1) \in Nat /\ m \in Nat
    BY <1>1, Widths
  <2>2. p \in Nat
    BY <2>1
  <2>3. p \div WordBits = i - 1 /\ p % WordBits = m
    BY <2>1, <2>2, Widths, DivisionUnique
  <2> HIDE DEF p
  <2>4. p \div WordBits + 1 = i
    BY <1>1, <2>3
  <2> QED BY <2>2, <2>3, <2>4, InWord
<1>3. Word(b, i) \in SUBSET (0 .. WordBits - 1) /\ Word(c, i) \in SUBSET (0 .. WordBits - 1)
  BY <1>1, WordIs
<1> QED BY <1>2, <1>3

\* Quotients grow with the number.
LEMMA QuotientGrows ==
  ASSUME NEW p \in Nat, NEW q \in Nat, p <= q, NEW c \in Nat \ {0}
  PROVE  p \div c <= q \div c
<1> DEFINE k == p \div c
           l == q \div c
<1>1. k \in Nat /\ l \in Nat
  BY Division
<1>2. q < c * (l + 1)
  BY <1>1, QuotientBelow
<1>3. c * (l + 1) \in Nat
  BY <1>1
<1>4. p < c * (l + 1)
  BY <1>2, <1>3
<1>5. k < l + 1
  BY <1>1, <1>4, QuotientBelow
<1> HIDE DEF k, l
<1>6. k <= l
  BY <1>1, <1>5
<1> QED BY <1>6 DEF k, l

\* The words up to the highest bit's have all bits.
LEMMA LongArrayKept ==
  ASSUME NEW b \in BitSets
  PROVE  LET c == fromLongArray(toLongArray(b)) IN c \in BitSets /\ SetBits(c) = SetBits(b)
<1> DEFINE S == SetBits(b)
           k == b.highest \div WordBits + 1
           d == toLongArray(b)
<1>1. /\ b.data \in Words /\ S = {p \in Nat : Has(b.data, p)}
      /\ S = {} => b.highest = NPOS
      /\ S # {} => b.highest \in S /\ \A p \in S : p <= b.highest
  BY BitSetIs
<1>2. CASE S = {}
  <2>1. d = <<>> /\ d \in Words /\ Len(d) = 0
    BY <1>1, <1>2 DEF toLongArray, none, Words
  <2>2. \A p \in Nat : ~(p \div WordBits < Len(d))
    <3>1. \A p \in Nat : p \div WordBits \in Nat
      BY Place
    <3> HIDE DEF d
    <3> QED BY <2>1, <3>1
  <2> HIDE DEF d
  <2>3. Combined(d) \in BitSets /\ SetBits(Combined(d)) = S
    <3>1. S \in SUBSET Nat /\ \A p \in S : p \div WordBits < Len(d)
      BY <1>2
    <3> HIDE DEF S
    <3> QED BY <2>1, <2>2, <3>1, Wordwise
  <2> QED BY <2>3 DEF fromLongArray, d, S
<1>3. CASE S # {}
  <2>1. b.highest \in S /\ b.highest \in Nat /\ b.highest # NPOS
    BY <1>1, <1>3 DEF NPOS
  <2>2. k \in 1 .. Len(b.data) /\ Len(b.data) \in Nat
    <3>1. b.highest \div WordBits < Len(b.data) /\ Len(b.data) \in Nat
      BY <2>1, HasRoom
    <3> QED BY <2>1, <3>1, WordIndex
  <2>3. d = SubSeq(b.data, 1, k)
    BY <2>1 DEF toLongArray, none
  <2> HIDE DEF k, d
  <2>4. d \in Words /\ Len(d) = k /\ \A i \in 1 .. k : d[i] = b.data[i]
    <3>1. \A i \in 1 .. k : b.data[i] \in SUBSET (0 .. WordBits - 1)
      BY <1>1, <2>2, WordsFacts
    <3>2. /\ SubSeq(b.data, 1, k) \in Seq(SUBSET (0 .. WordBits - 1))
          /\ Len(SubSeq(b.data, 1, k)) = IF 1 <= k THEN k - 1 + 1 ELSE 0
          /\ \A i \in 1 .. k - 1 + 1 : SubSeq(b.data, 1, k)[i] = b.data[1 + i - 1]
      BY <2>2, <3>1, SubSeqProperties
    <3>3. k - 1 + 1 = k /\ 1 <= k /\ \A i \in 1 .. k : 1 + i - 1 = i
      BY <2>2
    <3> QED BY <2>3, <3>2, <3>3 DEF Words
  <2>5. ASSUME NEW p \in Nat, p \div WordBits < Len(d)
        PROVE  p \in S <=> p % WordBits \in d[p \div WordBits + 1]
    <3> DEFINE j == p \div WordBits + 1
    <3>1. j \in 1 .. k
      BY <2>2, <2>4, <2>5, WordIndex
    <3>2. Word(b, j) = d[j]
      <4> HIDE DEF j
      <4>1. j <= Len(b.data) /\ d[j] = b.data[j]
        BY <2>2, <2>4, <3>1
      <4> QED BY <4>1 DEF Word
    <3> QED BY <3>2, InWord
  <2>6. ASSUME NEW p \in S PROVE p \div WordBits < Len(d)
    <3>1. p \in Nat /\ p <= b.highest
      BY <1>1, <2>6
    <3>2. p \div WordBits <= b.highest \div WordBits
      BY <2>1, <3>1, Widths, QuotientGrows
    <3>3. p \div WordBits \in Nat /\ b.highest \div WordBits \in Nat
      BY <2>1, <3>1, Place
    <3> DEFINE l == p \div WordBits
               h == b.highest \div WordBits
    <3> HIDE DEF l, h
    <3>4. l < h + 1
      BY <3>2, <3>3 DEF l, h
    <3>5. h + 1 = k
      BY DEF h, k
    <3> QED BY <2>4, <3>4, <3>5 DEF l
  <2>7. Combined(d) \in BitSets /\ SetBits(Combined(d)) = S
    <3>1. S \in SUBSET Nat
      BY <1>1
    <3> HIDE DEF S
    <3> QED BY <2>4, <2>5, <2>6, <3>1, Wordwise
  <2> QED BY <2>7 DEF fromLongArray, d, S
<1> QED BY <1>2, <1>3

\* As many of c as it takes for n.
LEMMA Ceiling ==
  ASSUME NEW n \in Nat, NEW c \in Nat \ {0}
  PROVE  LET q == (n + c - 1) \div c IN q \in Nat /\ c * q \in Nat /\ n <= c * q /\ c * q < n + c
<1> DEFINE x == n + c - 1
           q == x \div c
           r == x % c
<1>1. x \in Nat
  OBVIOUS
<1> HIDE DEF x
<1>2. q \in Nat /\ r \in 0 .. c - 1 /\ x = c * q + r
  BY <1>1, Division
<1> HIDE DEF q, r
<1>3. c * q \in Nat
  BY <1>2
<1> DEFINE y == c * q
<1> HIDE DEF y
<1>4. y \in Nat /\ n <= y /\ y < n + c
  BY <1>2, <1>3 DEF x, y
<1> QED BY <1>2, <1>4 DEF y, q, x

\* Bytes of a word.
Each == WordBits \div OctetBits

\* A word is so many bytes.
LEMMA EachIs == Each \in Nat \ {0} /\ WordBits = OctetBits * Each
<1> DEFINE e == WordBits \div OctetBits
<1>1. e \in Nat /\ WordBits = OctetBits * e + (WordBits % OctetBits)
  BY Widths, Division
<1>2. OctetBits * e \in Nat
  BY <1>1, Widths
<1>3. WordBits = OctetBits * e
  BY <1>1, <1>2, Widths
<1> HIDE DEF e
<1>4. e # 0
  BY <1>3, Widths
<1> QED BY <1>1, <1>3, <1>4 DEF e, Each

\* Which byte a bit is in, and where, as its word says it.
LEMMA OctetOf ==
  ASSUME NEW p \in Nat
  PROVE  /\ (p \div WordBits) * Each + ((p % WordBits) \div OctetBits) = p \div OctetBits
         /\ (p % WordBits) % OctetBits = p % OctetBits
<1> DEFINE k == p \div WordBits
           m == p % WordBits
           j == m \div OctetBits
           r == m % OctetBits
           x == k * Each + j
<1>1. k \in Nat /\ m \in Nat /\ p = WordBits * k + m
  BY Place
<1> HIDE DEF k, m
<1>2. j \in Nat /\ r \in 0 .. OctetBits - 1 /\ m = OctetBits * j + r
  BY <1>1, Widths, Division
<1> HIDE DEF j, r
<1>3. x \in Nat /\ k * Each \in Nat
  BY <1>1, <1>2, EachIs
<1>4. p = OctetBits * x + r
  <2>1. OctetBits * x = OctetBits * (k * Each) + OctetBits * j
    BY <1>2, <1>3, Widths
  <2>2. OctetBits * (k * Each) = WordBits * k
    BY <1>1, EachIs, Widths
  <2> DEFINE u == OctetBits * x
             v == WordBits * k
             y == OctetBits * j
  <2>3. u \in Nat /\ v \in Nat /\ y \in Nat /\ u = v + y /\ p = v + m /\ m = y + r
    BY <1>1, <1>2, <1>3, <2>1, <2>2, Widths
  <2> HIDE DEF u, v, y
  <2>4. p = u + r
    BY <1>2, <2>3
  <2> QED BY <2>4 DEF u
<1> HIDE DEF x
<1>5. p \div OctetBits = x /\ p % OctetBits = r
  BY <1>2, <1>3, <1>4, Widths, DivisionUnique
<1> QED BY <1>5 DEF x, j, r, k, m

\* The bytes have all bits but a highest that is the first of its byte.
LEMMA ByteArrayKept ==
  ASSUME NEW b \in BitSets
  PROVE  SetBits(fromByteArray(toByteArray(b))) =
           SetBits(b) \ {pos \in SetBits(b) : pos = b.highest /\ pos % OctetBits = 0}
<1> DEFINE S == SetBits(b)
           T == S \ {pos \in S : pos = b.highest /\ pos % OctetBits = 0}
           n == IF none(b) THEN 0 ELSE (b.highest + OctetBits - 1) \div OctetBits
           bytes == toByteArray(b)
           l == (n + Each - 1) \div Each
           at(i, k) == (i - 1) * Each + k \div OctetBits + 1
           w(i) == {k \in 0 .. WordBits - 1 : at(i, k) <= n /\ k % OctetBits \in bytes[at(i, k)]}
           d == [i \in 1 .. l |-> w(i)]
<1>1. /\ b.data \in Words /\ S = {p \in Nat : Has(b.data, p)} /\ b.highest \in Nat \cup {NPOS}
      /\ S = {} => b.highest = NPOS
      /\ S # {} => b.highest \in S /\ \A p \in S : p <= b.highest
  BY BitSetIs
<1>2. n \in Nat
  <2>1. CASE none(b)
    BY <2>1
  <2>2. CASE ~none(b)
    <3>1. b.highest \in Nat
      BY <1>1, <2>2 DEF none
    <3> QED BY <2>2, <3>1, Widths, Ceiling
  <2> QED BY <2>1, <2>2
<1>3. /\ bytes = [i \in 1 .. n |-> {j \in 0 .. OctetBits - 1 : get(b, (i - 1) * OctetBits + j)}]
      /\ Len(bytes) = n
  <2>1. bytes = [i \in 1 .. n |-> {j \in 0 .. OctetBits - 1 : get(b, (i - 1) * OctetBits + j)}]
    BY DEF toByteArray
  <2> HIDE DEF n, bytes
  <2> QED BY <1>2, <2>1
<1> HIDE DEF bytes
<1>4. fromByteArray(bytes) = Combined(d)
  BY <1>3 DEF fromByteArray, Each
<1> HIDE DEF n
<1>5. l \in Nat /\ Each * l \in Nat /\ n <= Each * l
  BY <1>2, EachIs, Ceiling
<1> HIDE DEF l, w
<1>6. d \in Words /\ Len(d) = l /\ \A i \in 1 .. l : d[i] = w(i)
  <2>1. \A i \in 1 .. l : w(i) \in SUBSET (0 .. WordBits - 1)
    BY DEF w
  <2> QED BY <1>5, <2>1 DEF Words
<1> HIDE DEF d
<1>7. ASSUME NEW p \in Nat, p \div WordBits < Len(d)
      PROVE  p % WordBits \in d[p \div WordBits + 1] <=> p \div OctetBits < n /\ p \in S
  <2> DEFINE k == p \div WordBits
             m == p % WordBits
             x == p \div OctetBits
             r == p % OctetBits
  <2>1. k + 1 \in 1 .. l /\ k \in Nat /\ m \in 0 .. WordBits - 1
    BY <1>5, <1>6, <1>7, Place, WordIndex
  <2>2. x \in Nat /\ r \in 0 .. OctetBits - 1 /\ p = OctetBits * x + r
    BY Widths, Division
  <2>3. k * Each + (m \div OctetBits) = x /\ m % OctetBits = r
    BY OctetOf
  <2>4. d[k + 1] = w(k + 1)
    <3> HIDE DEF k
    <3> QED BY <1>6, <2>1
  <2>5. at(k + 1, m) = x + 1
    <3>1. (k + 1) - 1 = k
      BY <2>1
    <3> HIDE DEF k, m, x
    <3> QED BY <2>3, <3>1
  <2>6. m \in w(k + 1) <=> x + 1 <= n /\ r \in bytes[x + 1]
    <3> HIDE DEF at, k, m, x, r
    <3> QED BY <2>1, <2>3, <2>5 DEF w
  <2>7. x + 1 <= n <=> x < n
    <3> HIDE DEF x
    <3> QED BY <1>2, <2>2
  <2>8. ASSUME x + 1 <= n PROVE r \in bytes[x + 1] <=> p \in S
    <3>1. x + 1 \in 1 .. n /\ (x + 1) - 1 = x
      <4> HIDE DEF x
      <4> QED BY <1>2, <2>2, <2>8
    <3>2. bytes[x + 1] = {j \in 0 .. OctetBits - 1 : get(b, ((x + 1) - 1) * OctetBits + j)}
      <4> HIDE DEF x
      <4> QED BY <1>3, <3>1
    <3>3. ((x + 1) - 1) * OctetBits + r = p
      <4> DEFINE y == OctetBits * x
      <4>1. x * OctetBits = y /\ y \in Nat
        BY <2>2, Widths
      <4>2. y + r = p
        BY <2>2
      <4> HIDE DEF x, y, r
      <4> QED BY <3>1, <4>1, <4>2
    <3>4. r \in bytes[x + 1] <=> get(b, p)
      <4> HIDE DEF x, r
      <4> QED BY <2>2, <3>2, <3>3
    <3>5. get(b, p) <=> p \in S
      BY <1>1, GetHas
    <3> QED BY <3>4, <3>5
  <2> QED BY <2>4, <2>6, <2>7, <2>8
<1>8. ASSUME NEW p \in S PROVE p \div OctetBits < n <=> p \in T
  <2>1. p \in Nat /\ b.highest \in Nat /\ p <= b.highest /\ ~none(b) /\ b.highest # NPOS
    BY <1>1 DEF none, NPOS
  <2> DEFINE h == b.highest
             y == OctetBits * n
  <2>2. n = (h + OctetBits - 1) \div OctetBits
    BY <2>1 DEF n
  <2>3. y \in Nat /\ h <= y /\ y < h + OctetBits
    BY <2>1, <2>2, Widths, Ceiling
  <2>4. p < y <=> p \div OctetBits < n
    BY <1>2, <2>1, Widths, QuotientBelow
  <2>5. h % OctetBits = 0 <=> h = y
    <3>1. ASSUME h = y PROVE h % OctetBits = 0
      <4>1. h = OctetBits * n + 0 /\ 0 \in 0 .. OctetBits - 1
        BY <2>1, <3>1, Widths
      <4> QED BY <1>2, <2>1, <4>1, Widths, DivisionUnique
    <3>2. ASSUME h % OctetBits = 0 PROVE h = y
      <4> DEFINE q == h \div OctetBits
      <4>1. q \in Nat /\ h = OctetBits * q + (h % OctetBits)
        BY <2>1, Widths, Division
      <4>2. OctetBits * q \in Nat
        BY <4>1, Widths
      <4>3. h = OctetBits * q
        BY <3>2, <4>1, <4>2
      <4> HIDE DEF q
      <4>4. ~(q + 1 <= n)
        BY <1>2, <2>3, <4>1, <4>2, <4>3, Widths, Product
      <4>5. ~(n + 1 <= q)
        BY <1>2, <2>3, <4>1, <4>2, <4>3, Widths, Product
      <4>6. q = n
        BY <1>2, <4>1, <4>4, <4>5
      <4> QED BY <4>3, <4>6
    <3> QED BY <3>1, <3>2
  <2>6. p \in T <=> ~(p = h /\ h % OctetBits = 0)
    OBVIOUS
  <2> HIDE DEF h, y, T
  <2>7. p < y <=> ~(p = h /\ h = y)
    BY <2>1, <2>3 DEF h
  <2> QED BY <2>4, <2>5, <2>6, <2>7
<1>9. ASSUME NEW p \in Nat, p \div OctetBits < n PROVE p \div WordBits < Len(d)
  <2> DEFINE k == p \div WordBits
             j == (p % WordBits) \div OctetBits
             u == Each * k
  <2>1. k \in Nat /\ j \in Nat
    <3>1. k \in Nat /\ p % WordBits \in Nat
      BY Place
    <3> QED BY <3>1, Widths, Division
  <2>2. k * Each + j = p \div OctetBits
    BY OctetOf
  <2>3. u \in Nat /\ k * Each = u
    BY <2>1, EachIs
  <2>4. u < n
    <3> DEFINE x == p \div OctetBits
    <3>1. x = u + j /\ x < n
      BY <1>9, <2>2, <2>3
    <3> HIDE DEF x, u, j
    <3> QED BY <1>2, <2>1, <2>3, <3>1
  <2> HIDE DEF k
  <2>5. ~(l <= k)
    <3>1. ASSUME l <= k PROVE Each * l <= u
      <4>1. CASE l = k
        BY <2>3, <4>1
      <4>2. CASE l + 1 <= k
        BY <1>5, <2>1, <2>3, <4>2, EachIs, Product
      <4> QED BY <1>5, <2>1, <3>1, <4>1, <4>2
    <3> HIDE DEF u
    <3> QED BY <1>2, <1>5, <2>3, <2>4, <3>1
  <2>6. k < Len(d)
    BY <1>5, <1>6, <2>1, <2>5
  <2> QED BY <2>6 DEF k
<1>10. Combined(d) \in BitSets /\ SetBits(Combined(d)) = T
  <2>1. S \in SUBSET Nat /\ T \in SUBSET S
    BY <1>1
  <2>2. \A p \in T : p \div WordBits < Len(d)
    <3> HIDE DEF S, T
    <3> QED BY <1>8, <1>9, <2>1
  <2>3. \A p \in Nat : p \div WordBits < Len(d) => (p \in T <=> p % WordBits \in d[p \div WordBits + 1])
    <3> HIDE DEF S, T
    <3> QED BY <1>7, <1>8, <2>1
  <2> HIDE DEF S, T
  <2> QED BY <1>6, <2>1, <2>2, <2>3, Wordwise
<1> QED BY <1>4, <1>10 DEF bytes

\* The invariant is all that the arrays need.
LEMMA ArraysKeep == BitsInv => ArraysKept
<1> SUFFICES ASSUME BitsInv PROVE ArraysKept
  OBVIOUS
<1>1. bits \in BitSets /\ SetBits(bits) = members /\ bits.highest = GreatestOf(members)
  BY BitSetIs DEF BitsInv
<1>2. equal(fromLongArray(toLongArray(bits)), bits)
  BY <1>1, LongArrayKept, EqualIs
<1>3. SetBits(fromByteArray(toByteArray(bits))) =
        members \ {pos \in members : pos = GreatestOf(members) /\ pos % OctetBits = 0}
  BY <1>1, ByteArrayKept
<1> QED BY <1>2, <1>3 DEF ArraysKept

\* Whatever calls built it, a BitSet has the bits it should have and finds them; the words
\* it is written as hold them all, the bytes all but a highest that is the first of a byte.
THEOREM BitSetCorrect == BitsSpec => []BitSetAgrees
<1>1. BitsInit => BitsInv
  BY InitBits
<1>2. BitsInv /\ [BitsNext]_bitsVars => BitsInv'
  BY NextBits
<1>3. BitsInv => BitSetAgrees
  BY Agrees, ArraysKeep DEF BitSetAgrees
<1> QED BY <1>1, <1>2, <1>3, PTL DEF BitsSpec

-----------------------------------------------------------------------------
(* Digits.                                                                 *)

\* What the sizes of a type and of a byte come to.
Full == (Bits + DigitBits - 1) \div DigitBits   \* the bytes that fill the type
Span == Power(2, Bits)                          \* how many values the type has

\* A type's values are twice those that are not negative.
LEMMA NumberSizes ==
  /\ Bits \in Nat \ {0} /\ DigitBits \in Nat \ {0} /\ DigitBits < Bits
  /\ Base \in Nat /\ Base >= 2
  /\ Span \in Nat \ {0} /\ Power(2, Bits - 1) \in Nat \ {0} /\ Span = 2 * Power(2, Bits - 1)
<1>1. Bits \in Nat \ {0} /\ DigitBits \in Nat \ {0} /\ DigitBits < Bits
  BY NumbersAssumption
<1>2. \A n \in Nat : Power(2, n) \in Nat \ {0} /\ Power(2, n + 1) = 2 * Power(2, n)
  BY PowerUnfolds, PowerPositive
<1>3. ASSUME NEW n \in Nat \ {0} PROVE Power(2, n) = 2 * Power(2, n - 1) /\ Power(2, n - 1) \in Nat \ {0}
  <2>1. n - 1 \in Nat /\ (n - 1) + 1 = n
    OBVIOUS
  <2> QED BY <1>2, <2>1
<1>4. Base \in Nat /\ Base >= 2
  <2> DEFINE x == Power(2, DigitBits - 1)
  <2>1. Base = 2 * x /\ x \in Nat \ {0}
    BY <1>1, <1>3 DEF Base
  <2> HIDE DEF x
  <2> QED BY <2>1
<1>5. Span \in Nat \ {0} /\ Power(2, Bits - 1) \in Nat \ {0} /\ Span = 2 * Power(2, Bits - 1)
  BY <1>1, <1>2, <1>3 DEF Span
<1> QED BY <1>1, <1>4, <1>5

\* Full bytes hold every value of the type, and getVarNumericLength's list of
\* powers goes that far.
LEMMA FullHolds ==
  /\ Full \in Nat \ {0} /\ Full <= varNumericMaxSize /\ varNumericMaxSize \in Nat
  /\ Span <= Power(Base, Full)
<1> DEFINE D == DigitBits
           n == Bits + D - 1
           q == n \div D
           m == n % D
           r == Bits \div D
           s == Bits % D
<1>1. D \in Nat \ {0} /\ Bits \in Nat \ {0} /\ D < Bits /\ n \in Nat /\ n = Bits + D - 1
  BY NumberSizes
<1> HIDE DEF D, n
<1>2. /\ q \in Nat /\ m \in 0 .. D - 1 /\ n = D * q + m
      /\ r \in Nat /\ s \in 0 .. D - 1 /\ Bits = D * r + s
  BY <1>1, Division
<1>3. Full = q /\ varNumericMaxSize = r + 1
  BY DEF Full, varNumericMaxSize, n, D
<1> HIDE DEF q, m, r, s
<1>4. D * q \in Nat /\ D * r \in Nat
  BY <1>1, <1>2
<1>5. Bits <= D * q
  BY <1>1, <1>2, <1>4
<1>6. q # 0
  <2>1. D * 0 = 0
    BY <1>1
  <2> QED BY <1>1, <1>5, <2>1
<1>7. q <= r + 1
  <2>1. SUFFICES ASSUME r + 1 + 1 <= q PROVE FALSE
    BY <1>2
  <2>2. D * (r + 1) + D <= D * q
    BY <1>1, <1>2, <2>1, Product
  <2>3. D * (r + 1) = D * r + D
    BY <1>1, <1>2
  <2> QED BY <1>1, <1>2, <1>4, <2>2, <2>3
<1>8. Span <= Power(Base, Full)
  <2>1. Power(Base, q) = Power(2, D * q)
    BY <1>1, <1>2, PowerOfPower DEF Base, D
  <2>2. Power(2, Bits) <= Power(2, D * q)
    BY <1>1, <1>4, <1>5, PowerGrows
  <2> QED BY <1>3, <2>1, <2>2 DEF Span
<1> QED BY <1>2, <1>3, <1>6, <1>7, <1>8

\* The quotients of a number by the powers of Base, and the digit between two of them.
Rest(u, i) == u \div Power(Base, i)
Digit(u, i) == Rest(u, i - 1) % Base

\* A number without its first digits is the next digit and the number without that.
LEMMA DigitsUnfold ==
  ASSUME NEW u \in Nat, NEW i \in Nat \ {0}
  PROVE  /\ Rest(u, i) \in Nat /\ Digit(u, i) \in 0 .. Base - 1
         /\ Rest(u, i - 1) = Base * Rest(u, i) + Digit(u, i)
         /\ Rest(u, 0) = u
<1> DEFINE P == Power(Base, i - 1)
           q == u \div P
           r == u % P
           k == q \div Base
           d == q % Base
<1>1. Base \in Nat \ {0} /\ i - 1 \in Nat /\ (i - 1) + 1 = i
  BY NumberSizes
<1>2. P \in Nat \ {0} /\ Power(Base, i) = Base * P /\ Power(Base, i) \in Nat \ {0}
  BY <1>1, PowerUnfolds, PowerPositive
<1>3. Power(Base, 0) = 1
  BY <1>1, PowerUnfolds
<1> HIDE DEF P
<1>4. q \in Nat /\ r \in 0 .. P - 1 /\ u = P * q + r
  BY <1>2, Division
<1>5. Rest(u, i - 1) = q
  BY DEF Rest, P
<1> HIDE DEF q, r
<1>6. k \in Nat /\ d \in 0 .. Base - 1 /\ q = Base * k + d
  BY <1>1, <1>4, Division
<1>7. Digit(u, i) = d
  BY <1>5 DEF Digit
<1> HIDE DEF k, d
<1> DEFINE B == Base
           rest == P * d + r
<1>8. B \in Nat \ {0} /\ k \in Nat /\ d \in 0 .. B - 1 /\ q = B * k + d /\ Power(Base, i) = B * P
  BY <1>1, <1>2, <1>6
<1> HIDE DEF B
<1>9. u = (B * P) * k + rest
  BY <1>2, <1>4, <1>8
<1>10. rest \in 0 .. B * P - 1
  <2>1. d + 1 <= B /\ d \in Int /\ B \in Int
    BY <1>8
  <2>2. P * d + P <= P * B
    BY <1>2, <2>1, Product
  <2>3. P * B = B * P /\ P * d \in Nat /\ B * P \in Nat
    BY <1>2, <1>8
  <2> QED BY <1>2, <1>4, <2>2, <2>3
<1>11. u \div (B * P) = k
  <2> DEFINE c == B * P
  <2>1. c \in Nat \ {0}
    BY <1>2, <1>8
  <2>2. u = c * k + rest /\ rest \in 0 .. c - 1
    BY <1>9, <1>10
  <2> HIDE DEF c, rest
  <2>3. u \div c = k
    BY <1>8, <2>1, <2>2, DivisionUnique
  <2> QED BY <2>3 DEF c
<1>12. Rest(u, i) = k
  BY <1>8, <1>11 DEF Rest
<1>13. Rest(u, 0) = u
  BY <1>3 DEF Rest
<1> QED BY <1>5, <1>6, <1>7, <1>8, <1>12, <1>13 DEF B

\* Behind all its digits nothing is left of a number.
LEMMA RestBelow ==
  ASSUME NEW u \in Nat, NEW n \in Nat, u < Power(Base, n)
  PROVE  Rest(u, n) = 0
<1>1. Power(Base, n) \in Nat \ {0}
  <2>1. Base \in Nat \ {0}
    BY NumberSizes
  <2> QED BY <2>1, PowerPositive
<1> DEFINE P == Power(Base, n)
<1> HIDE DEF P
<1>2. u = P * 0 + u /\ u \in 0 .. P - 1
  BY <1>1 DEF P
<1>3. u \div P = 0
  BY <1>1, <1>2, DivisionUnique DEF P
<1> QED BY <1>3 DEF Rest, P

\* A value as the unsigned type has it: negative ones are at its end.
LEMMA UnsignedIs ==
  ASSUME NEW v \in Int
  PROVE  /\ Unsigned(v) \in 0 .. Span - 1
         /\ v \in 0 .. Span - 1 => Unsigned(v) = v
         /\ v \in -(Span \div 2) .. -1 => Unsigned(v) = v + Span
<1>1. Span \in Nat \ {0}
  BY NumberSizes
<1>2. Unsigned(v) = v % Span
  BY DEF Unsigned, Span
<1> HIDE DEF Unsigned
<1> DEFINE S == Span
<1>3. S \in Nat \ {0} /\ Span = S
  BY <1>1
<1> HIDE DEF S
<1>4. v % S \in 0 .. S - 1
  BY <1>3, IntegerDivision
<1>5. ASSUME v \in 0 .. S - 1 PROVE v % S = v
  <2>1. v = S * 0 + v
    BY <1>3
  <2> QED BY <1>3, <1>5, <2>1, DivisionUnique
<1>6. ASSUME v \in -(S \div 2) .. -1 PROVE v % S = v + S
  <2>1. S \div 2 \in Nat /\ S \div 2 < S
    BY <1>3
  <2>2. v + S \in 0 .. S - 1 /\ v = S * (-1) + (v + S)
    BY <1>3, <1>6, <2>1
  <2> QED BY <1>3, <2>2, DivisionUnique
<1> QED BY <1>2, <1>3, <1>4, <1>5, <1>6

-----------------------------------------------------------------------------
(* What is written, and what is found again.                               *)

\* The cells stand in a stream from a position on.
Stands(cells, in, p) ==
  /\ p + Len(cells) - 1 <= Len(in)
  /\ \A i \in 1 .. Len(cells) : in[p + i - 1] = cells[i]

\* A byte is read as what it was written.
LEMMA OctetRead ==
  ASSUME NEW n \in Int, NEW in, NEW p \in Nat \ {0}, p <= Len(in), Len(in) \in Nat, in[p] = Octet(n)
  PROVE  readNumeric("b", in, p) = Found(n, p + 1)
<1>1. in[p] # Blank /\ in[p][1] = "b" /\ in[p][2] = n
  BY DEF Octet, Blank
<1> QED BY <1>1 DEF readNumeric

\* A VarInt's length holds it, and is no more than fills the type.
LEMMA LengthIs ==
  ASSUME NEW v \in Int
  PROVE  /\ getVarNumericLength(v) \in 1 .. Full
         /\ Unsigned(v) < Power(Base, getVarNumericLength(v))
<1> DEFINE u == Unsigned(v)
           Fit == {n \in 1 .. Full : u < Power(Base, n)}
           Right(n) == u < Power(Base, n) /\ (n > 1 => u >= Power(Base, n - 1))
           l == getVarNumericLength(v)
<1>1. u \in Nat /\ u < Span /\ Full \in Nat \ {0} /\ Full <= varNumericMaxSize /\ varNumericMaxSize \in Nat
  BY UnsignedIs, FullHolds, NumberSizes
<1>2. Base \in Nat \ {0} /\ \A n \in Nat : Power(Base, n) \in Nat
  <2>1. Base \in Nat \ {0}
    BY NumberSizes
  <2> QED BY <2>1, PowerUnfolds
<1>3. u < Power(Base, Full)
  BY <1>1, <1>2, FullHolds, NumberSizes
<1> HIDE DEF u
<1>4. \E n \in 1 .. varNumericMaxSize : Right(n)
  <2> DEFINE P == {k \in Nat : k \in 1 .. Full /\ u < Power(Base, k) => \E n \in 1 .. Full : Right(n)}
  <2>1. 0 \in P
    OBVIOUS
  <2>2. ASSUME NEW k \in Nat, k \in P PROVE k + 1 \in P
    <3>1. SUFFICES ASSUME k + 1 \in 1 .. Full, u < Power(Base, k + 1) PROVE \E n \in 1 .. Full : Right(n)
      OBVIOUS
    <3>2. CASE k \in 1 .. Full /\ u < Power(Base, k)
      BY <2>2, <3>2
    <3>3. CASE ~(k \in 1 .. Full /\ u < Power(Base, k))
      <4>1. k + 1 > 1 => u >= Power(Base, (k + 1) - 1)
        <5>1. SUFFICES ASSUME k + 1 > 1 PROVE u >= Power(Base, k)
          OBVIOUS
        <5>2. k \in 1 .. Full
          BY <3>1, <5>1, <1>1
        <5> QED BY <1>1, <1>2, <3>3, <5>2
      <4> QED BY <3>1, <4>1
    <3> QED BY <3>2, <3>3
  <2> HIDE DEF P
  <2>3. P \in SUBSET Nat
    BY DEF P
  <2>4. P = Nat
    BY <2>1, <2>2, <2>3, Induction
  <2>5. Full \in P /\ Full \in 1 .. Full
    BY <1>1, <2>4
  <2>6. \E n \in 1 .. Full : Right(n)
    BY <1>3, <2>5 DEF P
  <2> QED BY <1>1, <2>6
<1>5. l = CHOOSE n \in 1 .. varNumericMaxSize : Right(n)
  BY DEF getVarNumericLength, u
<1>6. l \in 1 .. varNumericMaxSize /\ Right(l)
  <2> HIDE DEF l, Right
  <2> QED BY <1>4, <1>5
<1> HIDE DEF l
<1>7. l <= Full
  <2>1. SUFFICES ASSUME l > Full PROVE FALSE
    BY <1>1, <1>6
  <2>2. l > 1 /\ l - 1 \in Nat /\ Full <= l - 1
    BY <1>1, <1>6, <2>1
  <2>3. Power(Base, Full) <= Power(Base, l - 1)
    BY <1>1, <1>2, <2>2, PowerGrows
  <2>4. u >= Power(Base, l - 1)
    BY <1>6, <2>2
  <2> QED BY <1>1, <1>2, <1>3, <2>2, <2>3, <2>4
<1> QED BY <1>1, <1>6, <1>7 DEF l, u

\* A VarInt is written as its digits, with a flag on all but the last.
LEMMA WrittenIs ==
  ASSUME NEW v \in Int
  PROVE  LET n == getVarNumericLength(v)
         IN /\ Len(writeVarNumeric(v)) = n /\ n \in 1 .. Full
            /\ writeVarNumeric(v) \in Seq({Octet(k) : k \in 0 .. 2 * Base - 1})
            /\ \A i \in 1 .. n :
                 writeVarNumeric(v)[i] = Octet(Digit(Unsigned(v), i) + (IF i < n THEN Base ELSE 0))
<1> DEFINE n == getVarNumericLength(v)
           byte(i) == Octet(Digit(Unsigned(v), i) + (IF i < n THEN Base ELSE 0))
           w == writeVarNumeric(v)
<1>1. n \in 1 .. Full /\ Full \in Nat
  BY LengthIs, FullHolds
<1>2. w = [i \in 1 .. n |-> byte(i)]
  BY DEF writeVarNumeric, Digit, Rest
<1>3. ASSUME NEW i \in 1 .. n PROVE byte(i) \in {Octet(k) : k \in 0 .. 2 * Base - 1}
  <2>1. Unsigned(v) \in Nat
    BY UnsignedIs, NumberSizes
  <2>2. Digit(Unsigned(v), i) \in 0 .. Base - 1
    BY <1>1, <2>1, DigitsUnfold
  <2> DEFINE k == Digit(Unsigned(v), i) + (IF i < n THEN Base ELSE 0)
  <2>3. k \in 0 .. 2 * Base - 1
    BY <2>2, NumberSizes
  <2> HIDE DEF k
  <2> QED BY <2>3 DEF k
<1> HIDE DEF n, w, byte
<1>4. w \in Seq({Octet(k) : k \in 0 .. 2 * Base - 1}) /\ Len(w) = n /\ \A i \in 1 .. n : w[i] = byte(i)
  BY <1>1, <1>2, <1>3
<1> QED BY <1>1, <1>4 DEF n, w, byte

\* The sum of the first i digits at their places: there is one, and it is the number
\* without what is behind those digits.
LEMMA SumExists ==
  ASSUME NEW u \in Nat, NEW n \in Nat
  PROVE  LET h == [i \in 0 .. n |-> u - Power(Base, i) * Rest(u, i)]
         IN  /\ h[0] = 0
             /\ \A i \in 1 .. n : h[i] = h[i - 1] + Digit(u, i) * Power(Base, i - 1)
<1> DEFINE h == [i \in 0 .. n |-> u - Power(Base, i) * Rest(u, i)]
<1>1. Base \in Nat \ {0} /\ Power(Base, 0) = 1
      /\ \A i \in Nat : Power(Base, i) \in Nat /\ Power(Base, i + 1) = Base * Power(Base, i)
  <2>1. Base \in Nat \ {0}
    BY NumberSizes
  <2> QED BY <2>1, PowerUnfolds
<1>2. h[0] = 0
  <2>1. Rest(u, 0) = u
    BY DigitsUnfold
  <2> QED BY <1>1, <2>1
<1>3. ASSUME NEW i \in 1 .. n PROVE h[i] = h[i - 1] + Digit(u, i) * Power(Base, i - 1)
  <2> DEFINE B == Base
             P == Power(Base, i - 1)
             q == Rest(u, i)
             e == Digit(u, i)
             o == Rest(u, i - 1)
  <2>1. q \in Nat /\ e \in 0 .. B - 1 /\ o = B * q + e
    BY DigitsUnfold
  <2>2. i - 1 \in 0 .. n /\ i \in 0 .. n /\ i - 1 \in Nat /\ (i - 1) + 1 = i
    OBVIOUS
  <2>3. B \in Nat \ {0} /\ P \in Nat /\ Power(Base, i) = B * P
    BY <1>1, <2>2
  <2>4. h[i] = u - Power(Base, i) * q /\ h[i - 1] = u - P * o
    BY <2>2
  <2> HIDE DEF B, P, q, e, o, h
  <2>5. u - (B * P) * q = u - P * (B * q + e) + e * P
    BY <2>1, <2>3
  <2>6. h[i] = h[i - 1] + e * P
    BY <2>1, <2>3, <2>4, <2>5
  <2> QED BY <2>6 DEF P, e
<1> QED BY <1>2, <1>3

\* Whatever function the reader sums up with, it has the number in the end.
LEMMA SumIs ==
  ASSUME NEW u \in Nat, NEW n \in Nat, u < Power(Base, n), NEW sum, sum[0] = 0,
         \A i \in 1 .. n : sum[i] = sum[i - 1] + Digit(u, i) * Power(Base, i - 1)
  PROVE  sum[n] = u
<1> DEFINE h == [i \in 0 .. n |-> u - Power(Base, i) * Rest(u, i)]
           S == {i \in Nat : i <= n => sum[i] = h[i]}
<1>1. h[0] = 0 /\ \A i \in 1 .. n : h[i] = h[i - 1] + Digit(u, i) * Power(Base, i - 1)
  BY SumExists
<1>2. h[n] = u
  <2>1. Base \in Nat
    BY NumberSizes
  <2>2. Rest(u, n) = 0 /\ Power(Base, n) \in Nat
    BY <2>1, RestBelow, PowerUnfolds
  <2> QED BY <2>2
<1> HIDE DEF h
<1>3. 0 \in S
  BY <1>1
<1>4. ASSUME NEW i \in Nat, i \in S PROVE i + 1 \in S
  <2>1. SUFFICES ASSUME i + 1 <= n PROVE sum[i + 1] = h[i + 1]
    OBVIOUS
  <2>2. i + 1 \in 1 .. n /\ (i + 1) - 1 = i /\ sum[i] = h[i]
    BY <1>4, <2>1
  <2> QED BY <1>1, <2>2
<1> HIDE DEF S
<1>5. S \in SUBSET Nat
  BY DEF S
<1>6. S = Nat
  BY <1>3, <1>4, <1>5, Induction
<1> QED BY <1>2, <1>6 DEF S

\* What is read where a number was written: as many bytes, and its bits.
LEMMA UnsignedKept ==
  ASSUME NEW v \in Int, NEW in, Len(in) \in Nat, NEW p \in Nat \ {0}, Stands(writeVarNumeric(v), in, p)
  PROVE  readVarUnsigned(in, p) = Found(Unsigned(v), p + getVarNumericLength(v))
<1> DEFINE u == Unsigned(v)
           n == getVarNumericLength(v)
           w == writeVarNumeric(v)
           byte(i) == readNumeric("b", in, p + i - 1)
           full == (Bits + DigitBits - 1) \div DigitBits
           Ends_(i) == /\ i = full \/ byte(i).v < Base
                       /\ \A j \in 1 .. i - 1 : byte(j).v >= Base
           last == CHOOSE i \in 1 .. full : Ends_(i)
           sum == CHOOSE f : f = [i \in 0 .. last |->
                    IF i = 0 THEN 0 ELSE f[i - 1] + (byte(i).v % Base) * Power(Base, i - 1)]
<1>1. /\ u \in Nat /\ u < Span /\ full = Full /\ full \in Nat /\ n \in 1 .. full /\ u < Power(Base, n)
      /\ Base \in Nat /\ Base >= 2
  <2>1. full = Full
    BY DEF Full
  <2>2. u \in 0 .. Span - 1 /\ Span \in Nat
    BY UnsignedIs, NumberSizes
  <2>3. n \in 1 .. Full /\ u < Power(Base, n) /\ Full \in Nat /\ Base \in Nat /\ Base >= 2
    BY LengthIs, FullHolds, NumberSizes
  <2> HIDE DEF full, u, n
  <2> QED BY <2>1, <2>2, <2>3
<1>2. ASSUME NEW i \in 1 .. n
      PROVE  /\ byte(i) = Found(Digit(u, i) + (IF i < n THEN Base ELSE 0), p + i - 1 + 1)
             /\ Digit(u, i) \in 0 .. Base - 1
  <2>1. w[i] = Octet(Digit(u, i) + (IF i < n THEN Base ELSE 0)) /\ Len(w) = n
    BY WrittenIs
  <2>2. Digit(u, i) \in 0 .. Base - 1
    <3> HIDE DEF u, n
    <3>1. i \in Nat \ {0} /\ u \in Nat
      BY <1>1
    <3> QED BY <3>1, DigitsUnfold
  <2> DEFINE k == Digit(u, i) + (IF i < n THEN Base ELSE 0)
             q == p + i - 1
  <2>3. k \in Int
    BY <1>1, <2>2
  <2>4. q \in Nat \ {0} /\ q <= Len(in) /\ in[q] = Octet(k)
    BY <1>1, <2>1 DEF Stands
  <2> HIDE DEF k, q
  <2>5. readNumeric("b", in, q) = Found(k, q + 1)
    BY <2>3, <2>4, OctetRead
  <2> QED BY <2>2, <2>5 DEF k, q
<1> HIDE DEF full, u, n, byte
<1>3. ASSUME NEW i \in 1 .. n
      PROVE  /\ byte(i).ok /\ byte(i).v \in Nat /\ byte(i).v % Base = Digit(u, i)
             /\ (byte(i).v < Base) <=> i = n
  <2> DEFINE d == Digit(u, i)
             B == Base
             x == byte(i).v
  <2>1. byte(i).ok /\ x = d + (IF i < n THEN B ELSE 0) /\ d \in 0 .. B - 1
    BY <1>2 DEF Found
  <2> HIDE DEF d
  <2>2. B \in Nat \ {0} /\ B >= 2
    BY <1>1
  <2> HIDE DEF B, x
  <2>3. CASE i < n
    <3>1. x = B * 1 + d /\ x \in Nat
      BY <2>1, <2>2, <2>3
    <3>2. x % B = d
      BY <2>1, <2>2, <3>1, DivisionUnique
    <3>3. ~(x < B) /\ i # n
      BY <1>1, <2>1, <2>2, <2>3, <3>1
    <3> QED BY <2>1, <3>1, <3>2, <3>3 DEF B, d, x
  <2>4. CASE i = n
    <3>1. x = B * 0 + d /\ x \in Nat /\ x = d
      BY <1>1, <2>1, <2>2, <2>4
    <3>2. x % B = d
      BY <2>1, <2>2, <3>1, DivisionUnique
    <3>3. x < B
      BY <2>1, <2>2, <3>1
    <3> QED BY <2>1, <2>4, <3>1, <3>2, <3>3 DEF B, d, x
  <2> QED BY <1>1, <2>3, <2>4
<1>4. last = n
  <2>1. Ends_(n)
    <3>1. n \in 1 .. n /\ byte(n).v < Base
      BY <1>1, <1>3
    <3>2. ASSUME NEW j \in 1 .. n - 1 PROVE byte(j).v >= Base
      <4>1. j \in 1 .. n /\ j # n
        BY <1>1
      <4> QED BY <1>1, <1>3, <4>1
    <3> QED BY <3>1, <3>2
  <2>2. ASSUME NEW i \in 1 .. full, Ends_(i) PROVE i = n
    <3>1. ~(i < n)
      <4>1. SUFFICES ASSUME i < n PROVE FALSE
        OBVIOUS
      <4>2. i \in 1 .. n /\ i # n /\ i # full
        BY <1>1, <4>1
      <4> QED BY <1>3, <2>2, <4>2
    <3>2. ~(n < i)
      <4>1. SUFFICES ASSUME n < i PROVE FALSE
        OBVIOUS
      <4>2. n \in 1 .. i - 1 /\ n \in 1 .. n
        BY <1>1, <4>1
      <4>3. byte(n).v >= Base /\ byte(n).v < Base /\ byte(n).v \in Nat
        BY <1>3, <2>2, <4>2
      <4> QED BY <1>1, <4>3
    <3> QED BY <1>1, <3>1, <3>2
  <2> HIDE DEF Ends_
  <2> QED BY <1>1, <2>1, <2>2
<1>5. readVarUnsigned(in, p) =
        IF \E i \in 1 .. last : ~byte(i).ok THEN Astray
        ELSE Found(IF byte(last).v < Base THEN Unsigned(sum[last]) ELSE 0, p + last)
  BY DEF readVarUnsigned, full, byte
<1> HIDE DEF last, sum
<1>6. sum[n] = u
  <2> DEFINE h == [i \in 0 .. n |-> u - Power(Base, i) * Rest(u, i)]
             Unfolds(f) == f = [i \in 0 .. last |->
                    IF i = 0 THEN 0 ELSE f[i - 1] + (byte(i).v % Base) * Power(Base, i - 1)]
  <2>1. h[0] = 0 /\ \A i \in 1 .. n : h[i] = h[i - 1] + Digit(u, i) * Power(Base, i - 1)
    <3>1. u \in Nat /\ n \in Nat
      BY <1>1
    <3> QED BY <3>1, SumExists
  <2>2. h = [i \in 0 .. n |-> h[i]]
    OBVIOUS
  <2> HIDE DEF h
  <2>3. \A i \in 0 .. n : i = 0 \/ i \in 1 .. n
    BY <1>1
  <2>4. Unfolds(h)
    <3>1. \A i \in 0 .. n : h[i] = IF i = 0 THEN 0 ELSE h[i - 1] + (byte(i).v % Base) * Power(Base, i - 1)
      BY <1>3, <2>1, <2>3
    <3> QED BY <1>4, <2>2, <3>1
  <2>5. Unfolds(sum)
    <3> HIDE DEF Unfolds
    <3> QED BY <2>4 DEF sum, Unfolds
  <2>6. sum[0] = 0 /\ \A i \in 1 .. n : sum[i] = sum[i - 1] + Digit(u, i) * Power(Base, i - 1)
    <3>1. \A i \in 0 .. n : sum[i] = IF i = 0 THEN 0 ELSE sum[i - 1] + (byte(i).v % Base) * Power(Base, i - 1)
      BY <1>4, <2>5
    <3>2. 0 \in 0 .. n /\ \A i \in 1 .. n : i \in 0 .. n /\ i # 0
      BY <1>1
    <3> QED BY <1>3, <3>1, <3>2
  <2>7. u \in Nat /\ n \in Nat /\ u < Power(Base, n)
    BY <1>1
  <2> HIDE DEF Unfolds
  <2> QED BY <2>6, <2>7, SumIs
<1>7. Unsigned(u) = u
  <2>1. u \in 0 .. Span - 1
    BY UnsignedIs DEF u
  <2> QED BY <2>1, UnsignedIs
<1>8. n \in 1 .. n
  BY <1>1
<1> QED BY <1>3, <1>4, <1>5, <1>6, <1>7, <1>8 DEF u, n

-----------------------------------------------------------------------------
(* The numbers' types.                                                     *)

\* A VarInt comes back as it was written.
THEOREM VarIntKept ==
  ASSUME NEW v \in VarInts, NEW in, Len(in) \in Nat, NEW p \in Nat \ {0}, Stands(writeVarNumeric(v), in, p)
  PROVE  readVarNumeric(in, p) = Found(v, p + getVarNumericLength(v))
<1> DEFINE H == Power(2, Bits - 1)
           at == p + getVarNumericLength(v)
           u == Unsigned(v)
<1>1. H \in Nat \ {0} /\ Span = 2 * H /\ Power(2, Bits) = Span
  BY NumberSizes DEF Span
<1>2. v \in Int /\ v \in -H .. H - 1
  BY <1>1 DEF VarInts
<1>3. readVarUnsigned(in, p) = Found(u, at)
  BY <1>2, UnsignedKept
<1>4. readVarNumeric(in, p) = Found(Signed(u), at)
  <2>1. readVarNumeric(in, p) = [Found(u, at) EXCEPT !.v = Signed(@)]
    BY <1>3 DEF readVarNumeric
  <2> HIDE DEF at, u
  <2> QED BY <2>1 DEF Found
<1>5. Signed(u) = IF u >= H THEN u - Span ELSE u
  BY <1>1 DEF Signed
<1> HIDE DEF H, at
<1>6. Signed(u) = v
  <2>1. CASE v \in 0 .. H - 1
    <3>1. v \in 0 .. Span - 1
      BY <1>1, <2>1
    <3>2. u = v
      BY <1>2, <3>1, UnsignedIs
    <3> HIDE DEF u
    <3> QED BY <1>1, <1>5, <2>1, <3>2
  <2>2. CASE v \in -H .. -1
    <3>1. Span \div 2 = H
      BY <1>1
    <3>2. u = v + Span
      BY <1>2, <2>2, <3>1, UnsignedIs
    <3> HIDE DEF u
    <3> QED BY <1>1, <1>5, <2>2, <3>2
  <2> HIDE DEF u
  <2> QED BY <1>1, <1>2, <2>1, <2>2
<1> QED BY <1>4, <1>6 DEF at

\* So does a ZigZag number.
THEOREM ZigZagKept ==
  ASSUME NEW v \in VarInts, NEW in, Len(in) \in Nat, NEW p \in Nat \ {0}, Stands(writeZigZagVarNumeric(v), in, p)
  PROVE  readZigZagVarNumeric(in, p) = Found(v, p + getZigZagVarNumericLength(v))
<1> DEFINE H == Power(2, Bits - 1)
           at == p + getZigZagVarNumericLength(v)
           z == ZigZag(v)
           value == IF z % 2 = 0 THEN z \div 2 ELSE -(z \div 2) - 1
<1>1. H \in Nat \ {0} /\ Span = 2 * H
  BY NumberSizes
<1>2. v \in Int /\ v \in -H .. H - 1
  BY <1>1 DEF VarInts
<1> HIDE DEF H
<1>3. z \in Int /\ z \in 0 .. Span - 1
  BY <1>1, <1>2 DEF ZigZag
<1>4. readVarUnsigned(in, p) = Found(Unsigned(z), at)
  <2>1. Stands(writeVarNumeric(z), in, p)
    BY DEF writeZigZagVarNumeric
  <2>2. at = p + getVarNumericLength(z)
    BY DEF getZigZagVarNumericLength
  <2> HIDE DEF z, at
  <2> QED BY <1>3, <2>1, <2>2, UnsignedKept
<1>5. Unsigned(z) = z
  BY <1>3, UnsignedIs
<1>6. readZigZagVarNumeric(in, p) = Found(value, at)
  <2>1. readZigZagVarNumeric(in, p) = [Found(z, at) EXCEPT !.v = IF @ % 2 = 0 THEN @ \div 2 ELSE -(@ \div 2) - 1]
    BY <1>4, <1>5 DEF readZigZagVarNumeric
  <2> HIDE DEF at, z
  <2> QED BY <2>1 DEF Found
<1>7. value = v
  <2>1. CASE v >= 0
    <3>1. z = 2 * v + 0
      BY <1>2, <2>1 DEF ZigZag
    <3>2. z \div 2 = v /\ z % 2 = 0
      BY <1>2, <1>3, <3>1, DivisionUnique
    <3> QED BY <3>2
  <2>2. CASE v < 0
    <3>1. z = 2 * (-v - 1) + 1
      BY <1>2, <2>2 DEF ZigZag
    <3>2. z \div 2 = -v - 1 /\ z % 2 = 1
      BY <1>2, <1>3, <3>1, DivisionUnique
    <3> QED BY <1>2, <3>2
  <2> QED BY <1>2, <2>1, <2>2
<1> QED BY <1>6, <1>7 DEF at

\* Wrapping gives a value of the type with the same remainder, the value itself if it has one.
LEMMA WrappedIs ==
  ASSUME NEW v \in Int, NEW n \in Nat \ {0}
  PROVE  /\ Wrapped(v, n) \in Signeds(n)
         /\ v \in Signeds(n) => Wrapped(v, n) = v
         /\ (v % n) \in 0 .. n - 1 /\ Wrapped(v % n, n) = Wrapped(v, n)
<1> DEFINE h == n \div 2
           s == v + h
           q == s \div n
           m == s % n
           l == v \div n
           r == v % n
<1>1. h \in Nat /\ h < n
  OBVIOUS
<1> HIDE DEF h
<1>2. s \in Int
  BY <1>1
<1> HIDE DEF s
<1>3. q \in Int /\ m \in 0 .. n - 1 /\ s = n * q + m /\ l \in Int /\ r \in 0 .. n - 1 /\ v = n * l + r
  BY <1>2, IntegerDivision
<1>4. Wrapped(v, n) = m - h
  BY DEF Wrapped, s, h
<1>5. Signeds(n) = -h .. n - h - 1
  BY DEF Signeds, h
<1> HIDE DEF q, m, l, r
<1>6. ASSUME v \in Signeds(n) PROVE m = s
  <2>1. s \in 0 .. n - 1 /\ s = n * 0 + s
    BY <1>1, <1>5, <1>6 DEF s
  <2>2. s % n = s
    BY <1>2, <2>1, DivisionUnique
  <2> QED BY <2>2 DEF m
<1>7. Wrapped(r, n) = Wrapped(v, n)
  <2>1. r + h \in Int /\ r + h = n * (q - l) + m /\ q - l \in Int
    <3>1. n * (q - l) = n * q - n * l /\ n * q \in Int /\ n * l \in Int
      BY <1>3
    <3> QED BY <1>1, <1>3, <3>1 DEF s
  <2>2. (r + h) % n = m
    BY <1>3, <2>1, DivisionUnique
  <2> QED BY <1>4, <2>2 DEF Wrapped, h
<1>8. Wrapped(v, n) \in Signeds(n)
  BY <1>1, <1>3, <1>4, <1>5
<1>9. v \in Signeds(n) => Wrapped(v, n) = v
  BY <1>1, <1>4, <1>6 DEF s
<1> QED BY <1>3, <1>7, <1>8, <1>9 DEF r

\* A number of any kind is read as what it was written.
LEMMA CellRead ==
  ASSUME NEW kind, kind # "0", NEW n, NEW in, Len(in) \in Nat, NEW p \in Nat \ {0},
         Stands(writeNumeric(kind, n), in, p)
  PROVE  readNumeric(kind, in, p) = Found(n, p + 1)
<1>1. p <= Len(in) /\ in[p] = <<kind, n>>
  <2>1. Len(writeNumeric(kind, n)) = 1 /\ writeNumeric(kind, n)[1] = <<kind, n>>
    BY DEF writeNumeric
  <2>2. p + 1 - 1 = p /\ 1 \in 1 .. 1
    OBVIOUS
  <2> QED BY <2>1, <2>2 DEF Stands
<1>2. in[p] # Blank /\ in[p][1] = kind /\ in[p][2] = n
  BY <1>1 DEF Blank
<1> QED BY <1>1, <1>2 DEF readNumeric

\* A block position comes back without the bits there was no room for.
THEOREM PositionKept ==
  ASSUME NEW at \in [x : Int, y : Int, z : Int], NEW in, Len(in) \in Nat, NEW p \in Nat \ {0},
         Stands(writePosition(at), in, p)
  PROVE  readPosition(in, p) =
           Found([x |-> Wrapped(at.x, XZ), y |-> Wrapped(at.y, Y), z |-> Wrapped(at.z, XZ)], p + 1)
<1> DEFINE x == Wrapped(at.x, XZ)
           z == at.z % XZ
           y == at.y % Y
           n == (x * XZ + z) * Y + y
           M == XZ
           N == Y
<1>1. at.x \in Int /\ at.y \in Int /\ at.z \in Int
  OBVIOUS
<1>2. M \in Nat \ {0} /\ N \in Nat \ {0}
  <2>1. PositionBits \in Nat /\ HeightBits \in Nat /\ 2 \in Nat \ {0}
    BY NumbersAssumption
  <2> QED BY <2>1, PowerPositive DEF XZ, Y
<1>3. /\ x \in Int /\ z \in 0 .. M - 1 /\ y \in 0 .. N - 1
      /\ Wrapped(z, M) = Wrapped(at.z, M) /\ Wrapped(y, N) = Wrapped(at.y, N)
  <2>1. x \in Signeds(M)
    BY <1>1, <1>2, WrappedIs
  <2>2. \A w \in Signeds(M) : w \in Int
    BY <1>2 DEF Signeds
  <2>3. z \in 0 .. M - 1 /\ Wrapped(z, M) = Wrapped(at.z, M)
    BY <1>1, <1>2, WrappedIs
  <2>4. y \in 0 .. N - 1 /\ Wrapped(y, N) = Wrapped(at.y, N)
    BY <1>1, <1>2, WrappedIs
  <2> HIDE DEF x, y, z, M, N
  <2> QED BY <2>1, <2>2, <2>3, <2>4
<1>4. readNumeric("i64", in, p) = Found(n, p + 1)
  <2>1. Stands(writeNumeric("i64", n), in, p)
    BY DEF writePosition
  <2> HIDE DEF n
  <2> QED BY <2>1, CellRead
<1>5. readPosition(in, p) =
        Found([x |-> n \div (M * N), y |-> Wrapped(n % N, N), z |-> Wrapped((n \div N) % M, M)], p + 1)
  <2> DEFINE r == readNumeric("i64", in, p)
  <2>1. readPosition(in, p) =
          IF r.ok THEN Found([x |-> r.v \div (M * N), y |-> Wrapped(r.v % N, N),
                              z |-> Wrapped((r.v \div N) % M, M)], r.at)
          ELSE Astray
    BY DEF readPosition, Map
  <2> HIDE DEF n, r
  <2>2. r.ok /\ r.v = n /\ r.at = p + 1
    BY <1>4 DEF Found, r
  <2> QED BY <2>1, <2>2
<1>6. n = (x * M + z) * N + y
  OBVIOUS
<1> HIDE DEF x, y, z, n, M, N
<1>7. n \in Int /\ x * M + z \in Int
  BY <1>2, <1>3, <1>6
<1>8. n \div N = x * M + z /\ n % N = y
  <2> DEFINE k == x * M + z
  <2>1. k \in Int /\ n = k * N + y
    BY <1>6, <1>7
  <2> HIDE DEF k
  <2>2. n = N * k + y /\ n \in Int /\ N \in Nat \ {0} /\ y \in 0 .. N - 1
    BY <1>2, <1>3, <1>7, <2>1
  <2>3. n \div N = k /\ n % N = y
    BY <2>1, <2>2, DivisionUnique
  <2> QED BY <2>3 DEF k
<1>9. (x * M + z) % M = z
  <2> DEFINE k == x * M + z
  <2>1. k \in Int /\ k = M * x + z
    BY <1>2, <1>3, <1>7
  <2> HIDE DEF k
  <2>2. k % M = z
    BY <1>2, <1>3, <2>1, DivisionUnique
  <2> QED BY <2>2 DEF k
<1>10. n \div (M * N) = x
  <2> DEFINE c == M * N
             r == z * N + y
  <2>1. c \in Nat \ {0}
    BY <1>2
  <2>2. r \in 0 .. c - 1
    <3>1. z + 1 <= M /\ z \in Int /\ M \in Int
      BY <1>2, <1>3
    <3>2. N * z + N <= N * M
      BY <1>2, <3>1, Product
    <3>3. N * z \in Nat /\ N * z = z * N /\ N * M = M * N
      BY <1>2, <1>3
    <3> QED BY <1>2, <1>3, <3>2, <3>3
  <2>3. n = c * x + r
    BY <1>2, <1>3, <1>6
  <2> HIDE DEF c, r
  <2>4. n \div c = x
    BY <1>3, <1>7, <2>1, <2>2, <2>3, DivisionUnique
  <2> QED BY <2>4 DEF c
<1>11. Wrapped(n % N, N) = Wrapped(at.y, N) /\ Wrapped((n \div N) % M, M) = Wrapped(at.z, M)
  BY <1>3, <1>8, <1>9
<1> QED BY <1>5, <1>10, <1>11 DEF x, M, N

\* A short's two bytes are it modulo all there are, in either byte order.
THEOREM ShortKept ==
  ASSUME NEW v \in Int, NEW big \in BOOLEAN, NEW in, Len(in) \in Nat, NEW p \in Nat \ {0},
         Stands(writeShort(v, big), in, p)
  PROVE  readShort(in, p, big) = Found(v % Shorts, p + 2) /\ Shorts \in Nat \ {0}
<1> DEFINE B == 2 * Base
           a == v \div B
           h == a % B
           l == v % B
           q == a \div B
           first == IF big THEN h ELSE l
           second == IF big THEN l ELSE h
<1>1. B \in Nat \ {0} /\ Shorts = B * B
  BY NumberSizes DEF Shorts
<1> HIDE DEF B
<1>2. a \in Int /\ l \in 0 .. B - 1 /\ v = B * a + l
  BY <1>1, IntegerDivision
<1> HIDE DEF a, l
<1>3. q \in Int /\ h \in 0 .. B - 1 /\ a = B * q + h
  BY <1>1, <1>2, IntegerDivision
<1> HIDE DEF h, q
<1>4. writeShort(v, big) = << Octet(first), Octet(second) >>
  BY DEF writeShort, B, a, h, l
<1>5. first \in Int /\ second \in Int
  BY <1>2, <1>3
<1>6. IF big THEN B * first + second = B * h + l ELSE B * second + first = B * h + l
  OBVIOUS
<1> HIDE DEF first, second
<1>7. readNumeric("b", in, p) = Found(first, p + 1) /\ readNumeric("b", in, p + 1) = Found(second, p + 2)
  <2> DEFINE q2 == p + 1
             w == writeShort(v, big)
  <2>1. Len(w) = 2 /\ w[1] = Octet(first) /\ w[2] = Octet(second)
    BY <1>4
  <2>2. p + 1 <= Len(in) /\ in[p] = Octet(first) /\ in[q2] = Octet(second)
    <3>1. 1 \in 1 .. 2 /\ 2 \in 1 .. 2 /\ p + 1 - 1 = p /\ p + 2 - 1 = p + 1
      OBVIOUS
    <3> HIDE DEF w
    <3> QED BY <2>1, <3>1 DEF Stands, w
  <2>3. q2 \in Nat \ {0} /\ q2 <= Len(in) /\ q2 + 1 = p + 2
    BY <2>2
  <2> HIDE DEF q2, w
  <2>4. readNumeric("b", in, q2) = Found(second, q2 + 1)
    BY <1>5, <2>2, <2>3, OctetRead
  <2>5. readNumeric("b", in, p) = Found(first, p + 1)
    BY <1>5, <2>2, OctetRead
  <2> QED BY <2>3, <2>4, <2>5 DEF q2
<1>8. readShort(in, p, big) = Found(B * h + l, p + 2)
  <2> DEFINE r == readNumeric("b", in, p)
             t == readNumeric("b", in, r.at)
  <2>1. readShort(in, p, big) =
          IF r.ok THEN IF t.ok THEN Found(IF big THEN B * r.v + t.v ELSE B * t.v + r.v, t.at) ELSE Astray
          ELSE Astray
    BY DEF readShort, Then, Map, B
  <2>2. r.ok /\ r.v = first /\ r.at = p + 1 /\ t.ok /\ t.v = second /\ t.at = p + 2
    BY <1>7 DEF Found
  <2> HIDE DEF r, t
  <2> QED BY <1>6, <2>1, <2>2
<1>9. v % (B * B) = B * h + l
  <2> DEFINE c == B * B
             r == B * h + l
  <2>1. c \in Nat \ {0}
    BY <1>1
  <2>2. r \in 0 .. c - 1
    <3>1. h + 1 <= B /\ h \in Int /\ B \in Int
      BY <1>1, <1>3
    <3>2. B * h + B <= B * B
      BY <1>1, <3>1, Product
    <3>3. B * h \in Nat
      BY <1>1, <1>3
    <3> QED BY <1>1, <1>2, <3>2, <3>3
  <2>3. v = c * q + r
    BY <1>1, <1>2, <1>3
  <2> HIDE DEF c, r
  <2>4. v % c = r
    BY <1>3, <2>1, <2>2, <2>3, DivisionUnique
  <2> QED BY <2>4 DEF c, r
<1>10. Shorts \in Nat \ {0}
  BY <1>1
<1> QED BY <1>1, <1>8, <1>9, <1>10

\* A string comes back while its length has a VarInt.
THEOREM StringKept ==
  ASSUME NEW value \in Seq(Byte), Len(value) \in VarInts, NEW in \in Seq(Byte), NEW p \in Nat \ {0},
         Stands(writeString(value), in, p)
  PROVE  readString(in, p) = Found(value, p + getVarNumericLength(Len(value)) + Len(value))
<1> DEFINE n == Len(value)
           w == writeVarNumeric(n)
           l == getVarNumericLength(n)
           s == w \o value
           q == p + l
           e == q + n - 1
<1>1. n \in Nat /\ Len(in) \in Nat /\ n \in Int
  OBVIOUS
<1>2. /\ Len(w) = l /\ l \in Nat
      /\ w \in Seq({Octet(k) : k \in 0 .. 2 * Base - 1})
  <2>1. l \in 1 .. Full /\ Full \in Nat
    BY <1>1, WrittenIs, FullHolds
  <2> HIDE DEF l
  <2>2. l \in Nat
    BY <2>1
  <2> QED BY <1>1, <2>2, WrittenIs DEF l
<1>3. Stands(s, in, p)
  BY DEF writeString, writePrefixedByteArray
<1> HIDE DEF w, l
<1>4. /\ Len(s) = l + n
      /\ \A i \in 1 .. l : s[i] = w[i]
      /\ \A i \in 1 .. n : s[l + i] = value[i]
  <2> DEFINE S == {Octet(k) : k \in 0 .. 2 * Base - 1} \cup Byte
  <2>1. w \in Seq(S) /\ value \in Seq(S)
    BY <1>2
  <2> HIDE DEF S
  <2>2. Len(value) = n
    OBVIOUS
  <2> HIDE DEF n
  <2>3. Len(s) = l + n /\ \A i \in 1 .. l + n : s[i] = IF i <= l THEN w[i] ELSE value[i - l]
    BY <1>1, <1>2, <2>1, <2>2
  <2>4. \A i \in 1 .. n : l + i \in 1 .. l + n /\ ~(l + i <= l) /\ (l + i) - l = i
    BY <1>1, <1>2
  <2>5. \A i \in 1 .. l : i \in 1 .. l + n
    BY <1>1, <1>2
  <2> HIDE DEF s
  <2> QED BY <2>3, <2>4, <2>5
<1> HIDE DEF s, n
<1>5. Stands(w, in, p)
  BY <1>1, <1>2, <1>3, <1>4 DEF Stands
<1>6. readVarNumeric(in, p) = Found(n, q)
  BY <1>1, <1>5, VarIntKept DEF w, l, n
<1>7. q \in Nat \ {0} /\ e \in Int /\ e <= Len(in) /\ e - q + 1 = n
  BY <1>1, <1>2, <1>3, <1>4 DEF Stands
<1>8. \A i \in 1 .. n : in[q + i - 1] = value[i]
  <2> SUFFICES ASSUME NEW i \in 1 .. n PROVE in[q + i - 1] = value[i]
    OBVIOUS
  <2>1. l + i \in 1 .. Len(s) /\ p + (l + i) - 1 = q + i - 1
    BY <1>1, <1>2, <1>4
  <2> QED BY <1>3, <1>4, <2>1 DEF Stands
<1>9. n \in 0 .. Len(in) + 1 - q
  BY <1>1, <1>7
<1> HIDE DEF q
<1>10. SubSeq(in, q, e) = value
  <2> HIDE DEF e
  <2>1. \A i \in q .. e : in[i] \in Byte
    BY <1>1, <1>7
  <2>2. /\ SubSeq(in, q, e) \in Seq(Byte) /\ Len(SubSeq(in, q, e)) = IF q <= e THEN e - q + 1 ELSE 0
        /\ \A i \in 1 .. e - q + 1 : SubSeq(in, q, e)[i] = in[q + i - 1]
    BY <1>7, <2>1, SubSeqProperties
  <2>3. Len(SubSeq(in, q, e)) = n
    BY <1>1, <1>7, <2>2
  <2> QED BY <1>7, <1>8, <2>2, <2>3, SeqEqual DEF n
<1>11. readByteArray(n, in, q) = Found(value, q + n)
  BY <1>9, <1>10 DEF readByteArray
<1>12. readString(in, p) = Found(value, q + n)
  BY <1>6, <1>11 DEF readString, readPrefixedByteArray, Then, Found
<1> QED BY <1>12 DEF q, l, n

-----------------------------------------------------------------------------
(* One record behind the other.                                            *)

\* What callers write, <<kind, value>>, and the bytes it is written as.
Records == UNION {{kind} \X NumberSamples[kind] : kind \in DOMAIN NumberSamples}
Code(rec, big) == EncodedNumber(rec[1], rec[2], big)

\* A record has values of its kind and is written as bytes.
LEMMA CodeType ==
  ASSUME NEW rec \in Records, NEW big \in BOOLEAN
  PROVE  /\ rec[1] \in DOMAIN NumberSamples /\ rec[2] \in NumberSamples[rec[1]]
         /\ Code(rec, big) \in Seq(Byte) /\ Len(Code(rec, big)) \in Nat
<1>1. rec[1] \in DOMAIN NumberSamples /\ rec[2] \in NumberSamples[rec[1]]
  BY DEF Records
<1>2. EncodedNumber(rec[1], rec[2], big) \in Seq(Byte)
  BY <1>1, StreamAssumption
<1>3. \A s \in Seq(Byte) : Len(s) \in Nat
  OBVIOUS
<1> QED BY <1>1, <1>2, <1>3 DEF Code

\* Whatever the kind, a reader finds what was written where it stands, and stops behind it.
LEMMA RecordKept ==
  ASSUME NEW rec \in Records, NEW big \in BOOLEAN, NEW in \in Seq(Byte), NEW p \in Nat \ {0},
         Stands(Code(rec, big), in, p)
  PROVE  /\ DecodedNumber(rec[1], in, p, big) = Found(KeptOf(rec[1], rec[2]), p + LengthOf(rec[1], rec[2]))
         /\ LengthOf(rec[1], rec[2]) = Len(Code(rec, big))
<1> DEFINE kind == rec[1]
           v == rec[2]
<1>1. /\ kind \in DOMAIN NumberTypes /\ v \in NumberTypes[kind] /\ (kind = "String" => Len(v) \in VarInts)
      /\ Stands(EncodedNumber(kind, v, big), in, p) /\ Code(rec, big) = EncodedNumber(kind, v, big)
  <2>1. kind \in DOMAIN NumberSamples /\ v \in NumberSamples[kind]
    BY CodeType
  <2> HIDE DEF kind, v
  <2>2. kind \in DOMAIN NumberTypes /\ v \in NumberTypes[kind] /\ (kind = "String" => Len(v) \in VarInts)
    BY <2>1, StreamAssumption
  <2> QED BY <2>2 DEF Code, kind, v
<1> HIDE DEF kind, v
<1>2. Len(in) \in Nat /\ VarInts \in SUBSET Int
  BY NumberSizes DEF VarInts
<1>3. /\ DOMAIN NumberTypes = {"VarInt", "ZigZag", "Position", "Short", "UnsignedShort", "String"}
      /\ NumberTypes["VarInt"] = VarInts /\ NumberTypes["ZigZag"] = VarInts
      /\ NumberTypes["Position"] = [x : Int, y : Int, z : Int] /\ NumberTypes["Short"] = Signeds(Shorts)
      /\ NumberTypes["UnsignedShort"] = 0 .. Shorts - 1 /\ NumberTypes["String"] = Seq(Byte)
  BY Zenon DEF NumberTypes
<1>4. SUFFICES /\ DecodedNumber(kind, in, p, big) = Found(KeptOf(kind, v), p + LengthOf(kind, v))
               /\ LengthOf(kind, v) = Len(EncodedNumber(kind, v, big))
  BY <1>1 DEF kind, v
<1>5. CASE kind = "VarInt"
  <2>1. /\ EncodedNumber(kind, v, big) = writeVarNumeric(v) /\ LengthOf(kind, v) = getVarNumericLength(v)
        /\ DecodedNumber(kind, in, p, big) = readVarNumeric(in, p) /\ KeptOf(kind, v) = v
    BY <1>5, Zenon DEF EncodedNumber, DecodedNumber, LengthOf, KeptOf
  <2>2. v \in VarInts /\ v \in Int
    BY <1>1, <1>2, <1>3, <1>5
  <2> QED BY <1>1, <1>2, <2>1, <2>2, VarIntKept, WrittenIs
<1>6. CASE kind = "ZigZag"
  <2>1. /\ EncodedNumber(kind, v, big) = writeZigZagVarNumeric(v) /\ LengthOf(kind, v) = getZigZagVarNumericLength(v)
        /\ DecodedNumber(kind, in, p, big) = readZigZagVarNumeric(in, p) /\ KeptOf(kind, v) = v
    BY <1>6, Zenon DEF EncodedNumber, DecodedNumber, LengthOf, KeptOf
  <2>2. v \in VarInts /\ ZigZag(v) \in Int
    <3>1. v \in VarInts /\ v \in Int
      BY <1>1, <1>2, <1>3, <1>6
    <3> QED BY <3>1 DEF ZigZag
  <2>3. Len(writeZigZagVarNumeric(v)) = getZigZagVarNumericLength(v)
    BY <2>2, WrittenIs DEF writeZigZagVarNumeric, getZigZagVarNumericLength
  <2> QED BY <1>1, <1>2, <2>1, <2>2, <2>3, ZigZagKept
<1>7. CASE kind = "Position"
  <2>1. /\ EncodedNumber(kind, v, big) = writePosition(v) /\ LengthOf(kind, v) = 1
        /\ DecodedNumber(kind, in, p, big) = readPosition(in, p)
        /\ KeptOf(kind, v) = [x |-> Wrapped(v.x, XZ), y |-> Wrapped(v.y, Y), z |-> Wrapped(v.z, XZ)]
    BY <1>7, Zenon DEF EncodedNumber, DecodedNumber, LengthOf, KeptOf
  <2>2. v \in [x : Int, y : Int, z : Int]
    BY <1>1, <1>3, <1>7
  <2>3. Len(writePosition(v)) = 1
    BY DEF writePosition, writeNumeric
  <2> QED BY <1>1, <1>2, <2>1, <2>2, <2>3, PositionKept
<1>8. CASE kind \in {"Short", "UnsignedShort"}
  <2>1. /\ EncodedNumber(kind, v, big) = writeShort(v, big) /\ LengthOf(kind, v) = 2 /\ KeptOf(kind, v) = v
        /\ DecodedNumber(kind, in, p, big) = IF kind = "Short" THEN Map(readShort(in, p, big), LAMBDA w : Wrapped(w, Shorts))
                                       ELSE readShort(in, p, big)
    BY <1>8, Zenon DEF EncodedNumber, DecodedNumber, LengthOf, KeptOf
  <2>2. Len(writeShort(v, big)) = 2
    BY DEF writeShort
  <2>3. v \in Int /\ Shorts \in Nat \ {0}
    <3>1. Shorts \in Nat \ {0}
      BY NumberSizes DEF Shorts
    <3>2. v \in Signeds(Shorts) \/ v \in 0 .. Shorts - 1
      BY <1>1, <1>3, <1>8
    <3> QED BY <3>1, <3>2 DEF Signeds
  <2>4. readShort(in, p, big) = Found(v % Shorts, p + 2)
    BY <1>1, <1>2, <2>1, <2>3, ShortKept
  <2>5. CASE kind = "Short"
    <3>1. Wrapped(v % Shorts, Shorts) = v
      <4>1. v \in Signeds(Shorts)
        BY <1>1, <1>3, <2>5
      <4> QED BY <2>3, <4>1, WrappedIs
    <3> DEFINE r == readShort(in, p, big)
    <3>2. DecodedNumber(kind, in, p, big) = IF r.ok THEN Found(Wrapped(r.v, Shorts), r.at) ELSE Astray
      BY <2>1, <2>5 DEF Map
    <3>3. r.ok /\ r.v = v % Shorts /\ r.at = p + 2
      BY <2>4 DEF Found
    <3> HIDE DEF r
    <3>4. DecodedNumber(kind, in, p, big) = Found(v, p + 2)
      BY <3>1, <3>2, <3>3
    <3> QED BY <2>1, <2>2, <3>4
  <2>6. CASE kind = "UnsignedShort"
    <3> DEFINE n == Shorts
    <3>1. n \in Nat \ {0} /\ v \in 0 .. n - 1 /\ v = n * 0 + v /\ v \in Int
      BY <1>1, <1>3, <2>3, <2>6
    <3> HIDE DEF n
    <3>2. v % n = v
      BY <3>1, DivisionUnique
    <3> QED BY <2>1, <2>2, <2>4, <2>6, <3>2 DEF n
  <2> QED BY <1>8, <2>5, <2>6
<1>9. CASE kind = "String"
  <2>1. /\ EncodedNumber(kind, v, big) = writeString(v)
        /\ LengthOf(kind, v) = getVarNumericLength(Len(v)) + Len(v)
        /\ DecodedNumber(kind, in, p, big) = readString(in, p) /\ KeptOf(kind, v) = v
    BY <1>9, Zenon DEF EncodedNumber, DecodedNumber, LengthOf, KeptOf
  <2>2. v \in Seq(Byte) /\ Len(v) \in VarInts /\ Len(v) \in Nat
    BY <1>1, <1>3, <1>9
  <2> DEFINE n == Len(v)
             l == getVarNumericLength(n)
             w == writeVarNumeric(n)
             S == {Octet(k) : k \in 0 .. 2 * Base - 1} \cup Byte
  <2>3. n \in Int
    BY <2>2
  <2>4. l \in Nat /\ Len(w) = l /\ w \in Seq(S) /\ v \in Seq(S)
    <3>1. l \in 1 .. Full /\ Full \in Nat /\ Len(w) = l /\ w \in Seq({Octet(k) : k \in 0 .. 2 * Base - 1})
      BY <2>3, WrittenIs, FullHolds
    <3> HIDE DEF l, w
    <3> QED BY <2>2, <3>1
  <2>5. Len(writeString(v)) = l + n
    <3>1. writeString(v) = w \o v
      BY DEF writeString, writePrefixedByteArray
    <3> HIDE DEF l, w, S
    <3> QED BY <2>4, <3>1
  <2>6. p + l + n = p + (l + n)
    <3> HIDE DEF l, n
    <3> QED BY <2>3, <2>4
  <2>7. readString(in, p) = Found(v, p + l + n)
    BY <1>1, <2>1, <2>2, StringKept
  <2> QED BY <2>1, <2>5, <2>6, <2>7
<1> QED BY <1>1, <1>3, <1>5, <1>6, <1>7, <1>8, <1>9

\* The bytes are those of the records, one behind the other, each from a position on.
Positioned(f, q, s, big) ==
  /\ f \in [1 .. Len(s) + 1 -> 0 .. Len(q)] /\ f[1] = 0 /\ f[Len(s) + 1] = Len(q)
  /\ \A i \in 1 .. Len(s) :
       /\ f[i + 1] = f[i] + Len(Code(s[i], big))
       /\ \A j \in 1 .. Len(Code(s[i], big)) : q[f[i] + j] = Code(s[i], big)[j]
Holds(q, s, big) == \E f : Positioned(f, q, s, big)

\* No bytes hold no records.
LEMMA HoldsNothing ==
  ASSUME NEW big
  PROVE  Holds(<<>>, <<>>, big)
<1> DEFINE f == [i \in 1 .. 1 |-> 0]
<1>1. Len(<<>>) = 0 /\ 1 .. 0 = {}
  OBVIOUS
<1>2. Positioned(f, <<>>, <<>>, big)
  BY <1>1 DEF Positioned
<1> QED BY <1>2 DEF Holds

\* Bytes with a record's bytes behind them hold one record more.
LEMMA HoldsMore ==
  ASSUME NEW big \in BOOLEAN, NEW s \in Seq(Records), NEW rec \in Records,
         NEW q \in Seq(Byte), NEW r \in Seq(Byte), Holds(q, s, big),
         Len(r) = Len(q) + Len(Code(rec, big)),
         \A i \in 1 .. Len(q) : r[i] = q[i],
         \A i \in 1 .. Len(Code(rec, big)) : r[Len(q) + i] = Code(rec, big)[i]
  PROVE  Holds(r, Append(s, rec), big)
<1> DEFINE n == Len(s)
           t == Append(s, rec)
           l == Len(Code(rec, big))
<1>1. PICK f : Positioned(f, q, s, big)
  BY DEF Holds
<1> DEFINE g == [i \in 1 .. n + 2 |-> IF i = n + 2 THEN Len(r) ELSE f[i]]
<1>2. /\ n \in Nat /\ l \in Nat /\ Len(q) \in Nat /\ Len(r) = Len(q) + l
      /\ Len(t) = n + 1 /\ t[n + 1] = rec /\ \A i \in 1 .. n : t[i] = s[i]
  BY CodeType
<1>3. /\ f \in [1 .. n + 1 -> 0 .. Len(q)] /\ f[1] = 0 /\ f[n + 1] = Len(q)
      /\ \A i \in 1 .. n : f[i + 1] = f[i] + Len(Code(s[i], big))
                           /\ \A j \in 1 .. Len(Code(s[i], big)) : q[f[i] + j] = Code(s[i], big)[j]
  BY <1>1 DEF Positioned
<1>4. \A i \in 1 .. n : s[i] \in Records
  OBVIOUS
<1>5. \A i \in 1 .. n : Len(Code(s[i], big)) \in Nat
  BY <1>4, CodeType
<1> HIDE DEF n, t, l
<1>6. \A i \in 1 .. n + 1 : g[i] = f[i]
  BY <1>2
<1>7. g \in [1 .. Len(t) + 1 -> 0 .. Len(r)]
  <2>1. Len(t) + 1 = n + 2
    BY <1>2
  <2>2. ASSUME NEW i \in 1 .. n + 2 PROVE (IF i = n + 2 THEN Len(r) ELSE f[i]) \in 0 .. Len(r)
    <3>1. CASE i = n + 2
      BY <1>2, <3>1
    <3>2. CASE i # n + 2
      <4>1. i \in 1 .. n + 1
        BY <1>2, <3>2
      <4>2. f[i] \in 0 .. Len(q)
        BY <1>3, <4>1
      <4> QED BY <1>2, <3>2, <4>2
    <3> QED BY <3>1, <3>2
  <2> QED BY <2>1, <2>2
<1>8. g[1] = 0 /\ g[Len(t) + 1] = Len(r)
  <2>1. 1 \in 1 .. n + 1 /\ n + 2 \in 1 .. n + 2 /\ Len(t) + 1 = n + 2
    BY <1>2
  <2> QED BY <1>3, <1>6, <2>1
<1> HIDE DEF g
<1>9. ASSUME NEW i \in 1 .. n
      PROVE  /\ g[i + 1] = g[i] + Len(Code(t[i], big))
             /\ \A j \in 1 .. Len(Code(t[i], big)) : r[g[i] + j] = Code(t[i], big)[j]
  <2> DEFINE k == Len(Code(s[i], big))
  <2>1. i \in 1 .. n + 1 /\ i + 1 \in 1 .. n + 1 /\ t[i] = s[i] /\ k \in Nat
    BY <1>2, <1>5
  <2>2. g[i] = f[i] /\ g[i + 1] = f[i + 1] /\ f[i] \in 0 .. Len(q) /\ f[i + 1] \in 0 .. Len(q) /\ f[i + 1] = f[i] + k
    BY <1>3, <1>6, <2>1
  <2>3. ASSUME NEW j \in 1 .. k PROVE r[g[i] + j] = Code(s[i], big)[j]
    <3>1. f[i] + j \in 1 .. Len(q)
      <4> HIDE DEF k
      <4> QED BY <1>2, <2>1, <2>2
    <3>2. r[f[i] + j] = q[f[i] + j]
      BY <3>1
    <3>3. q[f[i] + j] = Code(s[i], big)[j]
      BY <1>3
    <3> QED BY <2>2, <3>2, <3>3
  <2> QED BY <2>1, <2>2, <2>3
<1>10. g[n + 2] = g[n + 1] + l /\ \A j \in 1 .. l : r[g[n + 1] + j] = Code(rec, big)[j]
  <2>1. n + 1 \in 1 .. n + 1
    BY <1>2
  <2>2. g[n + 1] = Len(q)
    BY <1>3, <1>6, <2>1
  <2>3. g[n + 2] = Len(r)
    BY <1>2, <1>8
  <2> QED BY <1>2, <2>2, <2>3 DEF l
<1>11. Positioned(g, r, t, big)
  <2>1. \A i \in 1 .. Len(t) : i \in 1 .. n \/ (i = n + 1 /\ i + 1 = n + 2)
    BY <1>2
  <2> QED BY <1>2, <1>7, <1>8, <1>9, <1>10, <2>1 DEF Positioned, l
<1> QED BY <1>11 DEF Holds, t

\* The first record's bytes are in front; without them the bytes hold the others.
LEMMA HoldsLess ==
  ASSUME NEW big \in BOOLEAN, NEW s \in Seq(Records), s # <<>>,
         NEW q \in Seq(Byte), Holds(q, s, big)
  PROVE  LET l == Len(Code(s[1], big))
         IN  /\ l <= Len(q) /\ \A j \in 1 .. l : q[j] = Code(s[1], big)[j]
             /\ Holds(SubSeq(q, l + 1, Len(q)), Tail(s), big)
<1> DEFINE n == Len(s)
           l == Len(Code(s[1], big))
           t == Tail(s)
           k == Len(q)
           r == SubSeq(q, l + 1, k)
<1>1. PICK f : Positioned(f, q, s, big)
  BY DEF Holds
<1> DEFINE g == [i \in 1 .. n |-> f[i + 1] - l]
<1>2. n \in Nat \ {0} /\ 1 \in 1 .. n /\ Len(t) = n - 1 /\ k \in Nat /\ \A i \in 1 .. n - 1 : t[i] = s[i + 1]
  BY DEF n
<1>3. s[1] \in Records /\ l \in Nat
  <2>1. s[1] \in Records
    BY <1>2
  <2> QED BY <2>1, CodeType
<1>4. /\ f \in [1 .. n + 1 -> 0 .. k] /\ f[1] = 0 /\ f[n + 1] = k
      /\ \A i \in 1 .. n : f[i + 1] = f[i] + Len(Code(s[i], big))
                           /\ \A j \in 1 .. Len(Code(s[i], big)) : q[f[i] + j] = Code(s[i], big)[j]
  BY <1>1 DEF Positioned
<1>5. f[2] = l /\ \A j \in 1 .. l : q[0 + j] = Code(s[1], big)[j]
  <2>1. f[1 + 1] = f[1] + l /\ \A j \in 1 .. l : q[f[1] + j] = Code(s[1], big)[j]
    BY <1>2, <1>4
  <2> HIDE DEF l
  <2> QED BY <1>3, <1>4, <2>1
<1>6. \A i \in 1 .. n : Len(Code(s[i], big)) \in Nat
  <2>1. \A i \in 1 .. n : s[i] \in Records
    OBVIOUS
  <2> QED BY <2>1, CodeType
<1>7. l <= k
  <2>1. 2 \in 1 .. n + 1
    BY <1>2
  <2>2. f[2] \in 0 .. k
    BY <1>4, <2>1
  <2> HIDE DEF l, k
  <2> QED BY <1>2, <1>3, <1>5, <2>2
<1>8. r \in Seq(Byte) /\ Len(r) = k - l /\ \A i \in 1 .. k - l : r[i] = q[l + i]
  <2> DEFINE m == l + 1
  <2>1. m \in Int /\ k \in Int /\ \A i \in m .. k : q[i] \in Byte
    <3>1. \A i \in 1 .. k : q[i] \in Byte
      OBVIOUS
    <3> HIDE DEF l, k
    <3> QED BY <1>2, <1>3, <3>1
  <2>2. /\ SubSeq(q, m, k) \in Seq(Byte)
        /\ Len(SubSeq(q, m, k)) = IF m <= k THEN k - m + 1 ELSE 0
        /\ \A i \in 1 .. k - m + 1 : SubSeq(q, m, k)[i] = q[m + i - 1]
    <3> HIDE DEF m, k
    <3> QED BY <2>1, SubSeqProperties
  <2> HIDE DEF l, k
  <2>3. k - m + 1 = k - l /\ (~(m <= k) => k - l = 0) /\ \A i \in 1 .. k - l : m + i - 1 = l + i
    BY <1>2, <1>3, <1>7
  <2> QED BY <2>2, <2>3 DEF k
<1> HIDE DEF n, l, t, k, r
<1>9. \A i \in 1 .. n : i + 1 \in 1 .. n + 1 /\ f[i + 1] \in 0 .. k /\ f[i + 1] >= l
  <2> DEFINE P == {i \in Nat : i \in 1 .. n => f[i + 1] >= l}
  <2>0. \A i \in 1 .. n : i + 1 \in 1 .. n + 1 /\ f[i + 1] \in 0 .. k
    BY <1>2, <1>4
  <2>1. 0 \in P
    OBVIOUS
  <2>2. ASSUME NEW i \in Nat, i \in P PROVE i + 1 \in P
    <3>1. SUFFICES ASSUME i + 1 \in 1 .. n PROVE f[(i + 1) + 1] >= l
      OBVIOUS
    <3>2. CASE i = 0
      BY <1>3, <1>5, <3>2
    <3>3. CASE i # 0
      <4>1. i \in 1 .. n
        BY <1>2, <3>1, <3>3
      <4>2. f[i + 1] \in 0 .. k /\ f[i + 1] >= l
        BY <2>0, <2>2, <4>1
      <4>3. f[(i + 1) + 1] = f[i + 1] + Len(Code(s[i + 1], big)) /\ Len(Code(s[i + 1], big)) \in Nat
        BY <1>4, <1>6, <3>1
      <4> DEFINE c == Len(Code(s[i + 1], big))
      <4> HIDE DEF c
      <4> QED BY <1>3, <4>2, <4>3 DEF c
    <3> QED BY <3>2, <3>3
  <2> HIDE DEF P
  <2>3. P \in SUBSET Nat
    BY DEF P
  <2>4. P = Nat
    BY <2>1, <2>2, <2>3, Induction
  <2> QED BY <2>0, <2>4 DEF P
<1>10. g \in [1 .. Len(t) + 1 -> 0 .. Len(r)]
  <2>1. Len(t) + 1 = n
    BY <1>2
  <2>2. ASSUME NEW i \in 1 .. n PROVE f[i + 1] - l \in 0 .. Len(r)
    <3>1. f[i + 1] \in 0 .. k /\ f[i + 1] >= l
      BY <1>9
    <3> QED BY <1>2, <1>3, <1>8, <3>1
  <2> QED BY <2>1, <2>2
<1>11. g[1] = 0 /\ g[Len(t) + 1] = Len(r)
  <2>1. g[1] = f[2] - l
    BY <1>2
  <2>2. g[n] = f[n + 1] - l /\ Len(t) + 1 = n
    BY <1>2
  <2> HIDE DEF g
  <2> QED BY <1>3, <1>4, <1>5, <1>8, <2>1, <2>2
<1>12. ASSUME NEW i \in 1 .. Len(t)
       PROVE  /\ g[i + 1] = g[i] + Len(Code(t[i], big))
              /\ \A j \in 1 .. Len(Code(t[i], big)) : r[g[i] + j] = Code(t[i], big)[j]
  <2> DEFINE c == Len(Code(s[i + 1], big))
  <2>1. i \in 1 .. n /\ i + 1 \in 1 .. n /\ t[i] = s[i + 1]
    BY <1>2
  <2>2. g[i] = f[i + 1] - l /\ g[i + 1] = f[(i + 1) + 1] - l
    BY <2>1
  <2>3. /\ f[(i + 1) + 1] = f[i + 1] + c /\ c \in Nat
        /\ f[i + 1] \in 0 .. k /\ f[i + 1] >= l /\ f[(i + 1) + 1] \in 0 .. k
    BY <1>4, <1>6, <1>9, <2>1
  <2> HIDE DEF g, c
  <2>4. g[i + 1] = g[i] + c
    BY <1>3, <2>2, <2>3
  <2>5. ASSUME NEW j \in 1 .. c PROVE r[g[i] + j] = Code(s[i + 1], big)[j]
    <3>1. g[i] + j \in 1 .. k - l /\ l + (g[i] + j) = f[i + 1] + j
      <4> DEFINE x == g[i]
                 y == f[i + 1]
                 z == f[(i + 1) + 1]
      <4>1. x = y - l /\ z = y + c /\ c \in Nat /\ y \in 0 .. k /\ y >= l /\ z \in 0 .. k /\ l \in Nat /\ k \in Nat
        BY <1>2, <1>3, <2>2, <2>3
      <4> HIDE DEF x, y, z
      <4>2. x + j \in 1 .. k - l /\ l + (x + j) = y + j
        BY <4>1
      <4> QED BY <4>2 DEF x, y
    <3>2. r[g[i] + j] = q[f[i + 1] + j]
      BY <1>8, <3>1
    <3>3. q[f[i + 1] + j] = Code(s[i + 1], big)[j]
      BY <1>4, <2>1 DEF c
    <3> QED BY <3>2, <3>3
  <2> QED BY <2>1, <2>4, <2>5 DEF c
<1> HIDE DEF g
<1>13. Positioned(g, r, t, big)
  BY <1>10, <1>11, <1>12 DEF Positioned
<1>14. Holds(r, t, big)
  BY <1>13 DEF Holds
<1>15. \A j \in 1 .. l : 0 + j = j
  BY <1>3
<1> QED BY <1>5, <1>7, <1>14, <1>15 DEF l, t, k, r

-----------------------------------------------------------------------------
(* Numbers survive.                                                        *)

\* The buffer's blocks are whole, and the bytes that wait in it are those of the records
\* written and not yet read: where a reader stops the next record begins.
StreamInv ==
  /\ overrun = FALSE /\ Fits(buffer) /\ bigEndian \in BOOLEAN
  /\ numbers \in Seq(Records)
  /\ Holds(PendingOf(buffer), numbers, bigEndian)

\* write() puts its bytes behind those that wait.
LEMMA WrittenPending ==
  ASSUME NEW b, Fits(b), NEW data \in Seq(Byte)
  PROVE  LET q == PendingOf(b)
             r == PendingOf(Written(b, data))
         IN  /\ Fits(Written(b, data)) /\ q \in Seq(Byte) /\ r \in Seq(Byte) /\ Len(r) = Len(q) + Len(data)
             /\ \A i \in 1 .. Len(q) : r[i] = q[i]
             /\ \A i \in 1 .. Len(data) : r[Len(q) + i] = data[i]
<1> DEFINE w == Written(b, data)
           q == PendingOf(b)
           r == PendingOf(w)
           d == Len(data)
<1>1. /\ Fits(w) /\ w.reader = b.reader /\ w.writer = b.writer + d /\ d \in Nat
      /\ \A i \in 1 .. b.writer : w.cells[i] = b.cells[i]
      /\ \A i \in 1 .. d : w.cells[b.writer + i] = data[i]
  BY WrittenFits
<1>2. b.writer \in Nat /\ b.reader \in Nat /\ b.reader <= b.writer
  BY FitsFacts
<1>3. /\ q \in Seq(Byte) /\ Len(q) = b.writer - b.reader
      /\ \A i \in 1 .. b.writer - b.reader : q[i] = b.cells[b.reader + i]
  BY PendingFacts
<1>4. /\ r \in Seq(Byte) /\ Len(r) = w.writer - w.reader
      /\ \A i \in 1 .. w.writer - w.reader : r[i] = w.cells[w.reader + i]
  BY <1>1, PendingFacts
<1> HIDE DEF w, q, r, d
<1>5. Len(r) = Len(q) + d
  BY <1>1, <1>2, <1>3, <1>4
<1>6. ASSUME NEW i \in 1 .. Len(q) PROVE r[i] = q[i]
  <2>1. i \in 1 .. b.writer - b.reader /\ i \in 1 .. w.writer - w.reader /\ b.reader + i \in 1 .. b.writer
    BY <1>1, <1>2, <1>3
  <2> QED BY <1>1, <1>3, <1>4, <2>1
<1>7. ASSUME NEW i \in 1 .. d PROVE r[Len(q) + i] = data[i]
  <2>1. Len(q) + i \in 1 .. w.writer - w.reader /\ w.reader + (Len(q) + i) = b.writer + i
    BY <1>1, <1>2, <1>3
  <2> QED BY <1>1, <1>4, <2>1
<1> QED BY <1>1, <1>3, <1>4, <1>5, <1>6, <1>7 DEF w, q, r, d

\* A record at the front of the bytes is found by its reader.
LEMMA ReadingFront ==
  ASSUME StreamInv, numbers # <<>>
  PROVE  LET kind == numbers[1][1]
             v == numbers[1][2]
             l == Len(Code(numbers[1], bigEndian))
         IN  /\ NumberInFront = Found(KeptOf(kind, v), buffer.reader + 1 + l) /\ LengthOf(kind, v) = l
             /\ l \in Nat /\ buffer.reader + l <= buffer.writer /\ Taken(NumberInFront) = l
             /\ Holds(SubSeq(PendingOf(buffer), l + 1, Len(PendingOf(buffer))), Tail(numbers), bigEndian)
<1> DEFINE rec == numbers[1]
           c == Code(rec, bigEndian)
           l == Len(c)
           q == PendingOf(buffer)
           p == buffer.reader + 1
           in == buffer.cells
<1>1. rec \in Records /\ bigEndian \in BOOLEAN /\ Fits(buffer)
  <2>1. numbers \in Seq(Records) /\ 1 \in DOMAIN numbers
    BY DEF StreamInv
  <2> QED BY <2>1 DEF StreamInv
<1>2. /\ q \in Seq(Byte) /\ Len(q) = buffer.writer - buffer.reader
      /\ \A i \in 1 .. buffer.writer - buffer.reader : q[i] = in[buffer.reader + i]
  BY <1>1, PendingFacts
<1>3. /\ l <= Len(q) /\ \A j \in 1 .. l : q[j] = c[j]
      /\ Holds(SubSeq(q, l + 1, Len(q)), Tail(numbers), bigEndian)
  <2> HIDE DEF q
  <2> QED BY <1>1, <1>2, HoldsLess DEF StreamInv, q
<1>4. c \in Seq(Byte) /\ l \in Nat
  BY <1>1, CodeType
<1>5. /\ in \in Seq(Byte) /\ buffer.writer \in Nat /\ buffer.reader \in Nat
      /\ Len(in) \in Nat /\ buffer.writer < Len(in) /\ buffer.reader <= buffer.writer
  BY <1>1, FitsFacts
<1> HIDE DEF rec, c, q, in
<1>6. Stands(c, in, p)
  <2>1. p + l - 1 <= Len(in)
    BY <1>2, <1>3, <1>4, <1>5
  <2>2. ASSUME NEW i \in 1 .. l PROVE in[p + i - 1] = c[i]
    <3>1. i \in 1 .. buffer.writer - buffer.reader /\ p + i - 1 = buffer.reader + i
      BY <1>2, <1>3, <1>4, <1>5
    <3> QED BY <1>2, <1>3, <3>1
  <2> QED BY <2>1, <2>2 DEF Stands
<1>7. p \in Nat \ {0}
  BY <1>5
<1>8. /\ DecodedNumber(rec[1], in, p, bigEndian) = Found(KeptOf(rec[1], rec[2]), p + LengthOf(rec[1], rec[2]))
      /\ LengthOf(rec[1], rec[2]) = l
  BY <1>1, <1>5, <1>6, <1>7, RecordKept DEF c
<1>9. NumberInFront = Found(KeptOf(rec[1], rec[2]), p + l)
  BY <1>8 DEF NumberInFront, rec, in
<1>10. Taken(NumberInFront) = l
  <2>1. NumberInFront.at = p + l
    BY <1>9 DEF Found
  <2> HIDE DEF l, p
  <2>2. Taken(NumberInFront) = (p + l) - 1 - buffer.reader
    BY <2>1 DEF Taken
  <2> QED BY <1>4, <1>5, <2>2 DEF p
<1>11. buffer.reader + l <= buffer.writer
  BY <1>2, <1>3, <1>4, <1>5
<1> QED BY <1>3, <1>4, <1>8, <1>9, <1>10, <1>11 DEF rec, c, q

\* The invariant holds of a new buffer.
LEMMA StreamInit == NumbersInit => StreamInv /\ ReadAsWritten
<1> SUFFICES ASSUME NumbersInit PROVE StreamInv /\ ReadAsWritten
  OBVIOUS
<1>1. buffer = EmptyBuffer /\ overrun = FALSE /\ numbers = <<>> /\ bigEndian \in BOOLEAN /\ numberRead = NoNumberRead
  BY DEF NumbersInit, BufferInit
<1>2. PendingOf(EmptyBuffer) = <<>>
  <2>1. Len(PendingOf(EmptyBuffer)) = 0 - 0 /\ PendingOf(EmptyBuffer) \in Seq(Byte)
    BY EmptyFits, PendingFacts
  <2> QED BY <2>1
<1>3. Holds(PendingOf(buffer), numbers, bigEndian)
  BY <1>1, <1>2, HoldsNothing
<1>4. numbers \in Seq(Records)
  BY <1>1
<1>5. StreamInv
  BY <1>1, <1>3, <1>4, EmptyFits DEF StreamInv
<1>6. ReadAsWritten
  BY <1>1 DEF ReadAsWritten, NoNumberRead
<1> QED BY <1>5, <1>6

\* Every write, read, clear, move and switch keeps it, and a read gives what was written.
LEMMA StreamNext == StreamInv /\ ReadAsWritten /\ [NumbersNext]_numbersVars => StreamInv' /\ ReadAsWritten'
<1> SUFFICES ASSUME StreamInv, ReadAsWritten, [NumbersNext]_numbersVars PROVE StreamInv' /\ ReadAsWritten'
  OBVIOUS
<1>0. /\ overrun = FALSE /\ Fits(buffer) /\ bigEndian \in BOOLEAN /\ numbers \in Seq(Records)
      /\ Holds(PendingOf(buffer), numbers, bigEndian)
  BY DEF StreamInv
<1>1. ASSUME NEW kind \in DOMAIN NumberSamples, NEW v \in NumberSamples[kind], WriteNumber(kind, v)
      PROVE  StreamInv' /\ ReadAsWritten'
  <2> DEFINE rec == <<kind, v>>
             c == Code(rec, bigEndian)
  <2>1. rec \in Records /\ c = EncodedNumber(kind, v, bigEndian)
    BY DEF Records, Code
  <2>2. /\ buffer' = Written(buffer, c) /\ overrun' = overrun /\ bigEndian' = bigEndian
        /\ numbers' = Append(numbers, rec) /\ numberRead' = numberRead
    BY <1>1, <2>1 DEF WriteNumber, Write
  <2>3. c \in Seq(Byte)
    BY <1>0, <2>1, CodeType
  <2> DEFINE q == PendingOf(buffer)
             r == PendingOf(Written(buffer, c))
  <2>4. /\ Fits(Written(buffer, c)) /\ q \in Seq(Byte) /\ r \in Seq(Byte) /\ Len(r) = Len(q) + Len(c)
        /\ \A i \in 1 .. Len(q) : r[i] = q[i]
        /\ \A i \in 1 .. Len(c) : r[Len(q) + i] = c[i]
    <3> HIDE DEF c
    <3> QED BY <1>0, <2>3, WrittenPending
  <2>5. Holds(r, Append(numbers, rec), bigEndian)
    <3> HIDE DEF rec, q, r
    <3> QED BY <1>0, <2>1, <2>4, HoldsMore DEF q
  <2>6. PendingOf(buffer') = r
    BY <2>2
  <2> HIDE DEF rec, c, q, r
  <2>7. Append(numbers, rec) \in Seq(Records)
    BY <1>0, <2>1
  <2>8. StreamInv'
    BY <1>0, <2>2, <2>4, <2>5, <2>6, <2>7 DEF StreamInv
  <2> QED BY <2>2, <2>8 DEF ReadAsWritten
<1>2. ASSUME ReadNumber PROVE StreamInv' /\ ReadAsWritten'
  <2> DEFINE kind == numbers[1][1]
             v == numbers[1][2]
             l == Len(Code(numbers[1], bigEndian))
             q == PendingOf(buffer)
  <2>1. numbers # <<>>
    BY <1>2 DEF ReadNumber
  <2>2. /\ NumberInFront = Found(KeptOf(kind, v), buffer.reader + 1 + l) /\ LengthOf(kind, v) = l
        /\ l \in Nat /\ buffer.reader + l <= buffer.writer /\ Taken(NumberInFront) = l
        /\ Holds(SubSeq(q, l + 1, Len(q)), Tail(numbers), bigEndian)
    BY <2>1, ReadingFront
  <2>3. NumberInFront.ok /\ NumberInFront.v = KeptOf(kind, v)
    BY <2>2 DEF Found
  <2>4. /\ Read(l) /\ numbers' = Tail(numbers) /\ bigEndian' = bigEndian
        /\ numberRead' = [kind |-> kind, value |-> v, read |-> << KeptOf(kind, v) >>, took |-> l]
    <3> HIDE DEF kind, v, l
    <3> QED BY <1>2, <2>2, <2>3, Zenon DEF ReadNumber, kind, v
  <2> HIDE DEF kind, v, l
  <2>5. overrun' = FALSE
    <3>1. overrun' = IF buffer.reader + l <= buffer.writer THEN FALSE ELSE TRUE
      BY <1>0, <2>2, <2>4, ReadOverrun
    <3> QED BY <2>2, <3>1
  <2>6. buffer' = Advanced(buffer, l)
    BY <2>4 DEF Read
  <2>7. Fits(buffer') /\ PendingOf(buffer') = SubSeq(q, l + 1, Len(q))
    BY <1>0, <2>2, <2>6, AdvancedFits, ReadPending
  <2>8. numbers' \in Seq(Records)
    BY <1>0, <2>1, <2>4
  <2>9. StreamInv'
    BY <1>0, <2>2, <2>4, <2>5, <2>7, <2>8 DEF StreamInv
  <2>10. ReadAsWritten'
    BY <2>2, <2>4 DEF ReadAsWritten
  <2> QED BY <2>9, <2>10
<1>3. ASSUME ClearNumbers PROVE StreamInv' /\ ReadAsWritten'
  <2>1. /\ clear /\ numbers' = <<>> /\ bigEndian' = bigEndian /\ numberRead' = numberRead
    BY <1>3 DEF ClearNumbers
  <2>2. /\ buffer'.cells = EmptyBuffer.cells /\ buffer'.writer = EmptyBuffer.writer
        /\ buffer'.reader = EmptyBuffer.reader /\ buffer' \in Buffer /\ overrun' = overrun
    <3>1. EmptyBuffer \in Buffer /\ buffer \in Buffer
      BY <1>0, EmptyFits DEF Fits
    <3> QED BY <2>1, <3>1, Zenon DEF clear, Buffer
  <2>3. Fits(buffer') /\ PendingOf(buffer') = PendingOf(EmptyBuffer)
    BY <2>2, EmptyFits DEF Fits, PendingOf
  <2>4. PendingOf(buffer') = <<>>
    <3>1. Len(PendingOf(EmptyBuffer)) = 0 - 0 /\ PendingOf(EmptyBuffer) \in Seq(Byte)
      BY EmptyFits, PendingFacts
    <3> QED BY <2>3, <3>1
  <2>5. Holds(PendingOf(buffer'), numbers', bigEndian')
    BY <2>1, <2>4, HoldsNothing
  <2>6. numbers' \in Seq(Records)
    BY <2>1
  <2> QED BY <1>0, <2>1, <2>2, <2>3, <2>5, <2>6 DEF StreamInv, ReadAsWritten
<1>4. ASSUME RecycleUnderNumbers PROVE StreamInv' /\ ReadAsWritten'
  <2>1. toggleBlockRecycle /\ UNCHANGED <<bigEndian, numbers, numberRead>>
    BY <1>4 DEF RecycleUnderNumbers
  <2>2. /\ buffer'.cells = buffer.cells /\ buffer'.writer = buffer.writer
        /\ buffer'.reader = buffer.reader /\ buffer' \in Buffer /\ overrun' = overrun
    <3>1. buffer \in Buffer
      BY <1>0 DEF Fits
    <3> QED BY <2>1, <3>1, Zenon DEF toggleBlockRecycle, Buffer
  <2>3. Fits(buffer') /\ PendingOf(buffer') = PendingOf(buffer)
    BY <1>0, <2>2 DEF Fits, PendingOf
  <2> QED BY <1>0, <2>1, <2>2, <2>3 DEF StreamInv, ReadAsWritten
<1>5. ASSUME MoveNumbers PROVE StreamInv' /\ ReadAsWritten'
  <2>1. Move /\ UNCHANGED <<bigEndian, numbers, numberRead>>
    BY <1>5 DEF MoveNumbers
  <2>2. buffer' = Moved(buffer) /\ overrun' = overrun
    BY <2>1 DEF Move
  <2>3. Fits(buffer') /\ PendingOf(buffer') = PendingOf(buffer)
    BY <1>0, <2>2, MovedFits
  <2> QED BY <1>0, <2>1, <2>2, <2>3 DEF StreamInv, ReadAsWritten
<1>6. ASSUME UNCHANGED numbersVars PROVE StreamInv' /\ ReadAsWritten'
  BY <1>0, <1>6 DEF numbersVars, StreamInv, ReadAsWritten
<1> QED BY <1>1, <1>2, <1>3, <1>4, <1>5, <1>6 DEF NumbersNext

\* Every number, position and string comes back as it was written, in as many bytes as
\* its length says, for every width of a VarInt and of its digits, every size of a block
\* and every order of writes, reads, moves, clears and switches of block recycling.
THEOREM NumbersCorrect == NumbersSpec => []NumbersSurvive
<1>1. NumbersInit => StreamInv /\ ReadAsWritten
  BY StreamInit
<1>2. StreamInv /\ ReadAsWritten /\ [NumbersNext]_numbersVars => StreamInv' /\ ReadAsWritten'
  BY StreamNext
<1>3. StreamInv /\ ReadAsWritten => NumbersSurvive
  BY DEF StreamInv, NumbersSurvive, NeverOverrun
<1> QED BY <1>1, <1>2, <1>3, PTL DEF NumbersSpec

\* A caller that writes and reads records is a caller of the buffer, to which it is the
\* queue of bytes ZincByteQueue describes.
THEOREM StreamImplementsQueue == NumbersSpec => ByteQueue
<1>1. NumbersInit => BufferInit
  BY DEF NumbersInit
<1>2. ASSUME StreamInv, [NumbersNext]_numbersVars PROVE [BufferNext]_bufferVars
  <2> USE <1>2
  <2>1. ASSUME NEW kind \in DOMAIN NumberSamples, NEW v \in NumberSamples[kind], WriteNumber(kind, v)
        PROVE  BufferNext
    <3>1. EncodedNumber(kind, v, bigEndian) \in Seq(Byte)
      BY StreamAssumption DEF StreamInv
    <3>2. ~overrun /\ Write(EncodedNumber(kind, v, bigEndian))
      BY <2>1 DEF WriteNumber, NumbersReady
    <3> QED BY <3>1, <3>2 DEF BufferNext
  <2>2. ASSUME ReadNumber PROVE BufferNext
    <3>1. numbers # <<>> /\ ~overrun
      BY <2>2 DEF ReadNumber, NumbersReady
    <3>2. NumberInFront.ok /\ Taken(NumberInFront) \in Nat
      BY <3>1, ReadingFront DEF Found
    <3>3. Read(Taken(NumberInFront))
      BY <2>2, <3>2 DEF ReadNumber
    <3> QED BY <3>1, <3>2, <3>3 DEF BufferNext
  <2>3. CASE ClearNumbers \/ RecycleUnderNumbers \/ MoveNumbers
    BY <2>3 DEF ClearNumbers, RecycleUnderNumbers, MoveNumbers, NumbersReady, BufferNext
  <2>4. CASE UNCHANGED numbersVars
    BY <2>4 DEF numbersVars, bufferVars
  <2> QED BY <2>1, <2>2, <2>3, <2>4 DEF NumbersNext
<1>3. StreamInv /\ [NumbersNext]_numbersVars => [BufferNext]_bufferVars
  BY <1>2
<1>4. NumbersInit => StreamInv /\ ReadAsWritten
  BY StreamInit
<1>5. StreamInv /\ ReadAsWritten /\ [NumbersNext]_numbersVars => StreamInv' /\ ReadAsWritten'
  BY StreamNext
<1>6. NumbersSpec => BufferSpec
  BY <1>1, <1>3, <1>4, <1>5, PTL DEF NumbersSpec, BufferSpec
<1> QED BY <1>6, BufferImplementsQueue
=============================================================================
