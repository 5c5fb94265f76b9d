----------------------------- MODULE ZincBuffer -----------------------------
(***************************************************************************)
(* ByteBuffer::InternalByteBuffer: a deque of blocks of BLOCK_SIZE bytes   *)
(* with a reader and a writer, which may give blocks back that have been   *)
(* read (block recycling).                                                 *)
(*                                                                         *)
(* "cells" are the blocks one behind the other; a position is the number   *)
(* of cells before it, so that block and offset are its quotient and       *)
(* remainder by BLOCK_SIZE.  What was never written is zero, and a read    *)
(* that goes past the writer returns those zeros as long as there are      *)
(* blocks.                                                                 *)
(***************************************************************************)
EXTENDS Integers, Sequences

CONSTANTS
  BLOCK_SIZE,
  Byte,        \* values of a cell
  Zero         \* a cell that was never written

ASSUME BufferAssumption == BLOCK_SIZE \in Nat \ {0} /\ Zero \in Byte

Buffer == [cells : Seq(Byte), writer : Nat, reader : Nat, recycle : BOOLEAN]

\* The cells of the blocks before the one a position is in.
BlockStart(n) == BLOCK_SIZE * (n \div BLOCK_SIZE)
BlockEndFull(n) ==  \* mutant: no block is added when the last one is exactly full
  IF n % BLOCK_SIZE = 0 /\ n > 0 THEN n ELSE BlockStart(n) + BLOCK_SIZE
BlockEnd(n) == BlockStart(n) + BLOCK_SIZE

EmptyBuffer == [cells |-> [i \in 1 .. BLOCK_SIZE |-> Zero], writer |-> 0, reader |-> 0, recycle |-> FALSE]

\* write(): a block that gets full is followed by a new one.
Written(b, data) ==
  LET end == b.writer + Len(data)
  IN [b EXCEPT
       !.writer = end,
       !.cells = [i \in 1 .. BlockEnd(end) |->
                    IF i \in b.writer + 1 .. end THEN data[i - b.writer]
                    ELSE IF i <= Len(b.cells) THEN b.cells[i] ELSE Zero]]

\* How many of n cells read() can return, and which.
Readable(b, n) ==
  IF b.reader + n <= Len(b.cells) THEN n
  ELSE IF b.reader <= Len(b.cells) THEN Len(b.cells) - b.reader ELSE 0
Front(b, n) == SubSeq(b.cells, b.reader + 1, b.reader + Readable(b, n))

\* read() with block recycling: every block the reader leaves is popped, and the
\* writer's block number goes down with it unless it is 0 already.
WriterAfter(writer, gone) == IF writer >= gone THEN writer - gone ELSE writer % BLOCK_SIZE
Gone(b, end) == IF b.recycle THEN BlockStart(end) - BlockStart(b.reader) ELSE 0
Advanced(b, n) ==
  LET end == b.reader + Readable(b, n)
      gone == Gone(b, end)
  IN [b EXCEPT !.reader = end - gone,
               !.writer = WriterAfter(b.writer, gone),
               !.cells = SubSeq(b.cells, gone + 1, Len(b.cells))]

\* getBytes(), size() and getReaderPointer().
getBytes(b) == SubSeq(b.cells, 1, b.writer)
size(b) == b.writer
getReaderPointer(b) == b.reader
MovedUnread(b) == Written(EmptyBuffer, getBytes(b))  \* mutant: what was read is read again
\* ByteBuffer(ByteBuffer&&): the bytes, and the reader where it was.
Moved(b) == [Written(EmptyBuffer, getBytes(b)) EXCEPT !.reader = getReaderPointer(b)]

----------------------------------------------------------------------------
VARIABLES
  buffer,
  got,         \* what the last read returned
  overrun      \* history: a read went past the writer

bufferVars == <<buffer, got, overrun>>

BufferInit == buffer = EmptyBuffer /\ got = <<>> /\ overrun = FALSE

Write(data) ==
  /\ buffer' = Written(buffer, data)
  /\ UNCHANGED <<got, overrun>>

Read(n) ==
  /\ buffer' = Advanced(buffer, n)
  /\ got' = Front(buffer, n)
  /\ overrun' = (buffer.reader + n > buffer.writer)

clear ==
  /\ buffer' = [EmptyBuffer EXCEPT !.recycle = buffer.recycle]
  /\ got' = <<>>
  /\ UNCHANGED overrun

toggleBlockRecycle ==
  /\ buffer' = [buffer EXCEPT !.recycle = ~@]
  /\ UNCHANGED <<got, overrun>>

Move ==
  /\ buffer' = Moved(buffer)
  /\ UNCHANGED <<got, overrun>>

\* What a caller does that never reads past the writer, or does so once.
BufferNext ==
  /\ ~overrun
  /\ \/ \E data \in Seq(Byte) : Write(data)
     \/ \E n \in Nat : Read(n)
     \/ clear \/ toggleBlockRecycle \/ Move
BufferSpec == BufferInit /\ [][BufferNext]_bufferVars

----------------------------------------------------------------------------
(* Properties. *)

\* The writer is in the last block, and the reader never ahead of it, however
\* blocks were added, given back and copied: what write()'s m_blocks[m_writeBlock]
\* and getBytes() rely on.
WriterInLastBlock ==
  ~overrun => Len(buffer.cells) = BlockEnd(buffer.writer) /\ buffer.reader <= buffer.writer

\* The buffer is a queue of bytes, block boundaries or not, recycled or not, until
\* somebody reads past what was written.
Pending == SubSeq(buffer.cells, buffer.reader + 1, buffer.writer)
Queue == INSTANCE ZincByteQueue WITH queue <- IF overrun THEN <<>> ELSE Pending
ByteQueue == Queue!QueueSpec
=============================================================================
