--------------------------- MODULE ZincByteQueue ---------------------------
(***************************************************************************)
(* What ByteBuffer promises its callers: a queue of bytes.  What is        *)
(* written goes in at the end, what is read comes out at the front, and    *)
(* nothing else changes it but clear.  A caller that reads more than there *)
(* is leaves the promise.                                                  *)
(***************************************************************************)
EXTENDS Naturals, Sequences

VARIABLES
  queue,       \* bytes written and not yet read
  got,         \* what the last read returned
  overrun      \* a caller has read past the end

Init == queue = <<>> /\ got = <<>> /\ overrun = FALSE

Put ==
  /\ Len(queue') >= Len(queue) /\ SubSeq(queue', 1, Len(queue)) = queue
  /\ UNCHANGED <<got, overrun>>
Get ==
  /\ \E n \in 0 .. Len(queue) : got' = SubSeq(queue, 1, n) /\ queue' = SubSeq(queue, n + 1, Len(queue))
  /\ UNCHANGED overrun
Forget == queue' = <<>> /\ got' = <<>> /\ UNCHANGED overrun
Leave == overrun' = TRUE

Next == ~overrun /\ (Put \/ Get \/ Forget \/ Leave)
QueueSpec == Init /\ [][Next]_<<queue, got, overrun>>
============================================================================
