--------------------------- MODULE MCZincSrvCtl ---------------------------
(***************************************************************************)
(* A model-checking instance of ZincSrvCtl: a length field of two bytes    *)
(* and a size_t of eight values.                                         *)
(***************************************************************************)
EXTENDS ZincSrvCtl, TLC

CONSTANTS f1, f2

P(length, size, id) == [length |-> length, size |-> size, id |-> id]
\* The first peer sends well-formed packets of two sizes, or lengths that differ
\* from the size: one too large, empty, and two that leave the range of size_t.
\* The second sends a login.
PeerStreams ==
  f1 :> { <<P(1, 1, 1), P(2, 2, 0), P(1, 1, 1)>>,
          <<P(3, 1, 0), P(1, 1, 0), P(1, 1, 1)>>,
          <<P(0, 0, 0), P(2, 2, 1)>>,
          <<P(6, 2, 1), P(1, 1, 0)>>,
          <<P(7, 1, 0), P(1, 1, 1)>> }
  @@ f2 :> { <<P(1, 1, 0)>> }
============================================================================
