-------------------------- MODULE MCZincMessenger --------------------------
(***************************************************************************)
(* A model-checking instance of ZincMessenger.                             *)
(***************************************************************************)
EXTENDS ZincMessenger

\* One packet of each kind that is answered differently, with and without a
\* callback id.
Packets ==
  << [n |-> 1, type |-> "test", callbackId |-> 1],
     [n |-> 2, type |-> "value", callbackId |-> 2],
     [n |-> 3, type |-> "other", callbackId |-> NoCallback] >>
============================================================================
