------------------------------ MODULE ZincSums ------------------------------
(***************************************************************************)
(* Positions in a stream that is a concatenation of pieces, and powers.    *)
(* Recursive functions, of which ZincSumsProofs shows what they compute.   *)
(***************************************************************************)
EXTENDS Integers

\* Of pieces numbered from 1, given by their sizes: End(sizes, k) is the position
\* behind the first k of them.
End(sizes, k) ==
  LET sum[i \in {0} \cup DOMAIN sizes] == IF i = 0 THEN 0 ELSE sum[i - 1] + sizes[i]
  IN  sum[k]

\* b to the n: how far a shift by n digits of b values goes.
Power(b, n) ==
  LET power[i \in 0 .. n] == IF i = 0 THEN 1 ELSE b * power[i - 1]
  IN  power[n]
=============================================================================
