--------------------------- MODULE ZincSumsProofs ---------------------------
(***************************************************************************)
(* What ZincSums!End computes, for any number of pieces of any sizes, what *)
(* ZincSums!Power computes, for any exponent, and the facts of division    *)
(* that blocks, words and digits need.                                     *)
(*                                                                         *)
(* The library's induction over the naturals is stated for an operator.    *)
(* Here it is stated for a set, from the least element that any set of     *)
(* naturals has, and the recursive functions are built step by step.       *)
(***************************************************************************)
EXTENDS ZincSums, WellFoundedInduction, TLAPS

\* A set that holds 0 and, with a number, its successor, holds all numbers.
LEMMA Induction ==
  ASSUME NEW P \in SUBSET Nat, 0 \in P, \A n \in Nat : n \in P => n + 1 \in P
  PROVE  P = Nat
<1> DEFINE R == OpToRel(<, Nat)
           T == Nat \ P
<1>1. IsWellFoundedOn(R, Nat)
  BY NatLessThanWellFounded
<1>2. R = {ss \in Nat \X Nat : ss[1] < ss[2]}
  BY DEF OpToRel
<1> HIDE DEF R
<1>3. SUFFICES ASSUME T # {} PROVE FALSE
  OBVIOUS
<1>4. PICK x \in T : \A y \in T : ~ (<<y, x>> \in R)
  BY <1>1, <1>3, WFMin
<1>5. x # 0 /\ x \in Nat
  OBVIOUS
<1>6. x - 1 \in Nat /\ x - 1 + 1 = x /\ x - 1 < x
  BY <1>5
<1>7. <<x - 1, x>> \in R
  BY <1>2, <1>5, <1>6
<1>8. x - 1 \in P
  BY <1>4, <1>6, <1>7
<1> QED BY <1>6, <1>8

\* A function that holds the positions behind the first 0, 1, ... n pieces.
Ends(sizes, n, f) ==
  /\ f \in [0 .. n -> Nat] /\ f[0] = 0
  /\ \A i \in 1 .. n : f[i] = f[i - 1] + sizes[i]

\* With the sum for k pieces there is the sum for one more.
LEMMA EndsOneMore ==
  ASSUME NEW m \in Nat, NEW n \in Nat, n < m, NEW sizes \in [1 .. m -> Nat],
         NEW f, Ends(sizes, n, f)
  PROVE  \E g : Ends(sizes, n + 1, g)
<1> DEFINE x == f[n] + sizes[n + 1]
           g == [i \in 0 .. n + 1 |-> IF i = n + 1 THEN x ELSE f[i]]
<1>1. f \in [0 .. n -> Nat] /\ f[0] = 0 /\ \A i \in 1 .. n : f[i] = f[i - 1] + sizes[i]
  BY DEF Ends
<1>2. x \in Nat
  BY <1>1
<1> HIDE DEF x
<1>3. g \in [0 .. n + 1 -> Nat] /\ g[0] = 0
  BY <1>1, <1>2
<1>4. ASSUME NEW i \in 1 .. n + 1 PROVE g[i] = g[i - 1] + sizes[i]
  <2>1. CASE i = n + 1
    BY <1>1, <2>1 DEF x
  <2>2. CASE i # n + 1
    <3>1. i \in 1 .. n /\ i - 1 \in 0 .. n /\ i - 1 # n + 1 /\ i \in 0 .. n + 1 /\ i - 1 \in 0 .. n + 1
      BY <2>2
    <3> QED BY <1>1, <2>2, <3>1
  <2> QED BY <2>1, <2>2
<1> HIDE DEF g
<1> QED BY <1>3, <1>4 DEF Ends

\* There are sums for any number of pieces.
LEMMA EndsExist ==
  ASSUME NEW m \in Nat, NEW sizes \in [1 .. m -> Nat]
  PROVE  \E f : Ends(sizes, m, f)
<1> DEFINE P == {n \in Nat : n <= m => \E f : Ends(sizes, n, f)}
<1>1. 0 \in P
  <2> DEFINE f == [i \in 0 .. 0 |-> 0]
  <2>1. Ends(sizes, 0, f)
    BY DEF Ends
  <2> QED BY <2>1
<1>2. ASSUME NEW n \in Nat, n \in P PROVE n + 1 \in P
  <2>1. SUFFICES ASSUME n + 1 <= m PROVE \E f : Ends(sizes, n + 1, f)
    OBVIOUS
  <2>2. PICK f : Ends(sizes, n, f)
    BY <1>2, <2>1
  <2> QED BY <2>1, <2>2, EndsOneMore
<1> HIDE DEF P
<1>3. P \in SUBSET Nat
  BY DEF P
<1>4. P = Nat
  BY <1>1, <1>2, <1>3, Induction
<1>5. m \in P /\ m <= m
  BY <1>4
<1> QED BY <1>5 DEF P

\* The recursive function of the definition is one.
LEMMA EndUnfolds ==
  ASSUME NEW m \in Nat, NEW sizes \in [1 .. m -> Nat]
  PROVE  /\ End(sizes, 0) = 0
         /\ \A k \in 0 .. m : End(sizes, k) \in Nat
         /\ \A k \in 1 .. m : End(sizes, k) = End(sizes, k - 1) + sizes[k]
<1> DEFINE Unfolds(f) ==
      f = [i \in {0} \cup DOMAIN sizes |-> IF i = 0 THEN 0 ELSE f[i - 1] + sizes[i]]
<1>1. PICK f : Ends(sizes, m, f)
  BY EndsExist
<1>2. {0} \cup DOMAIN sizes = 0 .. m
  OBVIOUS
<1>3. Unfolds(f)
  BY <1>1, <1>2 DEF Ends
<1> DEFINE sum == CHOOSE g : Unfolds(g)
<1>4. Unfolds(sum)
  BY <1>3
<1>5. \A k : End(sizes, k) = sum[k]
  BY DEF End
<1> HIDE DEF sum
<1>6. sum[0] = 0 /\ \A k \in 1 .. m : sum[k] = sum[k - 1] + sizes[k]
  BY <1>2, <1>4
<1>7. ASSUME NEW k \in 0 .. m PROVE sum[k] \in Nat
  <2> DEFINE P == {n \in Nat : n <= m => sum[n] \in Nat}
  <2>1. 0 \in P
    BY <1>6
  <2>2. ASSUME NEW n \in Nat, n \in P PROVE n + 1 \in P
    <3>1. SUFFICES ASSUME n + 1 <= m PROVE sum[n + 1] \in Nat
      OBVIOUS
    <3>2. n + 1 \in 1 .. m /\ n + 1 - 1 = n /\ sizes[n + 1] \in Nat /\ sum[n] \in Nat
      BY <2>2, <3>1
    <3> QED BY <1>6, <3>2
  <2> HIDE DEF P
  <2>3. P \in SUBSET Nat
    BY DEF P
  <2>4. P = Nat
    BY <2>1, <2>2, <2>3, Induction
  <2> QED BY <2>4 DEF P
<1> QED BY <1>5, <1>6, <1>7

\* What comes behind the first k pieces is no matter for where they end.
THEOREM EndOfPrefix ==
  ASSUME NEW m \in Nat, NEW sizes \in [1 .. m -> Nat],
         NEW n \in Nat, NEW others \in [1 .. n -> Nat],
         NEW k \in Nat, k <= m, k <= n, \A i \in 1 .. k : others[i] = sizes[i]
  PROVE  End(others, k) = End(sizes, k)
<1> DEFINE P == {i \in Nat : i <= k => End(others, i) = End(sizes, i)}
<1>1. 0 \in P
  BY EndUnfolds
<1>2. ASSUME NEW i \in Nat, i \in P PROVE i + 1 \in P
  <2>1. SUFFICES ASSUME i + 1 <= k PROVE End(others, i + 1) = End(sizes, i + 1)
    OBVIOUS
  <2>2. i + 1 \in 1 .. m /\ i + 1 \in 1 .. n /\ i + 1 \in 1 .. k /\ i + 1 - 1 = i
    BY <2>1
  <2>3. \A h \in 1 .. m : End(sizes, h) = End(sizes, h - 1) + sizes[h]
    BY EndUnfolds
  <2>4. \A h \in 1 .. n : End(others, h) = End(others, h - 1) + others[h]
    BY EndUnfolds
  <2> QED BY <1>2, <2>1, <2>2, <2>3, <2>4
<1> HIDE DEF P
<1>3. P \in SUBSET Nat
  BY DEF P
<1>4. P = Nat
  BY <1>1, <1>2, <1>3, Induction
<1>5. k \in P /\ k <= k
  BY <1>4
<1> QED BY <1>5 DEF P

\* Pieces that are not empty end one behind the other.
THEOREM EndIncreases ==
  ASSUME NEW m \in Nat, NEW sizes \in [1 .. m -> Nat \ {0}],
         NEW j \in 0 .. m, NEW k \in 0 .. m, j < k
  PROVE  End(sizes, j) < End(sizes, k)
<1> DEFINE P == {i \in Nat : j < i /\ i <= m => End(sizes, j) < End(sizes, i)}
<1>0. sizes \in [1 .. m -> Nat]
  OBVIOUS
<1>1. 0 \in P
  OBVIOUS
<1>2. ASSUME NEW i \in Nat, i \in P PROVE i + 1 \in P
  <2>1. SUFFICES ASSUME j < i + 1, i + 1 <= m PROVE End(sizes, j) < End(sizes, i + 1)
    OBVIOUS
  <2>2. i + 1 \in 1 .. m /\ i \in 0 .. m /\ i + 1 - 1 = i
    BY <2>1
  <2>3. /\ \A h \in 1 .. m : End(sizes, h) = End(sizes, h - 1) + sizes[h]
        /\ \A h \in 0 .. m : End(sizes, h) \in Nat
    BY <1>0, EndUnfolds
  <2>4. sizes[i + 1] \in Nat /\ sizes[i + 1] > 0
    BY <2>2
  <2>5. End(sizes, i) < End(sizes, i + 1)
    BY <2>2, <2>3, <2>4
  <2>6. j = i \/ End(sizes, j) < End(sizes, i)
    BY <1>2, <2>1, <2>2
  <2>7. End(sizes, i) \in Nat /\ End(sizes, j) \in Nat /\ End(sizes, i + 1) \in Nat
    <3>1. i + 1 \in 0 .. m
      BY <2>2
    <3> QED BY <2>2, <2>3, <3>1
  <2> QED BY <2>5, <2>6, <2>7
<1> HIDE DEF P
<1>3. P \in SUBSET Nat
  BY DEF P
<1>4. P = Nat
  BY <1>1, <1>2, <1>3, Induction
<1>5. k \in P /\ k <= m
  BY <1>4
<1> QED BY <1>5 DEF P

-----------------------------------------------------------------------------
(* Division.                                                               *)

\* Products grow with their factors.
LEMMA Product ==
  ASSUME NEW a \in Int, NEW b \in Int, NEW c \in Nat, a + 1 <= b
  PROVE  c * a + c <= c * b
<1>1. b - a - 1 \in Nat /\ c * (b - a - 1) \in Nat
  OBVIOUS
<1>2. c * (b - a - 1) = c * b - c * a - c
  OBVIOUS
<1> QED BY <1>1, <1>2

\* A number is divisor times quotient and a remainder below the divisor.
LEMMA Division ==
  ASSUME NEW n \in Nat, NEW c \in Nat \ {0}
  PROVE  n \div c \in Nat /\ n % c \in 0 .. c - 1 /\ n = c * (n \div c) + (n % c)
<1>1. n \div c \in Nat
  OBVIOUS
<1>2. n % c \in 0 .. c - 1
  OBVIOUS
<1>3. n = c * (n \div c) + (n % c)
  OBVIOUS
<1> QED BY <1>1, <1>2, <1>3

\* Numbers below 0 are divided towards the smaller one.
LEMMA IntegerDivision ==
  ASSUME NEW n \in Int, NEW c \in Nat \ {0}
  PROVE  n \div c \in Int /\ n % c \in 0 .. c - 1 /\ n = c * (n \div c) + (n % c)
<1>1. n \div c \in Int
  OBVIOUS
<1>2. n % c \in 0 .. c - 1
  OBVIOUS
<1>3. n = c * (n \div c) + (n % c)
  OBVIOUS
<1> QED BY <1>1, <1>2, <1>3

\* Only one number is the quotient.
LEMMA DivisionUnique ==
  ASSUME NEW n \in Int, NEW c \in Nat \ {0}, NEW k \in Int, NEW r \in 0 .. c - 1, n = c * k + r
  PROVE  n \div c = k /\ n % c = r
<1> DEFINE q == n \div c
           m == n % c
<1>1. q \in Int /\ m \in 0 .. c - 1 /\ n = c * q + m
  BY IntegerDivision
<1> HIDE DEF q, m
<1>2. c * q \in Int /\ c * k \in Int
  BY <1>1
<1>3. ~(q + 1 <= k)
  BY <1>1, <1>2, Product
<1>4. ~(k + 1 <= q)
  BY <1>1, <1>2, Product
<1>5. q = k
  BY <1>1, <1>3, <1>4
<1>6. m = r
  BY <1>1, <1>2, <1>5
<1> QED BY <1>5, <1>6 DEF q, m

\* A quotient is below a bound exactly if the number is below so many times the divisor.
LEMMA QuotientBelow ==
  ASSUME NEW n \in Nat, NEW c \in Nat \ {0}, NEW l \in Nat
  PROVE  n < c * l <=> n \div c < l
<1> DEFINE q == n \div c
           m == n % c
<1>1. q \in Nat /\ m \in 0 .. c - 1 /\ n = c * q + m
  BY Division
<1> HIDE DEF q, m
<1>2. c * q \in Nat /\ c * l \in Nat
  BY <1>1
<1>3. q < l => n < c * l
  BY <1>1, <1>2, Product
<1>4. ~(q < l) => ~(n < c * l)
  <2>1. ASSUME l <= q PROVE c * l <= c * q
    <3>1. CASE l = q
      BY <1>1, <1>2, <3>1
    <3>2. CASE l + 1 <= q
      BY <1>1, <1>2, <3>2, Product
    <3> QED BY <1>1, <2>1, <3>1, <3>2
  <2> QED BY <1>1, <1>2, <2>1
<1> QED BY <1>3, <1>4 DEF q

-----------------------------------------------------------------------------
(* Powers.                                                                 *)

\* A function that holds the 0th, 1st, ... nth power.
Powers(b, n, f) ==
  /\ f \in [0 .. n -> Nat] /\ f[0] = 1
  /\ \A i \in 1 .. n : f[i] = b * f[i - 1]

\* There are powers for any exponent.
LEMMA PowersExist ==
  ASSUME NEW b \in Nat, NEW m \in Nat
  PROVE  \E f : Powers(b, m, f)
<1> DEFINE P == {n \in Nat : \E f : Powers(b, n, f)}
<1>1. 0 \in P
  <2> DEFINE f == [i \in 0 .. 0 |-> 1]
  <2>1. Powers(b, 0, f)
    BY DEF Powers
  <2> QED BY <2>1
<1>2. ASSUME NEW n \in Nat, n \in P PROVE n + 1 \in P
  <2>1. PICK f : Powers(b, n, f)
    BY <1>2
  <2> DEFINE x == b * f[n]
             g == [i \in 0 .. n + 1 |-> IF i = n + 1 THEN x ELSE f[i]]
  <2>2. f \in [0 .. n -> Nat] /\ f[0] = 1 /\ \A i \in 1 .. n : f[i] = b * f[i - 1]
    BY <2>1 DEF Powers
  <2>3. x \in Nat
    BY <2>2
  <2> HIDE DEF x
  <2>4. g \in [0 .. n + 1 -> Nat] /\ g[0] = 1
    BY <2>2, <2>3
  <2>5. ASSUME NEW i \in 1 .. n + 1 PROVE g[i] = b * g[i - 1]
    <3>1. CASE i = n + 1
      <4>1. g[i] = x /\ g[i - 1] = f[n]
        BY <3>1
      <4> QED BY <4>1 DEF x
    <3>2. CASE i # n + 1
      <4>1. i \in 1 .. n /\ i - 1 \in 0 .. n /\ i - 1 # n + 1 /\ i \in 0 .. n + 1 /\ i - 1 \in 0 .. n + 1
        BY <3>2
      <4>2. g[i] = f[i] /\ g[i - 1] = f[i - 1]
        BY <3>2, <4>1
      <4> QED BY <2>2, <4>1, <4>2
    <3> QED BY <3>1, <3>2
  <2> HIDE DEF g
  <2>6. Powers(b, n + 1, g)
    BY <2>4, <2>5 DEF Powers
  <2> QED BY <2>6
<1> HIDE DEF P
<1>3. P \in SUBSET Nat
  BY DEF P
<1>4. P = Nat
  BY <1>1, <1>2, <1>3, Induction
<1> QED BY <1>4 DEF P

\* Powers are unique, so that each function of the definition holds the same.
LEMMA PowerOf ==
  ASSUME NEW b \in Nat, NEW m \in Nat, NEW f, Powers(b, m, f), NEW n \in 0 .. m
  PROVE  Power(b, n) = f[n]
<1> DEFINE Unfolds(g) == g = [i \in 0 .. n |-> IF i = 0 THEN 1 ELSE b * g[i - 1]]
           h == [i \in 0 .. n |-> f[i]]
           power == CHOOSE g : Unfolds(g)
<1>1. f \in [0 .. m -> Nat] /\ f[0] = 1 /\ \A i \in 1 .. m : f[i] = b * f[i - 1]
  BY DEF Powers
<1>2. Unfolds(h)
  BY <1>1
<1>3. Unfolds(power)
  BY <1>2
<1>4. Power(b, n) = power[n]
  BY DEF Power
<1> HIDE DEF power
<1>5. power[0] = 1 /\ \A i \in 1 .. n : power[i] = b * power[i - 1]
  BY <1>3
<1> DEFINE P == {i \in Nat : i <= n => power[i] = f[i]}
<1>6. 0 \in P
  BY <1>1, <1>5
<1>7. ASSUME NEW i \in Nat, i \in P PROVE i + 1 \in P
  <2>1. SUFFICES ASSUME i + 1 <= n PROVE power[i + 1] = f[i + 1]
    OBVIOUS
  <2>2. i + 1 \in 1 .. n /\ i + 1 \in 1 .. m /\ i + 1 - 1 = i
    BY <2>1
  <2>3. power[i + 1] = b * power[i] /\ f[i + 1] = b * f[i] /\ power[i] = f[i]
    BY <1>1, <1>5, <1>7, <2>1, <2>2
  <2> QED BY <2>3
<1> HIDE DEF P
<1>8. P \in SUBSET Nat
  BY DEF P
<1>9. P = Nat
  BY <1>6, <1>7, <1>8, Induction
<1>10. n \in P /\ n <= n
  BY <1>9
<1> QED BY <1>4, <1>10 DEF P

\* The recursive function of the definition is one: b to the n is b times b to the n - 1.
LEMMA PowerUnfolds ==
  ASSUME NEW b \in Nat
  PROVE  /\ Power(b, 0) = 1
         /\ \A n \in Nat : Power(b, n) \in Nat /\ Power(b, n + 1) = b * Power(b, n)
<1>1. Power(b, 0) = 1
  <2>1. PICK f : Powers(b, 0, f)
    BY PowersExist
  <2>2. Power(b, 0) = f[0]
    BY <2>1, PowerOf
  <2> QED BY <2>1, <2>2 DEF Powers
<1>2. ASSUME NEW n \in Nat PROVE Power(b, n) \in Nat /\ Power(b, n + 1) = b * Power(b, n)
  <2>1. PICK f : Powers(b, n + 1, f)
    BY PowersExist
  <2>2. n \in 0 .. n + 1 /\ n + 1 \in 0 .. n + 1 /\ n + 1 \in 1 .. n + 1 /\ (n + 1) - 1 = n
    OBVIOUS
  <2>3. Power(b, n) = f[n] /\ Power(b, n + 1) = f[n + 1]
    BY <2>1, <2>2, PowerOf
  <2> QED BY <2>1, <2>2, <2>3 DEF Powers
<1> QED BY <1>1, <1>2

\* Powers are no less than 1.
LEMMA PowerPositive ==
  ASSUME NEW b \in Nat \ {0}, NEW n \in Nat
  PROVE  Power(b, n) \in Nat \ {0}
<1> DEFINE P == {k \in Nat : Power(b, k) \in Nat \ {0}}
<1>1. 0 \in P
  BY PowerUnfolds
<1>2. ASSUME NEW k \in Nat, k \in P PROVE k + 1 \in P
  <2>1. Power(b, k + 1) = b * Power(b, k) /\ Power(b, k) \in Nat \ {0}
    BY <1>2, PowerUnfolds
  <2> DEFINE x == Power(b, k)
  <2> HIDE DEF x
  <2>2. b * x \in Nat \ {0}
    BY <2>1 DEF x
  <2> QED BY <2>1, <2>2 DEF x
<1> HIDE DEF P
<1>3. P \in SUBSET Nat
  BY DEF P
<1>4. P = Nat
  BY <1>1, <1>2, <1>3, Induction
<1> QED BY <1>4 DEF P

\* A shift by n and one by m digits are a shift by n + m.
LEMMA PowerAdds ==
  ASSUME NEW b \in Nat, NEW m \in Nat, NEW n \in Nat
  PROVE  Power(b, m + n) = Power(b, m) * Power(b, n)
<1> DEFINE P == {k \in Nat : Power(b, m + k) = Power(b, m) * Power(b, k)}
<1>1. 0 \in P
  BY PowerUnfolds
<1>2. ASSUME NEW k \in Nat, k \in P PROVE k + 1 \in P
  <2> DEFINE x == Power(b, m)
             y == Power(b, k)
  <2>1. Power(b, m + k) = x * y /\ x \in Nat /\ y \in Nat
    BY <1>2, PowerUnfolds
  <2>2. Power(b, k + 1) = b * y
    BY PowerUnfolds
  <2>3. Power(b, m + (k + 1)) = b * Power(b, m + k)
    <3>1. m + k \in Nat /\ (m + k) + 1 = m + (k + 1)
      OBVIOUS
    <3>2. Power(b, (m + k) + 1) = b * Power(b, m + k)
      BY <3>1, PowerUnfolds
    <3> QED BY <3>1, <3>2
  <2> HIDE DEF x, y
  <2>4. b * (x * y) = x * (b * y)
    BY <2>1
  <2>5. Power(b, m + (k + 1)) = x * Power(b, k + 1)
    BY <2>1, <2>2, <2>3, <2>4
  <2> QED BY <2>5 DEF x
<1> HIDE DEF P
<1>3. P \in SUBSET Nat
  BY DEF P
<1>4. P = Nat
  BY <1>1, <1>2, <1>3, Induction
<1> QED BY <1>4 DEF P

\* m digits of n bits are n * m bits.
LEMMA PowerOfPower ==
  ASSUME NEW b \in Nat, NEW m \in Nat, NEW n \in Nat
  PROVE  Power(Power(b, m), n) = Power(b, m * n)
<1> DEFINE c == Power(b, m)
           P == {k \in Nat : Power(c, k) = Power(b, m * k)}
<1>0. c \in Nat
  BY PowerUnfolds
<1> HIDE DEF c
<1>1. 0 \in P
  BY <1>0, PowerUnfolds
<1>2. ASSUME NEW k \in Nat, k \in P PROVE k + 1 \in P
  <2>1. Power(c, k + 1) = c * Power(c, k) /\ Power(c, k) = Power(b, m * k)
    BY <1>0, <1>2, PowerUnfolds
  <2>2. m * k \in Nat /\ m * (k + 1) = m + m * k
    OBVIOUS
  <2>3. Power(b, m + m * k) = c * Power(b, m * k)
    BY <2>2, PowerAdds DEF c
  <2> QED BY <2>1, <2>2, <2>3
<1> HIDE DEF P
<1>3. P \in SUBSET Nat
  BY DEF P
<1>4. P = Nat
  BY <1>1, <1>2, <1>3, Induction
<1>5. Power(c, n) = Power(b, m * n)
  BY <1>4 DEF P
<1> QED BY <1>5 DEF c

\* More digits hold more values.
LEMMA PowerGrows ==
  ASSUME NEW b \in Nat \ {0}, NEW m \in Nat, NEW n \in Nat, m <= n
  PROVE  Power(b, m) <= Power(b, n)
<1> DEFINE k == n - m
           x == Power(b, m)
           y == Power(b, k)
<1>1. k \in Nat /\ m + k = n
  OBVIOUS
<1> HIDE DEF k
<1>2. Power(b, n) = x * y /\ x \in Nat \ {0} /\ y \in Nat \ {0}
  BY <1>1, PowerAdds, PowerPositive
<1> HIDE DEF x, y
<1>3. x <= x * y
  <2>1. y - 1 \in Nat /\ x * (y - 1) \in Nat
    BY <1>2
  <2>2. x * y = x * (y - 1) + x
    BY <1>2
  <2> QED BY <1>2, <2>1, <2>2
<1> QED BY <1>2, <1>3 DEF x
=============================================================================
