-------------------------- MODULE IntervalInduction --------------------------
(***************************************************************************)
(* What proofs about definitions that are recursive over an interval of    *)
(* numbers rest on.                                                        *)
(*                                                                         *)
(* The provers cannot instantiate an induction theorem that takes a        *)
(* predicate; they can use the least element of a SET of numbers.  LeastNat *)
(* says that there is one, the induction principles follow, and a          *)
(* recursive function is shown to exist before its equation is used.       *)
(***************************************************************************)
EXTENDS Integers, WellFoundedInduction, TLAPS

-----------------------------------------------------------------------------
(* Induction over sets of numbers, and recursion over intervals.           *)

\* A set of naturals that is not empty has a least element.
LEMMA LeastNat ==
  ASSUME NEW T \in SUBSET Nat, T # {}
  PROVE  \E m \in T : \A k \in T : m <= k
<1> DEFINE R == OpToRel(<, Nat)
<1>1. IsWellFoundedOn(R, Nat)
  BY NatLessThanWellFounded
<1>2. \A x \in T : \A y \in T : y < x => <<y, x>> \in R
  BY DEF OpToRel
<1> HIDE DEF R
<1>3. PICK x \in T : \A y \in T : ~ (<<y, x>> \in R)
  BY <1>1, WFMin
<1>4. \A y \in T : ~ (y < x)
  BY <1>2, <1>3
<1>5. x \in Nat /\ \A y \in T : y \in Nat
  OBVIOUS
<1> QED
  BY <1>4, <1>5

\* A set that holds the first number of an interval, and with each but the last
\* the next, holds the whole interval.
LEMMA InductionUp ==
  ASSUME NEW lo \in Int, NEW hi \in Int, NEW T,
         lo \in T,
         \A i \in lo .. hi - 1 : i \in T => i + 1 \in T
  PROVE  \A i \in lo .. hi : i \in T
<1> DEFINE Out == {n \in Nat : lo + n <= hi /\ lo + n \notin T}
<1>1. SUFFICES ASSUME NEW i \in lo .. hi, i \notin T PROVE FALSE
  OBVIOUS
<1>2. i - lo \in Out
  BY <1>1
<1>3. PICK n \in Out : \A k \in Out : n <= k
  BY <1>2, LeastNat
<1>4. n # 0
  BY <1>3
<1>5. n - 1 \in Nat /\ n - 1 \notin Out
  BY <1>3, <1>4
<1>6. lo + (n - 1) \in T /\ lo + (n - 1) \in lo .. hi - 1
  BY <1>5, <1>3
<1>7. lo + (n - 1) + 1 = lo + n
  BY <1>3
<1> QED
  BY <1>6, <1>7, <1>3

\* The same from the last to the first.
LEMMA InductionDown ==
  ASSUME NEW lo \in Int, NEW hi \in Int, NEW T,
         hi \in T,
         \A i \in lo + 1 .. hi : i \in T => i - 1 \in T
  PROVE  \A i \in lo .. hi : i \in T
<1> DEFINE U == {i \in Int : 0 - i \in T}
           a == 0 - hi
           b == 0 - lo
<1>1. a \in U /\ a \in Int /\ b \in Int
  BY SMT
<1>2. ASSUME NEW i \in a .. b - 1, i \in U PROVE i + 1 \in U
  <2>1. 0 - i \in T /\ 0 - i \in lo + 1 .. hi
    BY <1>2
  <2>2. (0 - i) - 1 \in T /\ (0 - i) - 1 = 0 - (i + 1)
    BY <2>1
  <2> QED
    BY <2>2
<1>3. \A i \in a .. b : i \in U
  <2> HIDE DEF U, a, b
  <2> QED
    BY <1>1, <1>2, InductionUp
<1> QED
  <2> TAKE i \in lo .. hi
  <2>1. 0 - i \in U /\ 0 - (0 - i) = i
    BY <1>3
  <2> QED
    BY <2>1

\* A function g on an interval starts at c and goes on, upwards or downwards, by F.
UpFrom(g, lo, hi, c, F) == g[lo] = c /\ \A i \in lo + 1 .. hi : g[i] = F[i][g[i - 1]]
DownFrom(g, lo, hi, c, F) == g[hi] = c /\ \A i \in lo .. hi - 1 : g[i] = F[i][g[i + 1]]

\* A function may be defined upwards over an interval.
LEMMA RecursionUp ==
  ASSUME NEW lo \in Int, NEW hi \in Int, lo <= hi,
         NEW S, NEW c \in S, NEW F \in [lo .. hi -> [S -> S]]
  PROVE  \E g \in [lo .. hi -> S] : UpFrom(g, lo, hi, c, F)
<1> DEFINE Good(n) == \E g \in [lo .. n -> S] :
             g[lo] = c /\ \A i \in lo + 1 .. n : g[i] = F[i][g[i - 1]]
           T == {n \in lo .. hi : Good(n)}
<1>1. lo \in T
  <2>1. [i \in lo .. lo |-> c] \in [lo .. lo -> S] /\ [i \in lo .. lo |-> c][lo] = c
    OBVIOUS
  <2>2. lo + 1 .. lo = {}
    OBVIOUS
  <2>3. Good(lo)
    BY <2>1, <2>2
  <2> QED
    BY <2>3
<1>2. ASSUME NEW n \in lo .. hi - 1, n \in T PROVE n + 1 \in T
  <2>1. PICK g \in [lo .. n -> S] :
               g[lo] = c /\ \A i \in lo + 1 .. n : g[i] = F[i][g[i - 1]]
    BY <1>2
  <2> DEFINE h == [i \in lo .. n + 1 |-> IF i = n + 1 THEN F[n + 1][g[n]] ELSE g[i]]
  <2>2. n + 1 \in lo + 1 .. hi /\ g[n] \in S
    OBVIOUS
  <2>3. F[n + 1] \in [S -> S]
    BY <2>2
  <2>4. F[n + 1][g[n]] \in S
    BY <2>2, <2>3
  <2>5. h \in [lo .. n + 1 -> S]
    BY <2>4
  <2>6. h[lo] = c
    BY <2>1
  <2>7. ASSUME NEW i \in lo + 1 .. n + 1 PROVE h[i] = F[i][h[i - 1]]
    <3>1. CASE i = n + 1
      <4>1. n + 1 # n /\ n \in lo .. n + 1 /\ (n + 1) - 1 = n
        OBVIOUS
      <4> QED
        BY <3>1, <4>1
    <3>2. CASE i # n + 1
      <4>1. i \in lo + 1 .. n /\ i - 1 \in lo .. n + 1 /\ i - 1 # n + 1 /\ i \in lo .. n + 1
        BY <3>2
      <4>2. h[i] = g[i] /\ h[i - 1] = g[i - 1]
        BY <4>1
      <4> QED
        BY <2>1, <4>1, <4>2
    <3> QED
      BY <3>1, <3>2
  <2> HIDE DEF h
  <2>8. Good(n + 1)
    BY <2>5, <2>6, <2>7
  <2> HIDE DEF Good
  <2> QED
    BY <2>8, <2>2
<1>3. \A i \in lo .. hi : i \in T
  <2> HIDE DEF T
  <2> QED
    BY <1>1, <1>2, InductionUp
<1> QED
  BY <1>3 DEF UpFrom

\* And downwards.
LEMMA RecursionDown ==
  ASSUME NEW lo \in Int, NEW hi \in Int, lo <= hi,
         NEW S, NEW c \in S, NEW F \in [lo .. hi -> [S -> S]]
  PROVE  \E g \in [lo .. hi -> S] : DownFrom(g, lo, hi, c, F)
<1> DEFINE a == 0 - hi
           b == 0 - lo
           G == [i \in a .. b |-> F[0 - i]]
<1>1. a \in Int /\ b \in Int /\ a <= b
  OBVIOUS
<1>2. G \in [a .. b -> [S -> S]]
  OBVIOUS
<1>3. \E h \in [a .. b -> S] : UpFrom(h, a, b, c, G)
  <2> HIDE DEF a, b, G
  <2> QED
    BY <1>1, <1>2, RecursionUp
<1>4. PICK h \in [a .. b -> S] : h[a] = c /\ \A i \in a + 1 .. b : h[i] = G[i][h[i - 1]]
  BY <1>3 DEF UpFrom
<1> DEFINE g == [i \in lo .. hi |-> h[0 - i]]
<1>5. g \in [lo .. hi -> S]
  BY <1>4
<1>6. g[hi] = c
  BY <1>4
<1>7. ASSUME NEW i \in lo .. hi - 1 PROVE g[i] = F[i][g[i + 1]]
  <2>1. 0 - i \in a + 1 .. b /\ 0 - (0 - i) = i
    OBVIOUS
  <2>2. h[0 - i] = G[0 - i][h[(0 - i) - 1]]
    BY <1>4, <2>1
  <2>4. 0 - i \in a .. b /\ G[0 - i] = F[i]
    BY <2>1
  <2>3. (0 - i) - 1 = 0 - (i + 1) /\ i + 1 \in lo .. hi
    OBVIOUS
  <2> QED
    BY <2>2, <2>3, <2>4
<1> QED
  BY <1>5, <1>6, <1>7 DEF DownFrom

-----------------------------------------------------------------------------
(* Arithmetic.                                                             *)

\* The numbers from 1.
Positive == Nat \ {0}

\* A product of numbers from 1 is one.
LEMMA PositiveProduct ==
  \A x, y \in Positive : x * y \in Positive /\ x <= x * y /\ y <= x * y
<1> TAKE x, y \in Positive
<1>1. x \in Int /\ y \in Int /\ x >= 1 /\ y >= 1
  BY DEF Positive
<1>2. (x - 1) * (y - 1) >= 0
  BY <1>1
<1>3. (x - 1) * (y - 1) = x * y - x - y + 1
  BY <1>1
<1> QED
  BY <1>1, <1>2, <1>3 DEF Positive

\* A factor may move across a product.
LEMMA Regroup ==
  \A x, y, z \in Int : x * (y * z) = (x * z) * y /\ (x * y) * z = x * (y * z)
OBVIOUS

\* Multiplication keeps an order.
LEMMA ProductOrder ==
  \A x, y, z \in Int : x <= y /\ z >= 0 => x * z <= y * z
<1> TAKE x, y, z \in Int
<1>1. x <= y /\ z >= 0 => (y - x) * z >= 0
  OBVIOUS
<1>2. (y - x) * z = y * z - x * z
  OBVIOUS
<1> QED
  BY <1>1, <1>2

\* Division by a number from 1.
LEMMA Division ==
  \A n \in Int : \A d \in Positive :
    /\ n \div d \in Int /\ n % d \in 0 .. d - 1
    /\ n = (n \div d) * d + (n % d)
    /\ n >= 0 => n \div d >= 0
<1> TAKE n \in Int
<1> TAKE d \in Positive
<1>1. d \in Int /\ d > 0
  BY DEF Positive
<1>2. n \div d \in Int /\ n % d \in 0 .. d - 1
  BY <1>1
<1>3. n = d * (n \div d) + (n % d)
  BY <1>1
<1>4. d * (n \div d) = (n \div d) * d
  BY <1>1, <1>2
<1>5. n >= 0 => n \div d >= 0
  <2> DEFINE q == n \div d
  <2>1. SUFFICES ASSUME n >= 0, q <= 0 - 1 PROVE FALSE
    BY <1>2
  <2>2. q * d <= (0 - 1) * d
    BY <2>1, <1>1, <1>2, ProductOrder
  <2>3. (0 - 1) * d = 0 - d /\ n = q * d + (n % d)
    BY <1>1, <1>3, <1>4
  <2> QED
    BY <2>1, <2>2, <2>3, <1>1, <1>2
<1> QED
  BY <1>2, <1>3, <1>4, <1>5

\* The quotient is the only number that leaves such a rest.
LEMMA Quotient ==
  \A q, r \in Int : \A d \in Positive :
    r \in 0 .. d - 1 => (q * d + r) \div d = q /\ (q * d + r) % d = r
<1> TAKE q, r \in Int
<1> TAKE d \in Positive
<1> HAVE r \in 0 .. d - 1
<1>1. d \in Int /\ d > 0 /\ q * d \in Int
  BY DEF Positive
<1> DEFINE n == q * d + r
           p == n \div d
           s == n % d
<1>2. n \in Int
  BY <1>1
<1>3. p \in Int /\ s \in 0 .. d - 1 /\ n = p * d + s
  <2> HIDE DEF n
  <2> QED
    BY <1>2, Division
<1>4. (q - p) * d = s - r
  <2>1. (q - p) * d = q * d - p * d
    BY <1>1, <1>3
  <2> HIDE DEF p, s
  <2> QED
    BY <2>1, <1>1, <1>3
<1>5. q = p
  <2> HIDE DEF p, s, n
  <2>1. CASE q >= p + 1
    <3>1. 1 * d <= (q - p) * d
      BY <2>1, <1>1, <1>3, ProductOrder
    <3> QED
      BY <3>1, <1>1, <1>3, <1>4
  <2>2. CASE q <= p - 1
    <3>1. (q - p) * d <= (0 - 1) * d
      BY <2>2, <1>1, <1>3, ProductOrder
    <3>2. (0 - 1) * d = 0 - d
      BY <1>1
    <3> QED
      BY <3>1, <3>2, <1>1, <1>3, <1>4
  <2> QED
    BY <2>1, <2>2, <1>3
<1>6. r = s
  <2>1. (q - p) * d = 0
    BY <1>5, <1>1
  <2> HIDE DEF p, s, n
  <2> QED
    BY <2>1, <1>4, <1>3
<1> QED
  BY <1>5, <1>6
=============================================================================
