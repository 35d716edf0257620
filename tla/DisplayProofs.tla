---------------------------- MODULE DisplayProofs ----------------------------
(***************************************************************************)
(* Proofs about the mipmap reader: the finder's arithmetic against the     *)
(* listing of the forest, for any number of levels and any steps, and the  *)
(* views and frames of MipmapView.                                         *)
(***************************************************************************)
EXTENDS MipmapView, IntervalInduction, FiniteSetTheorems, SequenceTheorems, TLAPS

-----------------------------------------------------------------------------
(* The levels.                                                             *)

\* There is a level, and the step of each is a number from 1.
LEMMA LevelFacts ==
  /\ LEVELS \in Positive
  /\ Levels = 0 .. LEVELS - 1 /\ 0 \in Levels /\ LEVELS - 1 \in Levels
  /\ \A i \in Levels : i \in Nat /\ Step(i) \in Positive
<1>1. LEVELS \in Nat /\ LEVELS > 0
  BY MipmapFinderAssumption DEF LEVELS
<1>2. \A i \in Levels : Step(i) \in Positive
  BY <1>1, MipmapFinderAssumption DEF Levels, Step, Positive, LEVELS
<1> QED
  BY <1>1, <1>2 DEF Levels, Positive

\* levelSizes meets its equation: a subtree holds the subtrees below it and its root.
LEMMA LevelSizes ==
  /\ levelSizes \in [Levels -> Positive]
  /\ levelSizes[0] = 1
  /\ \A i \in 1 .. LEVELS - 1 : levelSizes[i] = levelSizes[i - 1] * Step(i - 1) + 1
<1> DEFINE hi == LEVELS - 1
           F == [i \in 0 .. hi |-> [x \in Positive |->
                   IF i = 0 THEN x ELSE x * Step(i - 1) + 1]]
<1>1. hi \in Int /\ 0 <= hi /\ Levels = 0 .. hi
  BY LevelFacts DEF Positive
<1>2. \A i \in 1 .. hi : i - 1 \in Levels /\ i - 1 # hi
  BY <1>1
<1>3. F \in [0 .. hi -> [Positive -> Positive]]
  <2>1. ASSUME NEW i \in 0 .. hi, NEW x \in Positive, i # 0
        PROVE  x * Step(i - 1) + 1 \in Positive
    <3>1. x * Step(i - 1) \in Positive
      BY <2>1, <1>1, <1>2, LevelFacts, PositiveProduct
    <3> QED
      BY <3>1 DEF Positive
  <2> QED
    BY <2>1
<1>4. 1 \in Positive
  BY DEF Positive
<1>5. \E g \in [0 .. hi -> Positive] : UpFrom(g, 0, hi, 1, F)
  <2> HIDE DEF hi, F
  <2> QED
    BY <1>1, <1>3, <1>4, RecursionUp
<1>6. PICK g \in [0 .. hi -> Positive] : UpFrom(g, 0, hi, 1, F)
  BY <1>5
<1>7. g = [i \in Levels |-> IF i = 0 THEN 1 ELSE g[i - 1] * Step(i - 1) + 1]
  <2>1. ASSUME NEW i \in 0 .. hi
        PROVE  g[i] = IF i = 0 THEN 1 ELSE g[i - 1] * Step(i - 1) + 1
    <3>1. CASE i = 0
      BY <3>1, <1>6 DEF UpFrom
    <3>2. CASE i # 0
      <4>1. i \in 0 + 1 .. hi /\ i - 1 \in 0 .. hi
        BY <3>2, <1>1
      <4>2. g[i] = F[i][g[i - 1]] /\ g[i - 1] \in Positive
        BY <4>1, <1>6 DEF UpFrom
      <4> QED
        BY <4>2, <3>2
    <3> QED
      BY <3>1, <3>2
  <2> QED
    BY <2>1, <1>1
<1>8. levelSizes = [i \in Levels |-> IF i = 0 THEN 1
                                     ELSE levelSizes[i - 1] * Step(i - 1) + 1]
  BY <1>7 DEF levelSizes
<1>9. levelSizes[0] = 1 /\ \A i \in 1 .. hi :
        levelSizes[i] = levelSizes[i - 1] * Step(i - 1) + 1
  BY <1>8, <1>1
<1>10. \A i \in 0 .. hi : i \in {j \in Levels : levelSizes[j] \in Positive}
  <2> DEFINE T == {j \in Levels : levelSizes[j] \in Positive}
  <2>1. 0 \in T
    BY <1>9, <1>4, <1>1
  <2>2. ASSUME NEW i \in 0 .. hi - 1, i \in T PROVE i + 1 \in T
    <3>1. i + 1 \in 1 .. hi /\ i + 1 \in Levels /\ (i + 1) - 1 = i
      BY <1>1
    <3>2. levelSizes[i + 1] = levelSizes[i] * Step(i) + 1
      BY <3>1, <1>9
    <3>3. levelSizes[i] * Step(i) \in Positive
      BY <2>2, <1>1, LevelFacts, PositiveProduct
    <3> QED
      BY <3>1, <3>2, <3>3 DEF Positive
  <2> HIDE DEF T, hi
  <2>3. \A i \in 0 .. hi : i \in T
    BY <2>1, <2>2, <1>1, InductionUp
  <2> QED
    BY <2>3 DEF T
<1> QED
  BY <1>8, <1>9, <1>10, <1>1

\* levelCompression meets its equation.
LEMMA LevelCompression ==
  /\ levelCompression \in [Levels -> Positive]
  /\ levelCompression[0] = baseLevelStep
  /\ \A i \in 1 .. LEVELS - 1 :
       levelCompression[i] = levelCompression[i - 1] * Step(i - 1)
<1> DEFINE hi == LEVELS - 1
           F == [i \in 0 .. hi |-> [x \in Positive |-> IF i = 0 THEN x ELSE x * Step(i - 1)]]
<1>1. hi \in Int /\ 0 <= hi /\ Levels = 0 .. hi
  BY LevelFacts DEF Positive
<1>2. \A i \in 1 .. hi : i - 1 \in Levels /\ i - 1 # hi
  BY <1>1
<1>3. F \in [0 .. hi -> [Positive -> Positive]]
  <2>1. ASSUME NEW i \in 0 .. hi, NEW x \in Positive, i # 0
        PROVE  x * Step(i - 1) \in Positive
    BY <2>1, <1>1, <1>2, LevelFacts, PositiveProduct
  <2> QED
    BY <2>1
<1>4. baseLevelStep \in Positive
  BY MipmapViewAssumption DEF Positive
<1>5. \E g \in [0 .. hi -> Positive] : UpFrom(g, 0, hi, baseLevelStep, F)
  <2> HIDE DEF hi, F
  <2> QED
    BY <1>1, <1>3, <1>4, RecursionUp
<1>6. PICK g \in [0 .. hi -> Positive] : UpFrom(g, 0, hi, baseLevelStep, F)
  BY <1>5
<1>7. g = [i \in Levels |-> IF i = 0 THEN baseLevelStep ELSE g[i - 1] * Step(i - 1)]
  <2>1. ASSUME NEW i \in 0 .. hi
        PROVE  g[i] = IF i = 0 THEN baseLevelStep ELSE g[i - 1] * Step(i - 1)
    <3>1. CASE i = 0
      BY <3>1, <1>6 DEF UpFrom
    <3>2. CASE i # 0
      <4>1. i \in 0 + 1 .. hi /\ i - 1 \in 0 .. hi
        BY <3>2, <1>1
      <4>2. g[i] = F[i][g[i - 1]] /\ g[i - 1] \in Positive
        BY <4>1, <1>6 DEF UpFrom
      <4> QED
        BY <4>2, <3>2
    <3> QED
      BY <3>1, <3>2
  <2> QED
    BY <2>1, <1>1
<1>8. levelCompression = [i \in Levels |-> IF i = 0 THEN baseLevelStep
                                           ELSE levelCompression[i - 1] * Step(i - 1)]
  BY <1>7 DEF levelCompression
<1>9. levelCompression[0] = baseLevelStep /\ \A i \in 1 .. hi :
        levelCompression[i] = levelCompression[i - 1] * Step(i - 1)
  BY <1>8, <1>1
<1>10. \A i \in 0 .. hi : i \in {j \in Levels : levelCompression[j] \in Positive}
  <2> DEFINE T == {j \in Levels : levelCompression[j] \in Positive}
  <2>1. 0 \in T
    BY <1>9, <1>4, <1>1
  <2>2. ASSUME NEW i \in 0 .. hi - 1, i \in T PROVE i + 1 \in T
    <3>1. i + 1 \in 1 .. hi /\ i + 1 \in Levels /\ (i + 1) - 1 = i
      BY <1>1
    <3>2. levelCompression[i + 1] = levelCompression[i] * Step(i)
      BY <3>1, <1>9
    <3>3. levelCompression[i] * Step(i) \in Positive
      BY <2>2, <1>1, LevelFacts, PositiveProduct
    <3> QED
      BY <3>1, <3>2, <3>3
  <2> HIDE DEF T, hi
  <2>3. \A i \in 0 .. hi : i \in T
    BY <2>1, <2>2, <1>1, InductionUp
  <2> QED
    BY <2>3 DEF T
<1> QED
  BY <1>8, <1>9, <1>10, <1>1

\* Count meets its equation, from the last level down.
LEMMA Counts ==
  /\ Count \in [Levels -> Positive]
  /\ Count[LEVELS - 1] = Step(LEVELS - 1)
  /\ \A i \in 0 .. LEVELS - 2 : Count[i] = Count[i + 1] * Step(i)
<1> DEFINE hi == LEVELS - 1
           c == Step(hi)
           F == [i \in 0 .. hi |-> [x \in Positive |-> IF i = hi THEN x ELSE x * Step(i)]]
<1>1. hi \in Int /\ 0 <= hi /\ Levels = 0 .. hi /\ LEVELS - 2 = hi - 1
  BY LevelFacts DEF Positive
<1>3. F \in [0 .. hi -> [Positive -> Positive]]
  <2>1. ASSUME NEW i \in 0 .. hi, NEW x \in Positive
        PROVE  x * Step(i) \in Positive
    BY <1>1, LevelFacts, PositiveProduct
  <2> QED
    BY <2>1
<1>4. c \in Positive
  BY LevelFacts
<1>5. \E g \in [0 .. hi -> Positive] : DownFrom(g, 0, hi, c, F)
  <2> HIDE DEF hi, F, c
  <2> QED
    BY <1>1, <1>3, <1>4, RecursionDown
<1>6. PICK g \in [0 .. hi -> Positive] : DownFrom(g, 0, hi, c, F)
  BY <1>5
<1>7. g = [i \in Levels |-> IF i = LEVELS - 1 THEN Step(i) ELSE g[i + 1] * Step(i)]
  <2>1. ASSUME NEW i \in 0 .. hi
        PROVE  g[i] = IF i = hi THEN c ELSE g[i + 1] * Step(i)
    <3>1. CASE i = hi
      BY <3>1, <1>6 DEF DownFrom
    <3>2. CASE i # hi
      <4>1. i \in 0 .. hi - 1 /\ i + 1 \in 0 .. hi
        BY <3>2, <1>1
      <4>2. g[i] = F[i][g[i + 1]] /\ g[i + 1] \in Positive
        BY <4>1, <1>6 DEF DownFrom
      <4> QED
        BY <4>2, <3>2
    <3> QED
      BY <3>1, <3>2
  <2> QED
    BY <2>1, <1>1
<1>8. Count = [i \in Levels |-> IF i = LEVELS - 1 THEN Step(i) ELSE Count[i + 1] * Step(i)]
  BY <1>7 DEF Count
<1>9. Count[hi] = c /\ \A i \in 0 .. hi - 1 : Count[i] = Count[i + 1] * Step(i)
  <2>1. \A i \in 0 .. hi - 1 : i \in Levels /\ i # LEVELS - 1
    BY <1>1
  <2> QED
    BY <1>8, <1>1, <2>1
<1>10. \A i \in 0 .. hi : i \in {j \in Levels : Count[j] \in Positive}
  <2> DEFINE T == {j \in Levels : Count[j] \in Positive}
  <2>1. hi \in T
    BY <1>9, <1>4, <1>1
  <2>2. ASSUME NEW i \in 0 + 1 .. hi, i \in T PROVE i - 1 \in T
    <3>1. i - 1 \in 0 .. hi - 1 /\ i - 1 \in Levels /\ (i - 1) + 1 = i
      BY <1>1
    <3>2. Count[i - 1] = Count[i] * Step(i - 1)
      BY <3>1, <1>9
    <3>3. Count[i] * Step(i - 1) \in Positive
      BY <2>2, <3>1, LevelFacts, PositiveProduct
    <3> QED
      BY <3>1, <3>2, <3>3
  <2> DEFINE lo == 0
  <2>4. lo \in Int /\ \A i \in lo + 1 .. hi : i \in T => i - 1 \in T
    BY <2>2
  <2> HIDE DEF T, hi, lo
  <2>5. \A i \in lo .. hi : i \in T
    BY <2>1, <2>4, <1>1, InductionDown
  <2>3. \A i \in 0 .. hi : i \in T
    BY <2>5 DEF lo
  <2> QED
    BY <2>3 DEF T
<1> QED
  BY <1>8, <1>9, <1>10, <1>1

\* A level is as coarse as any below it.
LEMMA CoarserAbove ==
  \A i, j \in Levels : i <= j => levelCompression[i] <= levelCompression[j]
<1> SUFFICES ASSUME NEW i \in Levels
             PROVE  \A j \in i .. LEVELS - 1 : levelCompression[i] <= levelCompression[j]
  BY LevelFacts
<1> DEFINE hi == LEVELS - 1
           T == {j \in i .. hi : levelCompression[i] <= levelCompression[j]}
<1>1. hi \in Int /\ i \in Int /\ i \in 0 .. hi /\ Levels = 0 .. hi
  BY LevelFacts DEF Positive
<1>2. i \in T
  BY <1>1, LevelCompression DEF Positive
<1>3. ASSUME NEW j \in i .. hi - 1, j \in T PROVE j + 1 \in T
  <2>1. j + 1 \in 1 .. hi /\ (j + 1) - 1 = j /\ j \in Levels /\ j + 1 \in i .. hi
    <3> HIDE DEF hi, T
    <3>1. j \in Int /\ i <= j /\ j <= hi - 1 /\ 0 <= i
      BY <1>1
    <3> QED
      BY <3>1, <1>1
  <2>2. levelCompression[j + 1] = levelCompression[j] * Step(j)
    BY <2>1, LevelCompression
  <2>3. levelCompression[j] <= levelCompression[j] * Step(j)
    BY <2>1, LevelCompression, LevelFacts, PositiveProduct
  <2>4. levelCompression[i] \in Int /\ levelCompression[j] \in Int /\ Step(j) \in Int
    BY <2>1, LevelCompression, LevelFacts DEF Positive
  <2> QED
    BY <1>3, <2>1, <2>2, <2>3, <2>4
<1>4. \A j \in i .. hi : j \in T
  <2> HIDE DEF T, hi
  <2> QED
    BY <1>1, <1>2, <1>3, InductionUp
<1> QED
  BY <1>4

\* The chunks of a level are a whole captured chunk.
LEMMA WholeChunk ==
  \A i \in Levels : length = Count[i] * (levelCompression[i] * chunkSize)
<1> DEFINE hi == LEVELS - 1
           T == {i \in Levels : length = Count[i] * (levelCompression[i] * chunkSize)}
<1>1. hi \in Int /\ Levels = 0 .. hi /\ hi - 1 = LEVELS - 2
  BY LevelFacts DEF Positive
<1>2. chunkSize \in Int /\ baseLevelStep \in Int
  BY MipmapViewAssumption
<1>3. 0 \in T
  <2>1. Count[0] \in Int /\ 0 \in Levels
    BY Counts, LevelFacts DEF Positive
  <2>2. (Count[0] * chunkSize) * baseLevelStep = Count[0] * (baseLevelStep * chunkSize)
    BY <2>1, <1>2, Regroup
  <2> QED
    BY <2>1, <2>2, MipmapViewAssumption, LevelCompression
<1>4. ASSUME NEW i \in 0 .. hi - 1, i \in T PROVE i + 1 \in T
  <2>1. i + 1 \in 1 .. hi /\ (i + 1) - 1 = i /\ i \in Levels /\ i + 1 \in Levels
        /\ i \in 0 .. LEVELS - 2
    BY <1>1
  <2> DEFINE n == Count[i + 1]
             c == levelCompression[i]
             s == Step(i)
  <2>2. Count[i] = n * s /\ levelCompression[i + 1] = c * s
    BY <2>1, Counts, LevelCompression
  <2>3. n \in Int /\ c \in Int /\ s \in Int
    <3>1. n \in Positive /\ c \in Positive /\ s \in Positive
      BY <2>1, Counts, LevelCompression, LevelFacts
    <3> HIDE DEF n, c, s
    <3> QED
      BY <3>1 DEF Positive
  <2>4. length = (n * s) * (c * chunkSize)
    BY <1>4, <2>2
  <2>5. (n * s) * (c * chunkSize) = n * ((c * s) * chunkSize)
    <3> HIDE DEF n, c, s
    <3>1. c * chunkSize \in Int
      BY <2>3, <1>2
    <3>2. (n * s) * (c * chunkSize) = n * (s * (c * chunkSize))
      BY <2>3, <3>1, Regroup
    <3>3. s * (c * chunkSize) = (s * c) * chunkSize /\ s * c = c * s
      BY <2>3, <1>2
    <3> QED
      BY <3>2, <3>3
  <2> QED
    BY <2>1, <2>2, <2>4, <2>5
<1>5. \A i \in 0 .. hi : i \in T
  <2> HIDE DEF T, hi
  <2>1. 0 \in Int
    OBVIOUS
  <2> QED
    BY <2>1, <1>1, <1>3, <1>4, InductionUp
<1> QED
  BY <1>5, <1>1

-----------------------------------------------------------------------------
(* Views.                                                                  *)

\* Rounding down to a multiple.
LEMMA RoundingDown ==
  ASSUME NEW n \in Nat, NEW to \in Positive
  PROVE  \E q \in Nat : /\ q = n \div to
                        /\ RoundDown(n, to) = q * to
                        /\ q * to <= n /\ n <= q * to + to - 1
<1> DEFINE q == n \div to
<1>1. to \in Int /\ n \in Int
  BY DEF Positive
<1>2. q \in Nat /\ n % to \in 0 .. to - 1 /\ n = q * to + (n % to)
  BY <1>1, Division
<1>3. q * to \in Int
  BY <1>1, <1>2
<1>4. q * to <= n /\ n <= q * to + to - 1
  <2> DEFINE r == n % to
  <2>1. r \in 0 .. to - 1 /\ n = q * to + r
    BY <1>2
  <2> HIDE DEF r, q
  <2> QED
    BY <2>1, <1>1, <1>3
<1> QED
  BY <1>2, <1>4 DEF RoundDown

\* Rounding up to a multiple: no multiple that is large enough is less.
LEMMA RoundingUp ==
  ASSUME NEW n \in Nat, NEW to \in Positive
  PROVE  \E q \in Nat : /\ RoundUp(n, to) = q * to
                        /\ n <= q * to
                        /\ \A k \in Nat : n <= k * to => q <= k
<1> DEFINE m == n + to - 1
<1>1. to \in Int /\ to > 0 /\ m \in Nat
  BY DEF Positive
<1>2. PICK q \in Nat : /\ q = m \div to /\ RoundDown(m, to) = q * to
                       /\ q * to <= m /\ m <= q * to + to - 1
  <2> HIDE DEF m
  <2> QED
    BY <1>1, RoundingDown
<1>3. RoundUp(n, to) = q * to
  BY <1>2 DEF RoundUp
<1>4. q * to \in Int
  BY <1>1
<1>5. n <= q * to
  BY <1>1, <1>2, <1>4
<1>6. ASSUME NEW k \in Nat, n <= k * to PROVE q <= k
  <2>1. SUFFICES ASSUME k + 1 <= q PROVE FALSE
    OBVIOUS
  <2>2. (k + 1) * to <= q * to
    BY <2>1, <1>1, ProductOrder
  <2>3. (k + 1) * to = k * to + to /\ k * to \in Int
    BY <1>1
  <2> QED
    BY <2>2, <2>3, <1>6, <1>1, <1>2, <1>4
<1> QED
  BY <1>3, <1>5, <1>6

\* A set of levels that is not empty has a highest.
LEMMA HighestLevel ==
  ASSUME NEW fits \in SUBSET Levels, fits # {}
  PROVE  ChooseLevel(fits) \in fits /\ \A i \in fits : i <= ChooseLevel(fits)
<1> DEFINE hi == LEVELS - 1
           T == {n \in Nat : hi - n \in fits}
<1>1. hi \in Int /\ \A i \in fits : i \in Int /\ 0 <= i /\ i <= hi
  BY LevelFacts DEF Positive
<1>2. PICK i \in fits : TRUE
  OBVIOUS
<1>3. hi - i \in T
  <2>1. hi - (hi - i) = i /\ hi - i \in Nat
    BY <1>1
  <2> QED
    BY <2>1
<1>4. PICK m \in T : \A k \in T : m <= k
  <2> HIDE DEF T
  <2>1. T \in SUBSET Nat
    BY DEF T
  <2> QED
    BY <1>3, <2>1, LeastNat
<1>5. hi - m \in fits
  OBVIOUS
<1>6. ASSUME NEW j \in fits PROVE hi - m >= j
  <2>1. hi - (hi - j) = j /\ hi - j \in Nat
    BY <1>1
  <2>2. m <= hi - j
    BY <1>4, <2>1
  <2> QED
    BY <2>2, <2>1, <1>1
<1>7. Max(fits) \in fits /\ \A j \in fits : Max(fits) >= j
  BY <1>5, <1>6 DEF Max
<1> QED
  BY <1>7, <1>1 DEF ChooseLevel

\* A range that requestView accepts.
IsRange(start, end) == start \in Nat /\ end \in Nat /\ start < end /\ end <= length

\* A view of whole chunks of level j, from the a-th to before the b-th.
Chunked(v, j, a, b) ==
  /\ a \in Nat /\ b \in Nat /\ a < b /\ b <= Count[j]
  /\ v.start = a * (levelCompression[j] * chunkSize)
  /\ v.end = b * (levelCompression[j] * chunkSize)
  /\ v.resolution = (b - a) * chunkSize

\* What a level says of a range and its view: it is the highest that is detailed
\* enough, and the view is of whole chunks of it.
ServedBy(v, start, end, j) ==
  /\ j \in Detailed(start, end) /\ \A i \in Detailed(start, end) : i <= j
  /\ compression(v) = levelCompression[j]
  /\ v.resolution * levelCompression[j] = v.end - v.start
  /\ \E a, b \in Nat : Chunked(v, j, a, b)

\* The view of a range.
LEMMA RequestedView ==
  ASSUME NEW start, NEW end, IsRange(start, end)
  PROVE  LET v == requestView(start, end)
         IN  /\ v \in View
             /\ v.start <= start /\ end <= v.end
             /\ \/ /\ Detailed(start, end) = {}
                   /\ v = [start |-> start, end |-> end, resolution |-> end - start]
                   /\ compression(v) = 1
                \/ \E j \in Levels : ServedBy(v, start, end, j)
<1> DEFINE v == requestView(start, end)
           fits == Detailed(start, end)
<1>1. start \in Nat /\ end \in Nat /\ start < end /\ end <= length /\ length \in Int
  <2>1. length \in Int
    <3>1. Count[0] \in Positive /\ levelCompression[0] \in Positive /\ chunkSize \in Positive
      BY LevelFacts, Counts, LevelCompression, MipmapViewAssumption DEF Positive
    <3>2. Count[0] * (levelCompression[0] * chunkSize) \in Int
      BY <3>1 DEF Positive
    <3> QED
      BY <3>2, WholeChunk, LevelFacts
  <2> QED
    BY <2>1 DEF IsRange
<1>2. fits \in SUBSET Levels
  BY DEF Detailed
<1>3. CASE fits = {}
  <2>1. v = [start |-> start, end |-> end, resolution |-> end - start]
    BY <1>3 DEF requestView
  <2>2. end - start \in 1 .. length
    BY <1>1
  <2>3. (end - start) \div (end - start) = 1
    <3> DEFINE d == end - start
    <3>1. d \in Positive /\ d = 1 * d + 0 /\ 0 \in 0 .. d - 1
      BY <1>1 DEF Positive
    <3> HIDE DEF d
    <3>2. (1 * d + 0) \div d = 1
      BY <3>1, Quotient
    <3>3. d \div d = 1
      BY <3>1, <3>2
    <3> QED
      BY <3>3 DEF d
  <2> QED
    BY <2>1, <2>2, <2>3, <1>1, <1>3 DEF View, compression
<1>4. CASE fits # {}
  <2> DEFINE j == ChooseLevel(fits)
             c == levelCompression[j]
             to == c * chunkSize
             f == RoundDown(start, to)
             t == RoundUp(end, to)
  <2>1. j \in fits /\ j \in Levels /\ \A i \in fits : i <= j
    <3> HIDE DEF fits
    <3> QED
      BY <1>2, <1>4, HighestLevel
  <2>2. c \in Positive /\ chunkSize \in Positive /\ Count[j] \in Positive
    BY <2>1, LevelCompression, Counts, MipmapViewAssumption DEF Positive
  <2>3. to \in Positive
    <3> HIDE DEF c
    <3> QED
      BY <2>2, PositiveProduct
  <2>4. v = [start |-> f, end |-> t, resolution |-> (t - f) \div c]
    BY <1>4 DEF requestView
  <2>5. length = Count[j] * to
    BY <2>1, WholeChunk
  <2> HIDE DEF v, fits, j, c, to
  <2>6. PICK a \in Nat : f = a * to /\ a * to <= start
    BY <1>1, <2>3, RoundingDown
  <2>7. PICK b \in Nat : t = b * to /\ end <= b * to /\ \A k \in Nat : end <= k * to => b <= k
    BY <1>1, <2>3, RoundingUp
  <2>8. c \in Int /\ to \in Int /\ to > 0 /\ c > 0 /\ chunkSize \in Int /\ chunkSize > 0
        /\ Count[j] \in Nat
    BY <2>2, <2>3 DEF Positive
  <2>9. b <= Count[j]
    BY <2>7, <2>8, <2>5, <1>1
  <2>10. a < b
    <3>1. SUFFICES ASSUME b <= a PROVE FALSE
      OBVIOUS
    <3>2. b * to <= a * to
      BY <3>1, <2>8, ProductOrder
    <3> QED
      BY <3>2, <2>6, <2>7, <2>8, <1>1
  <2> DEFINE r == (b - a) * chunkSize
  <2>11. t - f = r * c /\ r \in Int
    <3>1. t - f = (b - a) * to
      BY <2>6, <2>7, <2>8
    <3>2. (b - a) * (c * chunkSize) = ((b - a) * chunkSize) * c
      BY <2>8, Regroup
    <3> QED
      BY <3>1, <3>2, <2>8 DEF to
  <2>12. r >= 1
    <3>1. b - a \in Positive /\ chunkSize \in Positive
      BY <2>10, <2>2 DEF Positive
    <3> QED
      BY <3>1, PositiveProduct DEF Positive
  <2> HIDE DEF r, f, t
  <2>13. (t - f) \div c = r
    <3>1. (r * c + 0) \div c = r
      BY <2>11, <2>8, <2>2, Quotient
    <3>2. r * c + 0 = r * c
      BY <2>11, <2>8
    <3> QED
      BY <3>1, <3>2, <2>11
  <2>14. (t - f) \div r = c
    <3>1. r \in Positive /\ 0 \in 0 .. r - 1 /\ c \in Int /\ 0 \in Int
      BY <2>8, <2>12, <2>11 DEF Positive
    <3>2. (c * r + 0) \div r = c
      BY <3>1, Quotient
    <3>3. c * r + 0 = r * c
      BY <2>11, <2>8
    <3> QED
      BY <3>2, <3>3, <2>11
  <2>15. t <= length
    <3>1. b * to <= Count[j] * to
      BY <2>9, <2>8, ProductOrder
    <3> QED
      BY <3>1, <2>7, <2>5
  <2>16. r <= r * c
    <3>1. r \in Positive /\ c \in Positive
      BY <2>12, <2>11, <2>2 DEF Positive
    <3> QED
      BY <3>1, PositiveProduct
  <2>17. f \in Nat /\ t \in Nat /\ f <= start /\ end <= t
    <3>1. a * to \in Nat /\ b * to \in Nat
      BY <2>8
    <3> QED
      BY <3>1, <2>6, <2>7
  <2>18. r \in 1 .. length
    <3>1. r <= t - f
      BY <2>11, <2>16
    <3> QED
      BY <3>1, <2>11, <2>12, <2>15, <2>17, <1>1
  <2>19. v.start = f /\ v.end = t /\ v.resolution = r /\ v = [start |-> f, end |-> t, resolution |-> r]
    BY <2>4, <2>13
  <2>20. v \in View
    BY <2>19, <2>17, <2>18, <2>15, <1>1 DEF View
  <2>21. compression(v) = c /\ v.resolution * c = v.end - v.start
    BY <2>19, <2>14, <2>11 DEF compression
  <2>22. Chunked(v, j, a, b)
    BY <2>19, <2>6, <2>7, <2>9, <2>10 DEF Chunked, to, c, r
  <2>23. ServedBy(v, start, end, j)
    BY <2>1, <2>21, <2>22 DEF ServedBy, fits, c
  <2> QED
    BY <2>20, <2>19, <2>17, <2>23, <2>1 DEF v
<1> QED
  BY <1>3, <1>4

-----------------------------------------------------------------------------
(* The finder's sums and quotients.                                        *)

\* Indices of a chunk and its ancestors, each among the chunks with its parent.
Indices == {f \in [Levels -> Nat] : \A i \in Levels : f[i] < Step(i)}

\* A function may be defined from the last level down.
LEMMA DownLevels ==
  ASSUME NEW S, NEW c \in S, NEW F \in [Levels -> [S -> S]]
  PROVE  \E g \in [Levels -> S] : DownFrom(g, 0, LEVELS - 1, c, F)
<1> DEFINE hi == LEVELS - 1
<1>1. hi \in Int /\ 0 <= hi /\ Levels = 0 .. hi
  BY LevelFacts DEF Positive
<1>2. F \in [0 .. hi -> [S -> S]]
  BY <1>1
<1> HIDE DEF hi
<1>3. \E g \in [0 .. hi -> S] : DownFrom(g, 0, hi, c, F)
  BY <1>1, <1>2, RecursionDown
<1> QED
  BY <1>1, <1>3 DEF hi

\* A sum down the levels is a function that meets its equation; weights[i] is what
\* the sum so far is multiplied with, terms[i] what is added at level i.
LEMMA SumDown ==
  ASSUME NEW weights \in [Levels -> Nat], NEW terms \in [Levels -> Nat]
  PROVE  \E g \in [Levels -> Nat] :
           g = [i \in Levels |-> (IF i = LEVELS - 1 THEN 0 ELSE g[i + 1] * weights[i])
                                  + terms[i]]
<1> DEFINE hi == LEVELS - 1
           c == terms[hi]
           F == [i \in 0 .. hi |-> [x \in Nat |-> x * weights[i] + terms[i]]]
<1>1. hi \in Int /\ 0 <= hi /\ Levels = 0 .. hi
  BY LevelFacts DEF Positive
<1>2. F \in [0 .. hi -> [Nat -> Nat]]
  <2>1. ASSUME NEW i \in 0 .. hi, NEW x \in Nat PROVE x * weights[i] + terms[i] \in Nat
    <3>1. weights[i] \in Nat /\ terms[i] \in Nat
      BY <1>1
    <3> QED
      BY <3>1
  <2> QED
    BY <2>1
<1>3. c \in Nat
  BY <1>1
<1>4. \E g \in [0 .. hi -> Nat] : DownFrom(g, 0, hi, c, F)
  <2>1. F \in [Levels -> [Nat -> Nat]]
    BY <1>1, <1>2
  <2> HIDE DEF F, c, hi
  <2>2. \E g \in [Levels -> Nat] : DownFrom(g, 0, hi, c, F)
    BY <2>1, <1>3, DownLevels DEF hi
  <2> QED
    BY <2>2, <1>1
<1>5. PICK g \in [0 .. hi -> Nat] : DownFrom(g, 0, hi, c, F)
  BY <1>4
<1>6. ASSUME NEW i \in 0 .. hi
      PROVE  g[i] = (IF i = hi THEN 0 ELSE g[i + 1] * weights[i]) + terms[i]
  <2>1. CASE i = hi
    BY <2>1, <1>3, <1>5 DEF DownFrom
  <2>2. CASE i # hi
    <3>1. i \in 0 .. hi - 1 /\ i + 1 \in 0 .. hi
      BY <2>2, <1>1
    <3>2. g[i] = F[i][g[i + 1]] /\ g[i + 1] \in Nat
      BY <3>1, <1>5 DEF DownFrom
    <3> QED
      BY <3>2, <2>2
  <2> QED
    BY <2>1, <2>2
<1>7. g = [i \in Levels |-> (IF i = LEVELS - 1 THEN 0 ELSE g[i + 1] * weights[i]) + terms[i]]
  BY <1>6, <1>1
<1> QED
  BY <1>7, <1>1

\* A function that meets the equation is typed.
LEMMA SumDownType ==
  ASSUME NEW g, NEW weights \in [Levels -> Nat], NEW terms \in [Levels -> Nat],
         g = [i \in Levels |-> (IF i = LEVELS - 1 THEN 0 ELSE g[i + 1] * weights[i])
                               + terms[i]]
  PROVE  /\ g \in [Levels -> Nat]
         /\ g[LEVELS - 1] = terms[LEVELS - 1]
         /\ \A i \in 1 .. LEVELS - 1 : g[i - 1] = g[i] * weights[i - 1] + terms[i - 1]
<1> DEFINE hi == LEVELS - 1
           lo == 0
           T == {i \in Levels : g[i] \in Nat}
<1>1. hi \in Int /\ lo \in Int /\ 0 <= hi /\ Levels = 0 .. hi
  BY LevelFacts DEF Positive
<1>2. g[hi] = terms[hi]
  BY <1>1
<1>3. ASSUME NEW i \in 1 .. hi PROVE g[i - 1] = g[i] * weights[i - 1] + terms[i - 1]
  <2>1. i - 1 \in Levels /\ i - 1 # hi /\ (i - 1) + 1 = i
    BY <1>1
  <2> QED
    BY <2>1
<1>4. hi \in T
  BY <1>1, <1>2
<1>5. ASSUME NEW i \in lo + 1 .. hi, i \in T PROVE i - 1 \in T
  <2>1. i \in 1 .. hi /\ i - 1 \in Levels
    BY <1>1
  <2>2. weights[i - 1] \in Nat /\ terms[i - 1] \in Nat /\ g[i] \in Nat
    BY <2>1, <1>5
  <2>3. g[i] * weights[i - 1] + terms[i - 1] \in Nat
    BY <2>2
  <2> QED
    BY <2>1, <2>3, <1>3
<1>6. \A i \in lo .. hi : i \in T
  <2> HIDE DEF T, hi, lo
  <2> QED
    BY <1>1, <1>4, <1>5, InductionDown
<1> QED
  BY <1>1, <1>2, <1>3, <1>6

\* Before meets its equation.
LEMMA BeforeFacts ==
  ASSUME NEW index \in Indices
  PROVE  /\ Before(index) \in [Levels -> Nat]
         /\ Before(index)[LEVELS - 1] = index[LEVELS - 1] * levelSizes[LEVELS - 1]
         /\ \A i \in 1 .. LEVELS - 1 :
              Before(index)[i - 1] = Before(index)[i] + index[i - 1] * levelSizes[i - 1]
<1> DEFINE one == [i \in Levels |-> 1]
           terms == [i \in Levels |-> index[i] * levelSizes[i]]
           sum == Before(index)
<1>1. one \in [Levels -> Nat] /\ terms \in [Levels -> Nat]
  <2>1. ASSUME NEW i \in Levels PROVE index[i] * levelSizes[i] \in Nat
    <3>1. index[i] \in Nat /\ levelSizes[i] \in Nat
      BY LevelSizes DEF Indices, Positive
    <3> QED
      BY <3>1
  <2> QED
    BY <2>1
<1>2. PICK g \in [Levels -> Nat] :
        g = [i \in Levels |-> (IF i = LEVELS - 1 THEN 0 ELSE g[i + 1] * one[i]) + terms[i]]
  <2> HIDE DEF one, terms
  <2> QED
    BY <1>1, SumDown
<1>3. g = [i \in Levels |-> (IF i = LEVELS - 1 THEN 0 ELSE g[i + 1])
                             + index[i] * levelSizes[i]]
  <2>1. ASSUME NEW i \in Levels, i # LEVELS - 1 PROVE g[i + 1] * one[i] = g[i + 1]
    <3>1. i + 1 \in Levels
      BY <2>1, LevelFacts DEF Positive
    <3>2. g[i + 1] \in Nat
      BY <3>1, <1>2
    <3> QED
      BY <3>2
  <2> QED
    BY <2>1, <1>2
<1>4. sum = [i \in Levels |-> (IF i = LEVELS - 1 THEN 0 ELSE sum[i + 1])
                               + index[i] * levelSizes[i]]
  BY <1>3 DEF Before
<1> DEFINE hi == LEVELS - 1
           lo == 0
           T == {i \in Levels : sum[i] \in Nat}
<1>5. hi \in Int /\ lo \in Int /\ 0 <= hi /\ Levels = 0 .. hi
  BY LevelFacts DEF Positive
<1>6. sum[hi] = terms[hi]
  <2>1. terms[hi] \in Nat /\ terms[hi] = index[hi] * levelSizes[hi]
    BY <1>1, <1>5
  <2>2. sum[hi] = 0 + index[hi] * levelSizes[hi]
    <3> HIDE DEF sum
    <3> QED
      BY <1>4, <1>5
  <2> HIDE DEF sum, terms, hi
  <2> QED
    BY <2>1, <2>2
<1>7. ASSUME NEW i \in 1 .. hi
      PROVE  sum[i - 1] = sum[i] + index[i - 1] * levelSizes[i - 1]
  <2>1. i - 1 \in Levels /\ i - 1 # hi /\ (i - 1) + 1 = i
    BY <1>5
  <2> HIDE DEF sum
  <2> QED
    BY <2>1, <1>4
<1>8. hi \in T
  <2> HIDE DEF sum, terms
  <2> QED
    BY <1>1, <1>5, <1>6
<1>9. ASSUME NEW i \in lo + 1 .. hi, i \in T PROVE i - 1 \in T
  <2>1. i \in 1 .. hi /\ i - 1 \in Levels
    BY <1>5
  <2>2. terms[i - 1] \in Nat /\ terms[i - 1] = index[i - 1] * levelSizes[i - 1]
    BY <2>1, <1>1
  <2>3. sum[i] \in Nat
    BY <1>9
  <2> HIDE DEF sum, terms
  <2> QED
    BY <2>1, <2>2, <2>3, <1>7
<1>10. \A i \in lo .. hi : i \in T
  <2> HIDE DEF T, hi, lo
  <2> QED
    BY <1>5, <1>8, <1>9, InductionDown
<1>11. sum \in [Levels -> Nat]
  <2>1. \A i \in Levels : sum[i] \in Nat
    BY <1>10, <1>5
  <2> HIDE DEF sum
  <2> QED
    BY <2>1, <1>4
<1> QED
  BY <1>11, <1>6, <1>7, <1>5

\* OffsetOf meets its equation.
LEMMA OffsetFacts ==
  ASSUME NEW index \in Indices
  PROVE  /\ OffsetOf(index) \in [Levels -> Nat]
         /\ OffsetOf(index)[LEVELS - 1] = index[LEVELS - 1]
         /\ \A i \in 1 .. LEVELS - 1 :
              OffsetOf(index)[i - 1] = OffsetOf(index)[i] * Step(i - 1) + index[i - 1]
<1> DEFINE steps == [i \in Levels |-> Step(i)]
           value == OffsetOf(index)
<1>1. steps \in [Levels -> Nat] /\ index \in [Levels -> Nat]
  BY LevelFacts DEF Indices, Positive
<1>2. PICK g \in [Levels -> Nat] :
        g = [i \in Levels |-> (IF i = LEVELS - 1 THEN 0 ELSE g[i + 1] * steps[i]) + index[i]]
  <2> HIDE DEF steps
  <2> QED
    BY <1>1, SumDown
<1>3. g = [i \in Levels |-> (IF i = LEVELS - 1 THEN 0 ELSE g[i + 1] * Step(i)) + index[i]]
  BY <1>2
<1>4. value = [i \in Levels |-> (IF i = LEVELS - 1 THEN 0 ELSE value[i + 1] * Step(i))
                                 + index[i]]
  BY <1>3 DEF OffsetOf
<1>5. value = [i \in Levels |-> (IF i = LEVELS - 1 THEN 0 ELSE value[i + 1] * steps[i])
                                 + index[i]]
  <2> HIDE DEF value
  <2> QED
    BY <1>4
<1>6. /\ value \in [Levels -> Nat]
      /\ value[LEVELS - 1] = index[LEVELS - 1]
      /\ \A i \in 1 .. LEVELS - 1 : value[i - 1] = value[i] * steps[i - 1] + index[i - 1]
  <2> HIDE DEF value, steps
  <2> QED
    BY <1>1, <1>5, SumDownType
<1>7. \A i \in 1 .. LEVELS - 1 : steps[i - 1] = Step(i - 1)
  BY LevelFacts DEF Positive
<1> QED
  BY <1>6, <1>7

-----------------------------------------------------------------------------
(* The listing.                                                            *)

\* A chunk as it is listed.
Chunk == Nat \X Nat

\* The trees from first on, count of them, are listings of one size.
SameSize(trees, first, count, size) ==
  \A k \in 0 .. count - 1 :
    trees[first + k] \in Seq(Chunk) /\ Len(trees[first + k]) = size

\* A listing of them one after the other.
InTurn(list, trees, first, count, size) ==
  /\ list \in Seq(Chunk)
  /\ Len(list) = count * size
  /\ \A k \in 0 .. count - 1 : \A p \in 1 .. size :
       list[k * size + p] = trees[first + k][p]

\* Trees of one size, one after the other: the place of each of their chunks.
LEMMA Concatenation ==
  ASSUME NEW trees, NEW first \in Nat, NEW count \in Nat, NEW size \in Nat,
         SameSize(trees, first, count, size)
  PROVE  InTurn(Concat(trees, first, count), trees, first, count, size)
<1> DEFINE S == Seq(Chunk)
           lo == 0
           F == [i \in lo .. count |-> [x \in S |->
                   IF i = 0 THEN x ELSE x \o trees[first + i - 1]]]
           empty == << >>
<1>1. \A i \in 1 .. count : /\ first + i - 1 = first + (i - 1)
                            /\ trees[first + i - 1] \in S /\ Len(trees[first + i - 1]) = size
  <2> TAKE i \in 1 .. count
  <2>1. i - 1 \in 0 .. count - 1 /\ first + i - 1 = first + (i - 1)
    OBVIOUS
  <2> QED
    BY <2>1 DEF SameSize
<1>2. F \in [lo .. count -> [S -> S]] /\ empty \in S /\ lo \in Int /\ lo <= count
  <2>1. ASSUME NEW i \in lo .. count, NEW x \in S, i # 0
        PROVE  x \o trees[first + i - 1] \in S
    <3>2. i \in 1 .. count
      BY <2>1
    <3>1. trees[first + i - 1] \in S
      <4> HIDE DEF S, F
      <4> QED
        BY <1>1, <3>2
    <3> HIDE DEF F
    <3> QED
      BY <3>1
  <2>2. F \in [lo .. count -> [S -> S]]
    <3> HIDE DEF S
    <3> QED
      BY <2>1
  <2> HIDE DEF F
  <2> QED
    BY <2>2
<1>3. \E g \in [lo .. count -> S] : UpFrom(g, lo, count, empty, F)
  <2>1. count \in Int
    OBVIOUS
  <2> HIDE DEF F, S, lo, empty
  <2> QED
    BY <1>2, <2>1, RecursionUp
<1>4. PICK g \in [lo .. count -> S] : UpFrom(g, lo, count, empty, F)
  BY <1>3
<1>5. g = [k \in 0 .. count |-> IF k = 0 THEN << >> ELSE g[k - 1] \o trees[first + k - 1]]
  <2>1. ASSUME NEW k \in 0 .. count
        PROVE  g[k] = IF k = 0 THEN << >> ELSE g[k - 1] \o trees[first + k - 1]
    <3>1. CASE k = 0
      BY <3>1, <1>4 DEF UpFrom
    <3>2. CASE k # 0
      <4>1. k \in lo + 1 .. count /\ k - 1 \in lo .. count
        BY <3>2
      <4>2. g[k] = F[k][g[k - 1]] /\ g[k - 1] \in S
        BY <4>1, <1>4 DEF UpFrom
      <4>3. F[k][g[k - 1]] = g[k - 1] \o trees[first + k - 1]
        BY <4>1, <4>2, <3>2
      <4> QED
        BY <4>2, <4>3, <3>2
    <3> QED
      BY <3>1, <3>2
  <2> QED
    BY <2>1
<1> DEFINE u == CHOOSE f : f = [k \in 0 .. count |->
                   IF k = 0 THEN << >> ELSE f[k - 1] \o trees[first + k - 1]]
<1>6. u = [k \in 0 .. count |-> IF k = 0 THEN << >> ELSE u[k - 1] \o trees[first + k - 1]]
  BY <1>5
<1>7. Concat(trees, first, count) = u[count]
  BY DEF Concat
<1> HIDE DEF u, F
<1>8. u[0] = << >> /\ \A k \in 1 .. count : u[k] = u[k - 1] \o trees[first + k - 1]
  <2>1. 0 \in 0 .. count /\ \A k \in 1 .. count : k \in 0 .. count /\ k # 0
    OBVIOUS
  <2> QED
    BY <1>6, <2>1
<1> DEFINE Right(k) == InTurn(u[k], trees, first, k, size)
           T == {k \in 0 .. count : Right(k)}
<1>9. 0 \in T
  <2>1. << >> \in Seq(Chunk) /\ Len(<< >>) = 0 /\ 0 * size = 0 /\ 0 .. 0 - 1 = {}
    OBVIOUS
  <2>2. Right(0)
    BY <1>8, <2>1 DEF InTurn
  <2> HIDE DEF Right
  <2> QED
    BY <2>2
<1>10. ASSUME NEW k \in 0 .. count - 1, k \in T PROVE k + 1 \in T
  <2> DEFINE t == trees[first + k]
  <2>1. k + 1 \in 1 .. count /\ (k + 1) - 1 = k /\ k \in Nat
    OBVIOUS
  <2>2. first + (k + 1) - 1 = first + k
    OBVIOUS
  <2>3. u[k + 1] = u[k] \o t
    BY <1>8, <2>1, <2>2
  <2>4. t \in Seq(Chunk) /\ Len(t) = size
    BY DEF SameSize
  <2>5. u[k] \in Seq(Chunk) /\ Len(u[k]) = k * size
    BY <1>10 DEF InTurn
  <2>6. k * size \in Nat /\ (k + 1) * size = k * size + size
    BY <2>1
  <2> HIDE DEF t
  <2>7. /\ u[k + 1] \in Seq(Chunk)
        /\ Len(u[k + 1]) = Len(u[k]) + Len(t)
        /\ \A i \in 1 .. Len(u[k]) + Len(t) :
             u[k + 1][i] = IF i <= Len(u[k]) THEN u[k][i] ELSE t[i - Len(u[k])]
    <3> DEFINE v == u[k]
    <3>1. v \in Seq(Chunk)
      BY <2>5
    <3>2. u[k + 1] = v \o t
      BY <2>3
    <3> HIDE DEF v
    <3>3. /\ v \o t \in Seq(Chunk)
          /\ Len(v \o t) = Len(v) + Len(t)
          /\ \A i \in 1 .. Len(v) + Len(t) :
               (v \o t)[i] = IF i <= Len(v) THEN v[i] ELSE t[i - Len(v)]
      BY <3>1, <2>4, ConcatProperties
    <3> QED
      BY <3>2, <3>3 DEF v
  <2>8. ASSUME NEW m \in 0 .. k, NEW p \in 1 .. size
        PROVE  u[k + 1][m * size + p] = trees[first + m][p]
    <3>1. CASE m = k
      <4>1. k * size + p \in 1 .. k * size + size /\ ~ (k * size + p <= k * size)
            /\ (k * size + p) - k * size = p
        <5> DEFINE ks == k * size
        <5>1. ks \in Nat
          BY <2>6
        <5> HIDE DEF ks
        <5>2. ks + p \in 1 .. ks + size /\ ~ (ks + p <= ks) /\ (ks + p) - ks = p
          BY <5>1
        <5> QED
          BY <5>2 DEF ks
      <4> QED
        BY <3>1, <4>1, <2>4, <2>5, <2>7 DEF t
    <3>2. CASE m # k
      <4>1. m \in 0 .. k - 1 /\ m \in Nat
        BY <3>2
      <4>2. (m + 1) * size <= k * size /\ (m + 1) * size = m * size + size /\ m * size \in Nat
        BY <4>1, <2>1, ProductOrder
      <4>3. m * size + p \in 1 .. k * size /\ m * size + p \in 1 .. k * size + size
        <5> DEFINE ks == k * size
                   ms == m * size
                   ns == (m + 1) * size
        <5>1. ks \in Nat /\ ms \in Nat /\ ns <= ks /\ ns = ms + size
          BY <4>2, <2>6
        <5> HIDE DEF ks, ms, ns
        <5>2. ms + p \in 1 .. ks /\ ms + p \in 1 .. ks + size
          BY <5>1
        <5> QED
          BY <5>2 DEF ks, ms
      <4>4. u[k + 1][m * size + p] = u[k][m * size + p]
        BY <4>3, <2>4, <2>5, <2>6, <2>7
      <4> QED
        BY <4>1, <4>4, <1>10 DEF InTurn
    <3> QED
      BY <3>1, <3>2
  <2>9. Len(u[k + 1]) = (k + 1) * size
    BY <2>4, <2>5, <2>6, <2>7
  <2>10. (k + 1) - 1 = k
    OBVIOUS
  <2>11. Right(k + 1)
    <3> DEFINE v == u[k + 1]
               n == k + 1
    <3>1. /\ v \in Seq(Chunk) /\ Len(v) = n * size /\ n - 1 = k
          /\ \A m \in 0 .. n - 1 : \A p \in 1 .. size : v[m * size + p] = trees[first + m][p]
      BY <2>7, <2>8, <2>9, <2>10
    <3> HIDE DEF v, n
    <3>2. InTurn(v, trees, first, n, size)
      BY <3>1 DEF InTurn
    <3> QED
      BY <3>2 DEF v, n
  <2> HIDE DEF Right
  <2> QED
    BY <2>1, <2>11
<1>11. \A k \in lo .. count : k \in T
  <2>1. lo \in T /\ lo \in Int /\ count \in Int
        /\ \A k \in lo .. count - 1 : k \in T => k + 1 \in T
    BY <1>9, <1>10
  <2> HIDE DEF T, lo
  <2> QED
    BY <2>1, InductionUp
<1>12. Right(count)
  <2>1. count \in lo .. count
    OBVIOUS
  <2>2. count \in T
    BY <2>1, <1>11
  <2> HIDE DEF Right
  <2> QED
    BY <2>2
<1> QED
  BY <1>12, <1>7

\* One level of subtrees, made from the level below.
TreeRow(i, below) ==
  [n \in 0 .. Count[i] - 1 |->
     Append(IF i = 0 THEN << >> ELSE Concat(below, n * Step(i - 1), Step(i - 1)), <<i, n>>)]

\* Subtree meets its equation.
LEMMA SubtreeRows ==
  Subtree = [i \in Levels |-> TreeRow(i, Subtree[i - 1])]
<1> DEFINE hi == LEVELS - 1
           Good(m) == \E g : g = [i \in 0 .. m |-> TreeRow(i, g[i - 1])]
           T == {m \in 0 .. hi : Good(m)}
           lo == 0
<1>1. hi \in Int /\ lo \in Int /\ 0 <= hi /\ Levels = 0 .. hi
  BY LevelFacts DEF Positive
<1>2. lo \in T
  <2> DEFINE g == [i \in 0 .. 0 |-> TreeRow(0, << >>)]
  <2>1. \A x : TreeRow(0, x) = TreeRow(0, << >>)
    BY DEF TreeRow
  <2>2. g = [i \in 0 .. 0 |-> TreeRow(i, g[i - 1])]
    <3>1. ASSUME NEW i \in 0 .. 0 PROVE g[i] = TreeRow(i, g[i - 1])
      <4>1. i = 0
        OBVIOUS
      <4>2. TreeRow(i, g[i - 1]) = TreeRow(0, << >>)
        <5> HIDE DEF g
        <5> QED
          BY <4>1, <2>1
      <4> QED
        BY <4>1, <4>2
    <3> QED
      BY <3>1
  <2>3. Good(0)
    <3> HIDE DEF g
    <3> QED
      BY <2>2
  <2> HIDE DEF Good
  <2> QED
    BY <1>1, <2>3
<1>3. ASSUME NEW m \in lo .. hi - 1, m \in T PROVE m + 1 \in T
  <2>1. PICK g : g = [i \in 0 .. m |-> TreeRow(i, g[i - 1])]
    BY <1>3
  <2> DEFINE h == [i \in 0 .. m + 1 |-> IF i = m + 1 THEN TreeRow(i, g[m]) ELSE g[i]]
  <2>2. ASSUME NEW i \in 0 .. m + 1 PROVE h[i] = TreeRow(i, h[i - 1])
    <3>1. CASE i = m + 1
      <4>1. h[i - 1] = g[m]
        BY <3>1
      <4> QED
        BY <3>1, <4>1
    <3>2. CASE i # m + 1
      <4>1. i \in 0 .. m /\ h[i] = g[i] /\ g[i] = TreeRow(i, g[i - 1])
        BY <3>2, <2>1
      <4>2. i # 0 => h[i - 1] = g[i - 1]
        BY <4>1
      <4>3. i = 0 => TreeRow(i, h[i - 1]) = TreeRow(i, g[i - 1])
        BY DEF TreeRow
      <4> QED
        BY <4>1, <4>2, <4>3
    <3> QED
      BY <3>1, <3>2
  <2>3. h = [i \in 0 .. m + 1 |-> TreeRow(i, h[i - 1])]
    <3>1. h = [i \in 0 .. m + 1 |-> h[i]]
      OBVIOUS
    <3> HIDE DEF h
    <3> QED
      BY <3>1, <2>2
  <2>4. Good(m + 1)
    <3> HIDE DEF h
    <3> QED
      BY <2>3
  <2>5. m + 1 \in 0 .. hi
    BY <1>1
  <2> HIDE DEF Good
  <2> QED
    BY <2>4, <2>5
<1>4. \A m \in lo .. hi : m \in T
  <2> HIDE DEF T, lo, hi
  <2> QED
    BY <1>1, <1>2, <1>3, InductionUp
<1>5. PICK g : g = [i \in Levels |-> TreeRow(i, g[i - 1])]
  BY <1>1, <1>4
<1> DEFINE u == CHOOSE f : f = [i \in Levels |-> TreeRow(i, f[i - 1])]
<1>6. u = [i \in Levels |-> TreeRow(i, u[i - 1])]
  BY <1>5
<1>7. Subtree = u
  BY DEF Subtree, TreeRow
<1> HIDE DEF u
<1> QED
  BY <1>6, <1>7

\* The subtrees of a level: each is a listing as long as levelSizes says.
TreeTyped(i) ==
  \A n \in 0 .. Count[i] - 1 : /\ Subtree[i][n] \in Seq(Chunk)
                               /\ Len(Subtree[i][n]) = levelSizes[i]
                               /\ Subtree[i][n][levelSizes[i]] = <<i, n>>

\* The numbers of the chunks below a chunk are numbers of the level below.
LEMMA ChildNumbers ==
  ASSUME NEW i \in 1 .. LEVELS - 1, NEW n \in 0 .. Count[i] - 1,
         NEW k \in 0 .. Step(i - 1) - 1
  PROVE  n * Step(i - 1) + k \in 0 .. Count[i - 1] - 1
<1> DEFINE s == Step(i - 1)
           c == Count[i]
<1>1. i - 1 \in Levels /\ i \in Levels /\ i - 1 \in 0 .. LEVELS - 2 /\ (i - 1) + 1 = i
  BY LevelFacts DEF Positive
<1>2. s \in Positive /\ c \in Positive
  BY <1>1, LevelFacts, Counts
<1>3. Count[i - 1] = c * s
  BY <1>1, Counts
<1> HIDE DEF s, c
<1>4. s \in Nat /\ c \in Nat /\ n \in Nat /\ k \in Nat /\ k <= s - 1
  BY <1>2 DEF Positive, s, c
<1>5. (n + 1) * s <= c * s
  <2>1. n + 1 <= c
    BY <1>4 DEF c
  <2> QED
    BY <2>1, <1>4, ProductOrder
<1>6. (n + 1) * s = n * s + s /\ n * s \in Nat /\ c * s \in Nat
  BY <1>4
<1>7. n * s + k \in 0 .. c * s - 1
  BY <1>4, <1>5, <1>6
<1> QED
  BY <1>3, <1>7 DEF s

\* A subtree lists the subtrees below it one after the other, and then its root.
LEMMA TreeAppended ==
  ASSUME NEW i \in Levels, NEW n \in 0 .. Count[i] - 1, i # 0 => TreeTyped(i - 1)
  PROVE  /\ Subtree[i][n] \in Seq(Chunk)
         /\ Len(Subtree[i][n]) = levelSizes[i]
         /\ Subtree[i][n][levelSizes[i]] = <<i, n>>
         /\ i # 0 => \A k \in 0 .. Step(i - 1) - 1 : \A p \in 1 .. levelSizes[i - 1] :
              Subtree[i][n][k * levelSizes[i - 1] + p]
                = Subtree[i - 1][n * Step(i - 1) + k][p]
<1> DEFINE below == IF i = 0 THEN << >> ELSE Concat(Subtree[i - 1], n * Step(i - 1), Step(i - 1))
           e == <<i, n>>
<1>1. Subtree[i][n] = Append(below, e)
  <2>1. Subtree[i] = TreeRow(i, Subtree[i - 1])
    BY SubtreeRows
  <2> QED
    BY <2>1 DEF TreeRow
<1>2. e \in Chunk
  <2>1. i \in Nat /\ n \in Nat
    BY LevelFacts, Counts DEF Positive
  <2> QED
    BY <2>1 DEF Chunk
<1>3. CASE i = 0
  <2>1. below = << >> /\ levelSizes[i] = 1
    BY <1>3, LevelSizes
  <2>2. << >> \in Seq(Chunk) /\ Len(<< >>) = 0
    OBVIOUS
  <2>3. /\ Append(<< >>, e) \in Seq(Chunk) /\ Len(Append(<< >>, e)) = 1
        /\ Append(<< >>, e)[1] = e
    <3> HIDE DEF e
    <3> QED
      BY <1>2, <2>2
  <2> QED
    BY <1>1, <1>3, <2>1, <2>3
<1>4. CASE i # 0
  <2> DEFINE s == Step(i - 1)
             z == levelSizes[i - 1]
  <2>1. i \in 1 .. LEVELS - 1 /\ i - 1 \in Levels
    BY <1>4, LevelFacts DEF Positive
  <2>2. s \in Positive /\ z \in Positive /\ levelSizes[i] = z * s + 1
    BY <2>1, LevelFacts, LevelSizes
  <2>3. s \in Nat /\ z \in Nat /\ n * s \in Nat
    <3>1. n \in Nat
      BY LevelFacts, Counts DEF Positive
    <3> HIDE DEF s, z
    <3> QED
      BY <2>2, <3>1 DEF Positive
  <2>4. \A k \in 0 .. s - 1 : Subtree[i - 1][n * s + k] \in Seq(Chunk)
                              /\ Len(Subtree[i - 1][n * s + k]) = z
    <3>1. \A k \in 0 .. s - 1 : n * s + k \in 0 .. Count[i - 1] - 1
      BY <2>1, ChildNumbers
    <3> QED
      BY <3>1, <1>4 DEF TreeTyped
  <2> DEFINE all == Concat(Subtree[i - 1], n * s, s)
  <2>5. /\ all \in Seq(Chunk) /\ Len(all) = s * z
        /\ \A k \in 0 .. s - 1 : \A p \in 1 .. z :
             all[k * z + p] = Subtree[i - 1][n * s + k][p]
    <3> DEFINE trees == Subtree[i - 1]
               first == n * s
    <3>1. SameSize(trees, first, s, z)
      BY <2>4 DEF SameSize
    <3>2. first \in Nat
      BY <2>3
    <3> HIDE DEF s, z, trees, first
    <3>3. InTurn(Concat(trees, first, s), trees, first, s, z)
      BY <2>3, <3>1, <3>2, Concatenation
    <3> QED
      BY <3>3 DEF trees, first, InTurn
  <2>6. below = all
    BY <1>4
  <2>7. /\ Append(all, e) \in Seq(Chunk)
        /\ Len(Append(all, e)) = Len(all) + 1
        /\ Append(all, e)[Len(all) + 1] = e
        /\ \A p \in 1 .. Len(all) : Append(all, e)[p] = all[p]
    <3> HIDE DEF all, e
    <3> QED
      BY <2>5, <1>2
  <2>8. s * z = z * s /\ s * z \in Nat
    <3> HIDE DEF s, z
    <3> QED
      BY <2>3
  <2>9. ASSUME NEW k \in 0 .. s - 1, NEW p \in 1 .. z
        PROVE  k * z + p \in 1 .. s * z
    <3> HIDE DEF s, z
    <3>1. k \in Nat /\ k + 1 <= s /\ p \in Nat /\ p >= 1 /\ p <= z
      BY <2>3
    <3>2. (k + 1) * z <= s * z /\ (k + 1) * z = k * z + z /\ k * z \in Nat
      BY <3>1, <2>3, ProductOrder
    <3> QED
      BY <3>1, <3>2, <2>3, <2>8
  <2>10. Subtree[i][n] = Append(all, e)
    BY <1>1, <2>6
  <2> HIDE DEF all, e, s, z, below
  <2>11. Len(all) = s * z /\ levelSizes[i] = Len(all) + 1
    BY <2>2, <2>5, <2>8
  <2>12. \A k \in 0 .. s - 1 : \A p \in 1 .. z :
           Append(all, e)[k * z + p] = Subtree[i - 1][n * s + k][p]
    BY <2>5, <2>7, <2>9, <2>11
  <2> QED
    BY <2>7, <2>10, <2>11, <2>12 DEF s, z, e
<1> QED
  BY <1>3, <1>4

\* Every subtree is typed, and lists those below it.
LEMMA TreesTyped ==
  \A i \in Levels : TreeTyped(i)
<1> DEFINE hi == LEVELS - 1
           lo == 0
           T == {i \in Levels : TreeTyped(i)}
<1>1. hi \in Int /\ lo \in Int /\ 0 <= hi /\ Levels = 0 .. hi
  BY LevelFacts DEF Positive
<1>2. lo \in T
  <2>1. 0 \in Levels
    BY LevelFacts
  <2>2. TreeTyped(0)
    BY <2>1, TreeAppended DEF TreeTyped
  <2> QED
    BY <2>1, <2>2
<1>3. ASSUME NEW i \in lo .. hi - 1, i \in T PROVE i + 1 \in T
  <2>1. i + 1 \in Levels /\ (i + 1) - 1 = i /\ TreeTyped(i)
    BY <1>1, <1>3
  <2>2. TreeTyped(i + 1)
    <3> DEFINE j == i + 1
    <3>1. j \in Levels /\ (j # 0 => TreeTyped(j - 1))
      BY <2>1
    <3> HIDE DEF j
    <3>2. TreeTyped(j)
      BY <3>1, TreeAppended DEF TreeTyped
    <3> QED
      BY <3>2 DEF j
  <2> QED
    BY <2>1, <2>2
<1>4. \A i \in lo .. hi : i \in T
  <2> HIDE DEF T, hi, lo
  <2> QED
    BY <1>1, <1>2, <1>3, InductionUp
<1> QED
  BY <1>4, <1>1

\* Where the subtree of a chunk is listed: after the whole subtrees before it.
PlacedAt(index, i) ==
  /\ OffsetOf(index)[i] \in 0 .. Count[i] - 1
  /\ \A p \in 1 .. levelSizes[i] :
       Listing[Before(index)[i] + p] = Subtree[i][OffsetOf(index)[i]][p]

\* The listing of the whole captured chunk.
LEMMA ListingFacts ==
  LET hi == LEVELS - 1
  IN  InTurn(Listing, Subtree[hi], 0, Step(hi), levelSizes[hi])
<1> DEFINE hi == LEVELS - 1
           s == Step(hi)
           z == levelSizes[hi]
           trees == Subtree[hi]
           first == 0
<1>1. hi \in Levels /\ s \in Nat /\ z \in Nat /\ first \in Nat
  BY LevelFacts, LevelSizes DEF Positive
<1>2. SameSize(trees, first, s, z)
  <2>1. Count[hi] = s
    BY Counts
  <2>2. TreeTyped(hi)
    BY <1>1, TreesTyped
  <2>3. \A k \in 0 .. s - 1 : first + k = k
    OBVIOUS
  <2> HIDE DEF hi, s, first
  <2>4. ASSUME NEW k \in 0 .. s - 1
        PROVE  trees[first + k] \in Seq(Chunk) /\ Len(trees[first + k]) = z
    BY <2>1, <2>2, <2>3 DEF TreeTyped
  <2> QED
    BY <2>4 DEF SameSize
<1>3. Listing = Concat(trees, first, s)
  BY DEF Listing
<1> HIDE DEF s, z, trees, first
<1>4. InTurn(Concat(trees, first, s), trees, first, s, z)
  BY <1>1, <1>2, Concatenation
<1> QED
  BY <1>3, <1>4 DEF s, z, trees, first

\* The arithmetic of one level further down.
LEMMA PlacedBelow ==
  ASSUME NEW index \in Indices, NEW i \in 1 .. LEVELS - 1, PlacedAt(index, i)
  PROVE  PlacedAt(index, i - 1)
<1> DEFINE j == i - 1
           n == OffsetOf(index)[i]
           k == index[j]
           s == Step(j)
           z == levelSizes[j]
           b == Before(index)[i]
<1>1. i \in Levels /\ j \in Levels
  BY LevelFacts DEF Positive
<1>2. s \in Positive /\ z \in Positive /\ k \in Nat /\ k < s /\ b \in Nat
  BY <1>1, LevelFacts, LevelSizes, BeforeFacts DEF Indices
<1>3. /\ levelSizes[i] = z * s + 1
      /\ OffsetOf(index)[j] = n * s + k
      /\ Before(index)[j] = b + k * z
  BY LevelSizes, OffsetFacts, BeforeFacts
<1>4. n \in 0 .. Count[i] - 1
  BY DEF PlacedAt
<1>5. s \in Nat /\ z \in Nat /\ k \in 0 .. s - 1
  BY <1>2 DEF Positive
<1>6. n * s + k \in 0 .. Count[j] - 1
  BY <1>4, <1>5, ChildNumbers
<1>7. ASSUME NEW p \in 1 .. z
      PROVE  Listing[Before(index)[j] + p] = Subtree[j][n * s + k][p]
  <2>1. k * z + p \in 1 .. z * s + 1
    <3> HIDE DEF k, z, s
    <3>1. k + 1 <= s /\ k \in Nat /\ p \in Nat /\ 1 <= p /\ p <= z
      BY <1>5
    <3>2. (k + 1) * z <= s * z /\ (k + 1) * z = k * z + z /\ k * z \in Nat
      BY <3>1, <1>5, ProductOrder
    <3>3. s * z = z * s /\ s * z \in Nat
      BY <1>5
    <3> QED
      BY <3>1, <3>2, <3>3, <1>5
  <2>2. Before(index)[j] + p = b + (k * z + p)
    <3>1. k * z \in Nat
      <4> HIDE DEF k, z
      <4> QED
        BY <1>5
    <3> HIDE DEF b, k, z, j
    <3> QED
      BY <3>1, <1>2, <1>3
  <2>3. Listing[b + (k * z + p)] = Subtree[i][n][k * z + p]
    <3> DEFINE q == k * z + p
    <3>1. q \in 1 .. levelSizes[i]
      BY <2>1, <1>3
    <3> HIDE DEF q
    <3>2. Listing[b + q] = Subtree[i][n][q]
      BY <3>1 DEF PlacedAt
    <3> QED
      BY <3>2 DEF q
  <2>4. Subtree[i][n][k * z + p] = Subtree[j][n * s + k][p]
    <3>1. TreeTyped(i - 1) /\ i # 0
      BY <1>1, TreesTyped
    <3> QED
      BY <3>1, <1>1, <1>4, <1>5, TreeAppended
  <2> QED
    BY <2>2, <2>3, <2>4
<1> HIDE DEF n, k, s, z, b, j
<1>8. PlacedAt(index, j)
  BY <1>3, <1>6, <1>7 DEF PlacedAt, z
<1> QED
  BY <1>8 DEF j

\* At every level the subtree that indices lead to is listed where Before says.
LEMMA Placed ==
  ASSUME NEW index \in Indices
  PROVE  \A i \in Levels : PlacedAt(index, i)
<1> DEFINE hi == LEVELS - 1
           lo == 0
           T == {i \in Levels : PlacedAt(index, i)}
<1>1. hi \in Int /\ lo \in Int /\ 0 <= hi /\ Levels = 0 .. hi
  BY LevelFacts DEF Positive
<1>2. hi \in T
  <2> DEFINE k == index[hi]
             s == Step(hi)
             z == levelSizes[hi]
             trees == Subtree[hi]
  <2>1. hi \in Levels /\ s \in Positive /\ z \in Positive /\ Count[hi] = s
    BY <1>1, LevelFacts, LevelSizes, Counts
  <2>2. k \in Nat /\ k < s /\ s \in Nat /\ k \in 0 .. s - 1 /\ z \in Nat
    BY <2>1 DEF Indices, Positive
  <2>3. Before(index)[hi] = k * z /\ OffsetOf(index)[hi] = k
    BY BeforeFacts, OffsetFacts
  <2>4. InTurn(Listing, trees, 0, s, z)
    BY ListingFacts
  <2>5. \A p \in 1 .. z : Listing[k * z + p] = trees[k][p]
    <3>1. 0 + k = k
      BY <2>2
    <3> HIDE DEF k, s, z, trees
    <3> QED
      BY <2>2, <2>4, <3>1 DEF InTurn
  <2>6. PlacedAt(index, hi)
    BY <2>1, <2>2, <2>3, <2>5 DEF PlacedAt
  <2> QED
    BY <2>1, <2>6
<1>3. ASSUME NEW i \in lo + 1 .. hi, i \in T PROVE i - 1 \in T
  <2>1. i \in 1 .. LEVELS - 1 /\ i - 1 \in Levels /\ PlacedAt(index, i)
    BY <1>1, <1>3
  <2> QED
    BY <2>1, PlacedBelow
<1>4. \A i \in lo .. hi : i \in T
  <2> HIDE DEF T, hi, lo
  <2> QED
    BY <1>1, <1>2, <1>3, InductionDown
<1> QED
  BY <1>4, <1>1

\* What is below a chunk of a level and the chunk itself are a subtree.
LEMMA BelowFacts ==
  \A i \in Levels : Below(i) \in Nat /\ Below(i) + 1 = levelSizes[i]
<1> TAKE i \in Levels
<1>1. CASE i = 0
  BY <1>1, LevelSizes DEF Below
<1>2. CASE i # 0
  <2>1. i \in 1 .. LEVELS - 1 /\ i - 1 \in Levels /\ i > 0
    BY <1>2, LevelFacts DEF Positive
  <2> DEFINE s == Step(i - 1)
             z == levelSizes[i - 1]
  <2>2. s \in Positive /\ z \in Positive /\ levelSizes[i] = z * s + 1 /\ Below(i) = s * z
    BY <2>1, LevelFacts, LevelSizes DEF Below
  <2> HIDE DEF s, z
  <2>3. s * z = z * s /\ s * z \in Nat
    BY <2>2 DEF Positive
  <2> QED
    BY <2>2, <2>3
<1> QED
  BY <1>1, <1>2

\* The listing is as long as totalChunkCount, and a chunk with given indices is listed
\* after what is before it and below it.
LEMMA ChunkPlace ==
  /\ Len(Listing) = totalChunkCount /\ totalChunkCount \in Nat
  /\ \A index \in Indices : \A i \in Levels :
       /\ Listing[Below(i) + Before(index)[i] + 1] = <<i, OffsetOf(index)[i]>>
       /\ Below(i) + Before(index)[i] \in Nat
<1>1. Len(Listing) = totalChunkCount /\ totalChunkCount \in Nat
  <2> DEFINE s == Step(LEVELS - 1)
             z == levelSizes[LEVELS - 1]
  <2>1. s \in Positive /\ z \in Positive
    BY LevelFacts, LevelSizes
  <2>2. Len(Listing) = s * z
    BY ListingFacts DEF InTurn
  <2>3. totalChunkCount = z * s
    BY DEF totalChunkCount
  <2> HIDE DEF s, z
  <2>4. s * z = z * s /\ z * s \in Nat
    BY <2>1 DEF Positive
  <2> QED
    BY <2>2, <2>3, <2>4
<1>2. ASSUME NEW index \in Indices, NEW i \in Levels
      PROVE  /\ Listing[Below(i) + Before(index)[i] + 1] = <<i, OffsetOf(index)[i]>>
             /\ Below(i) + Before(index)[i] \in Nat
  <2> DEFINE b == Before(index)[i]
             n == OffsetOf(index)[i]
             z == levelSizes[i]
  <2>1. b \in Nat /\ Below(i) \in Nat /\ Below(i) + 1 = z /\ z \in Positive
    BY BeforeFacts, BelowFacts, LevelSizes
  <2>2. PlacedAt(index, i) /\ TreeTyped(i)
    BY Placed, TreesTyped
  <2>3. n \in 0 .. Count[i] - 1 /\ Listing[b + z] = Subtree[i][n][z]
    <3>1. z \in 1 .. z
      BY <2>1 DEF Positive
    <3> QED
      BY <3>1, <2>2 DEF PlacedAt
  <2>4. Subtree[i][n][z] = <<i, n>>
    BY <2>2, <2>3 DEF TreeTyped
  <2> HIDE DEF b, z
  <2>5. Below(i) + b + 1 = b + z /\ Below(i) + b \in Nat
    BY <2>1
  <2> QED
    BY <2>3, <2>4, <2>5 DEF b
<1> QED
  BY <1>1, <1>2

-----------------------------------------------------------------------------
(* Jumps.                                                                  *)

\* Ancestor meets its equation.
LEMMA AncestorFacts ==
  ASSUME NEW level \in Levels, NEW index \in Nat
  PROVE  LET up == Ancestor(level, index)
         IN  /\ \A i \in level .. LEVELS - 1 : up[i] \in Nat
             /\ up[level] = index
             /\ \A i \in level + 1 .. LEVELS - 1 : up[i] = up[i - 1] \div Step(i - 1)
<1> DEFINE hi == LEVELS - 1
           F == [i \in level .. hi |-> [x \in Nat |->
                   IF i = level THEN x ELSE x \div Step(i - 1)]]
           up == CHOOSE f : f = [i \in level .. hi |->
                   IF i = level THEN index ELSE f[i - 1] \div Step(i - 1)]
<1>1. hi \in Int /\ level \in Int /\ level <= hi /\ 0 <= level /\ Levels = 0 .. hi
  BY LevelFacts DEF Positive
<1>2. \A i \in level + 1 .. hi : \A x \in Nat : x \div Step(i - 1) \in Nat
  <2> TAKE i \in level + 1 .. hi
  <2> TAKE x \in Nat
  <2>1. i - 1 \in Levels
    BY <1>1
  <2> DEFINE s == Step(i - 1)
  <2>2. s \in Positive
    BY <2>1, LevelFacts
  <2> HIDE DEF s
  <2>3. x \div s \in Nat
    BY <2>2, Division
  <2> QED
    BY <2>3 DEF s
<1>3. F \in [level .. hi -> [Nat -> Nat]]
  <2>1. ASSUME NEW i \in level .. hi, NEW x \in Nat, i # level
        PROVE  x \div Step(i - 1) \in Nat
    <3>1. i \in level + 1 .. hi
      BY <2>1, <1>1
    <3> QED
      BY <3>1, <1>2
  <2> QED
    BY <2>1
<1>4. \E g \in [level .. hi -> Nat] : UpFrom(g, level, hi, index, F)
  <2> HIDE DEF hi, F
  <2> QED
    BY <1>1, <1>3, RecursionUp
<1>5. PICK g \in [level .. hi -> Nat] : UpFrom(g, level, hi, index, F)
  BY <1>4
<1>6. g = [i \in level .. hi |-> IF i = level THEN index ELSE g[i - 1] \div Step(i - 1)]
  <2>1. ASSUME NEW i \in level .. hi
        PROVE  g[i] = IF i = level THEN index ELSE g[i - 1] \div Step(i - 1)
    <3>1. CASE i = level
      BY <3>1, <1>5 DEF UpFrom
    <3>2. CASE i # level
      <4>1. i \in level + 1 .. hi /\ i - 1 \in level .. hi
        BY <3>2, <1>1
      <4>2. g[i] = F[i][g[i - 1]] /\ g[i - 1] \in Nat
        BY <4>1, <1>5 DEF UpFrom
      <4> QED
        BY <4>2, <3>2
    <3> QED
      BY <3>1, <3>2
  <2> QED
    BY <2>1
<1>7. up = [i \in level .. hi |-> IF i = level THEN index ELSE up[i - 1] \div Step(i - 1)]
  BY <1>6
<1>8. Ancestor(level, index) = up
  BY DEF Ancestor
<1> HIDE DEF up, F
<1>9. up[level] = index
  BY <1>1, <1>7
<1>10. ASSUME NEW i \in level + 1 .. hi PROVE up[i] = up[i - 1] \div Step(i - 1)
  <2>1. i \in level .. hi /\ i # level
    BY <1>1
  <2> QED
    BY <2>1, <1>7
<1> DEFINE T == {i \in level .. hi : up[i] \in Nat}
<1>11. level \in T
  BY <1>1, <1>9
<1>12. ASSUME NEW i \in level .. hi - 1, i \in T PROVE i + 1 \in T
  <2>1. i + 1 \in level + 1 .. hi /\ (i + 1) - 1 = i /\ i + 1 \in level .. hi
    BY <1>1
  <2>2. up[i + 1] = up[i] \div Step(i)
    BY <2>1, <1>10
  <2>3. up[i] \div Step(i) \in Nat
    BY <2>1, <1>2, <1>12
  <2> QED
    BY <2>1, <2>2, <2>3
<1>13. \A i \in level .. hi : i \in T
  <2> HIDE DEF T, hi
  <2> QED
    BY <1>1, <1>11, <1>12, InductionUp
<1> QED
  BY <1>8, <1>9, <1>10, <1>13

\* The quotients of a number of a level are numbers of the levels above it.
LEMMA AncestorNumbers ==
  ASSUME NEW level \in Levels, NEW index \in 0 .. Count[level] - 1
  PROVE  \A i \in level .. LEVELS - 1 : Ancestor(level, index)[i] \in 0 .. Count[i] - 1
<1> DEFINE hi == LEVELS - 1
           up == Ancestor(level, index)
           T == {i \in level .. hi : up[i] \in 0 .. Count[i] - 1}
<1>1. hi \in Int /\ level \in Int /\ level <= hi /\ 0 <= level /\ Levels = 0 .. hi
      /\ hi - 1 = LEVELS - 2
  BY LevelFacts DEF Positive
<1>2. /\ \A i \in level .. hi : up[i] \in Nat
      /\ up[level] = index
      /\ \A i \in level + 1 .. hi : up[i] = up[i - 1] \div Step(i - 1)
  <2>1. index \in Nat
    BY Counts DEF Positive
  <2> QED
    BY <2>1, AncestorFacts
<1> HIDE DEF up
<1>3. level \in T
  BY <1>1, <1>2
<1>4. ASSUME NEW i \in level .. hi - 1, i \in T PROVE i + 1 \in T
  <2>1. i + 1 \in level + 1 .. hi /\ (i + 1) - 1 = i /\ i + 1 \in level .. hi /\ i \in Levels
        /\ i + 1 \in Levels /\ i \in 0 .. LEVELS - 2
    BY <1>1
  <2> DEFINE s == Step(i)
             c == Count[i + 1]
             q == up[i + 1]
             n == up[i]
  <2>2. s \in Positive /\ c \in Positive /\ Count[i] = c * s
    BY <2>1, LevelFacts, Counts
  <2>3. q = n \div s /\ q \in Nat /\ n \in Nat /\ n <= c * s - 1
    BY <2>1, <2>2, <1>2, <1>4
  <2> HIDE DEF s, c, q, n
  <2>4. s \in Int /\ c \in Int /\ c * s \in Int
    BY <2>2 DEF Positive
  <2>5. q * s <= n
    <3> DEFINE r == n % s
    <3>1. r \in 0 .. s - 1 /\ n = q * s + r
      BY <2>2, <2>3, Division
    <3>2. q * s \in Int
      BY <2>3, <2>4
    <3> HIDE DEF r
    <3> QED
      BY <3>1, <3>2, <2>4
  <2>6. q <= c - 1
    <3>1. SUFFICES ASSUME c <= q PROVE FALSE
      BY <2>3, <2>4
    <3>2. c * s <= q * s /\ q * s \in Int
      BY <3>1, <2>2, <2>3, <2>4, ProductOrder DEF Positive
    <3> QED
      BY <3>2, <2>3, <2>4, <2>5
  <2>7. q \in 0 .. c - 1
    BY <2>3, <2>4, <2>6
  <2> QED
    BY <2>1, <2>7 DEF q, c
<1>5. \A i \in level .. hi : i \in T
  <2> HIDE DEF T, hi
  <2> QED
    BY <1>1, <1>3, <1>4, InductionUp
<1> QED
  BY <1>5 DEF up

\* The indices that goToChunk computes stand for the chunk it was asked for.
LEMMA Decomposed ==
  ASSUME NEW level \in Levels, NEW index \in 0 .. Count[level] - 1, NEW old \in Indices,
         NEW local,
         local = [i \in Levels |-> IF i < level THEN old[i]
                                   ELSE Ancestor(level, index)[i] % Step(i)]
  PROVE  local \in Indices /\ OffsetOf(local)[level] = index
<1> DEFINE hi == LEVELS - 1
           up == Ancestor(level, index)
           T == {i \in level .. hi : OffsetOf(local)[i] = up[i]}
<1>1. hi \in Int /\ level \in Int /\ level <= hi /\ 0 <= level /\ Levels = 0 .. hi
      /\ hi \in Levels
  BY LevelFacts DEF Positive
<1>2. /\ \A i \in level .. hi : up[i] \in Nat
      /\ up[level] = index
      /\ \A i \in level + 1 .. hi : up[i] = up[i - 1] \div Step(i - 1)
  <2>1. index \in Nat
    BY Counts DEF Positive
  <2> QED
    BY <2>1, AncestorFacts
<1>3. up[hi] \in 0 .. Step(hi) - 1
  <2>1. hi \in level .. hi /\ Count[hi] = Step(hi)
    BY <1>1, Counts
  <2> QED
    BY <2>1, AncestorNumbers
<1> HIDE DEF up
<1>4. local \in Indices
  <2>1. ASSUME NEW i \in Levels PROVE local[i] \in Nat /\ local[i] < Step(i)
    <3>1. CASE i < level
      <4>1. local[i] = old[i]
        BY <3>1
      <4> QED
        BY <4>1 DEF Indices
    <3>2. CASE ~ (i < level)
      <4> DEFINE n == up[i]
                 s == Step(i)
      <4>1. local[i] = n % s
        BY <3>2 DEF up
      <4>2. n \in Nat /\ s \in Positive
        BY <3>2, <1>1, <1>2, LevelFacts
      <4> HIDE DEF n, s
      <4>3. n % s \in 0 .. s - 1 /\ s \in Int
        BY <4>2, Division DEF Positive
      <4>4. n % s \in Nat /\ n % s < s
        BY <4>3
      <4> QED
        BY <4>1, <4>4 DEF s
    <3> QED
      BY <3>1, <3>2
  <2> QED
    BY <2>1 DEF Indices
<1>5. \A i \in level .. hi : local[i] = up[i] % Step(i)
  BY <1>1 DEF up
<1>6. hi \in T
  <2> DEFINE n == up[hi]
             s == Step(hi)
  <2>1. OffsetOf(local)[hi] = n % s
    <3>1. OffsetOf(local)[hi] = local[hi]
      BY <1>4, OffsetFacts
    <3>2. hi \in level .. hi
      BY <1>1
    <3> QED
      BY <3>1, <3>2, <1>5
  <2>2. s \in Positive /\ n \in 0 .. s - 1
    BY <1>1, <1>3, LevelFacts
  <2> HIDE DEF n, s
  <2>3. n \in Int /\ 0 * s + n = n
    BY <2>2 DEF Positive
  <2>4. (0 * s + n) % s = n
    BY <2>2, <2>3, Quotient
  <2>5. n % s = n
    BY <2>3, <2>4
  <2> QED
    BY <2>1, <2>5, <1>1 DEF n
<1>7. ASSUME NEW i \in level + 1 .. hi, i \in T PROVE i - 1 \in T
  <2>1. i \in 1 .. LEVELS - 1 /\ i - 1 \in Levels /\ i - 1 \in level .. hi
    BY <1>1
  <2> DEFINE n == up[i - 1]
             s == Step(i - 1)
  <2>2. OffsetOf(local)[i - 1] = OffsetOf(local)[i] * s + local[i - 1]
    BY <2>1, <1>4, OffsetFacts
  <2>3. OffsetOf(local)[i] = n \div s /\ local[i - 1] = n % s
    BY <2>1, <1>2, <1>5, <1>7
  <2>4. n \in Nat /\ s \in Positive
    BY <2>1, <1>2, LevelFacts
  <2> HIDE DEF n, s
  <2>5. (n \div s) * s + (n % s) = n
    BY <2>4, Division
  <2>6. OffsetOf(local)[i - 1] = n
    BY <2>2, <2>3, <2>5
  <2> QED
    BY <2>1, <2>6 DEF n
<1>8. \A i \in level .. hi : i \in T
  <2> HIDE DEF T, hi
  <2> QED
    BY <1>1, <1>6, <1>7, InductionDown
<1>9. OffsetOf(local)[level] = index
  <2>1. level \in T
    BY <1>1, <1>8
  <2> QED
    BY <2>1, <1>2
<1> QED
  BY <1>4, <1>9

-----------------------------------------------------------------------------
(* Steps.                                                                  *)

\* A subtree ends within the listing.
LEMMA EndsWithin ==
  ASSUME NEW index \in Indices
  PROVE  \A i \in Levels : Before(index)[i] + levelSizes[i] <= totalChunkCount
<1> DEFINE hi == LEVELS - 1
           lo == 0
           T == {i \in Levels : Before(index)[i] + levelSizes[i] <= totalChunkCount}
<1>1. hi \in Int /\ lo \in Int /\ 0 <= hi /\ Levels = 0 .. hi /\ hi \in Levels
  BY LevelFacts DEF Positive
<1>2. hi \in T
  <2> DEFINE k == index[hi]
             s == Step(hi)
             z == levelSizes[hi]
  <2>1. s \in Positive /\ z \in Positive /\ k \in Nat /\ k < s
    BY <1>1, LevelFacts, LevelSizes DEF Indices
  <2>2. Before(index)[hi] = k * z /\ totalChunkCount = z * s
    BY BeforeFacts DEF totalChunkCount
  <2>3. k * z + z <= z * s
    <3> HIDE DEF k, s, z
    <3>1. k + 1 <= s /\ s \in Nat /\ z \in Nat
      BY <2>1 DEF Positive
    <3>2. (k + 1) * z <= s * z /\ (k + 1) * z = k * z + z /\ s * z = z * s
      BY <2>1, <3>1, ProductOrder
    <3> QED
      BY <3>2
  <2> QED
    BY <1>1, <2>2, <2>3
<1>3. ASSUME NEW i \in lo + 1 .. hi, i \in T PROVE i - 1 \in T
  <2>1. i \in 1 .. LEVELS - 1 /\ i - 1 \in Levels /\ i \in Levels
    BY <1>1
  <2> DEFINE k == index[i - 1]
             s == Step(i - 1)
             z == levelSizes[i - 1]
             b == Before(index)[i]
  <2>2. s \in Positive /\ z \in Positive /\ k \in Nat /\ k < s /\ b \in Nat
    BY <2>1, LevelFacts, LevelSizes, BeforeFacts DEF Indices
  <2>3. Before(index)[i - 1] = b + k * z /\ levelSizes[i] = z * s + 1
    BY <2>1, BeforeFacts, LevelSizes
  <2>4. b + levelSizes[i] <= totalChunkCount /\ totalChunkCount \in Nat
    BY <1>3, ChunkPlace
  <2>5. k * z + z <= z * s /\ k * z \in Nat /\ z * s \in Nat /\ z \in Nat
    <3> HIDE DEF k, s, z
    <3>1. k + 1 <= s /\ s \in Nat /\ z \in Nat
      BY <2>2 DEF Positive
    <3>2. (k + 1) * z <= s * z /\ (k + 1) * z = k * z + z /\ s * z = z * s
      BY <2>2, <3>1, ProductOrder
    <3> QED
      BY <2>2, <3>1, <3>2
  <2>6. Before(index)[i - 1] + z <= totalChunkCount
    <3> DEFINE kz == k * z
               zs == z * s
    <3>1. /\ kz + z <= zs /\ kz \in Nat /\ zs \in Nat /\ z \in Nat /\ b \in Nat
          /\ Before(index)[i - 1] = b + kz /\ b + (zs + 1) <= totalChunkCount
          /\ totalChunkCount \in Nat
      BY <2>2, <2>3, <2>4, <2>5
    <3> HIDE DEF kz, zs, z, b
    <3> QED
      BY <3>1
  <2> QED
    BY <2>1, <2>6
<1>4. \A i \in lo .. hi : i \in T
  <2> HIDE DEF T, hi, lo
  <2> QED
    BY <1>1, <1>2, <1>3, InductionDown
<1> QED
  BY <1>4, <1>1

\* What is before a chunk depends on the indices from its level up only.
LEMMA SameAbove ==
  ASSUME NEW old \in Indices, NEW new \in Indices, NEW low \in Levels,
         \A i \in low .. LEVELS - 1 : new[i] = old[i]
  PROVE  Before(new)[low] = Before(old)[low] /\ OffsetOf(new)[low] = OffsetOf(old)[low]
<1> DEFINE hi == LEVELS - 1
           T == {i \in low .. hi : /\ Before(new)[i] = Before(old)[i]
                                   /\ OffsetOf(new)[i] = OffsetOf(old)[i]}
<1>1. hi \in Int /\ low \in Int /\ 0 <= low /\ low <= hi /\ Levels = 0 .. hi
  BY LevelFacts DEF Positive
<1>2. hi \in T
  <2>1. hi \in low .. hi
    BY <1>1
  <2>2. new[hi] = old[hi]
    BY <2>1
  <2>3. /\ Before(new)[hi] = new[hi] * levelSizes[hi] /\ OffsetOf(new)[hi] = new[hi]
        /\ Before(old)[hi] = old[hi] * levelSizes[hi] /\ OffsetOf(old)[hi] = old[hi]
    BY BeforeFacts, OffsetFacts
  <2> QED
    BY <2>1, <2>2, <2>3
<1>3. ASSUME NEW i \in low + 1 .. hi, i \in T PROVE i - 1 \in T
  <2> DEFINE j == i - 1
  <2>1. i \in 1 .. LEVELS - 1 /\ j \in low .. hi
    BY <1>1
  <2>2. new[j] = old[j]
    BY <2>1
  <2>3. /\ Before(new)[j] = Before(new)[i] + new[j] * levelSizes[j]
        /\ OffsetOf(new)[j] = OffsetOf(new)[i] * Step(j) + new[j]
        /\ Before(old)[j] = Before(old)[i] + old[j] * levelSizes[j]
        /\ OffsetOf(old)[j] = OffsetOf(old)[i] * Step(j) + old[j]
    BY <2>1, BeforeFacts, OffsetFacts
  <2> HIDE DEF j
  <2>4. j \in T
    BY <1>3, <2>1, <2>2, <2>3
  <2> QED
    BY <2>4 DEF j
<1>4. \A i \in low .. hi : i \in T
  <2> HIDE DEF T, hi
  <2> QED
    BY <1>1, <1>2, <1>3, InductionDown
<1> QED
  BY <1>4, <1>1

\* The chunk of level i that comes next in the listing after one of its level: c is the
\* level where the carry ends.
NextChunk(old, new, c, i) ==
  /\ Before(new)[i] = Before(old)[i] + levelSizes[i] + (c - i)
  /\ OffsetOf(new)[i] = OffsetOf(old)[i] + 1

\* The first chunk of level i, after the last of its level.
FirstAgain(old, new, c, i) ==
  /\ Before(new)[i] = 0 /\ OffsetOf(new)[i] = 0
  /\ Before(old)[i] + levelSizes[i] + (c - i) = totalChunkCount
  /\ OffsetOf(old)[i] = Count[i] - 1

\* The carry, level by level.
LEMMA Carry ==
  ASSUME NEW old \in Indices, NEW new \in Indices, NEW c \in Levels, NEW i \in 1 .. c,
         old[i - 1] = Step(i - 1) - 1, new[i - 1] = 0
  PROVE  /\ NextChunk(old, new, c, i) => NextChunk(old, new, c, i - 1)
         /\ FirstAgain(old, new, c, i) => FirstAgain(old, new, c, i - 1)
<1> DEFINE j == i - 1
           s == Step(j)
           z == levelSizes[j]
           bo == Before(old)[i]
           bn == Before(new)[i]
           po == OffsetOf(old)[i]
           pn == OffsetOf(new)[i]
<1>1. i \in 1 .. LEVELS - 1 /\ i \in Levels /\ j \in Levels /\ c \in Int /\ i \in Int
      /\ j \in 0 .. LEVELS - 2 /\ j + 1 = i
  BY LevelFacts DEF Positive
<1>2. s \in Nat /\ z \in Nat /\ bo \in Nat /\ bn \in Nat /\ po \in Nat /\ pn \in Nat
  BY <1>1, LevelFacts, LevelSizes, BeforeFacts, OffsetFacts DEF Positive
<1>3. /\ Before(old)[j] = bo + (s - 1) * z /\ OffsetOf(old)[j] = po * s + (s - 1)
      /\ Before(new)[j] = bn + 0 * z /\ OffsetOf(new)[j] = pn * s + 0
      /\ levelSizes[i] = z * s + 1 /\ Count[j] = Count[i] * s
  BY <1>1, BeforeFacts, OffsetFacts, LevelSizes, Counts
<1>4. Count[i] \in Nat
  BY <1>1, Counts DEF Positive
<1>5. (s - 1) * z = z * s - z /\ z * s \in Nat /\ 0 * z = 0
  <2> HIDE DEF s, z
  <2>1. (s - 1) * z = s * z - z /\ s * z = z * s
    BY <1>2
  <2> QED
    BY <1>2, <2>1
<1>6. c - j = c - i + 1
  BY <1>1
<1> DEFINE zs == z * s
<1>7. /\ Before(old)[j] = bo + (zs - z) /\ Before(new)[j] = bn /\ zs \in Nat
      /\ levelSizes[i] = zs + 1 /\ OffsetOf(new)[j] = pn * s
  <2>1. bn + 0 = bn /\ pn * s + 0 = pn * s
    BY <1>2
  <2> QED
    BY <1>3, <1>5, <2>1
<1>8. ASSUME NextChunk(old, new, c, i) PROVE NextChunk(old, new, c, j)
  <2>1. bn = bo + (zs + 1) + (c - i) /\ pn = po + 1
    BY <1>7, <1>8 DEF NextChunk
  <2>2. (po + 1) * s = po * s + s /\ po * s \in Nat
    BY <1>2
  <2> DEFINE ps == po * s
  <2>3. OffsetOf(new)[j] = ps + s /\ OffsetOf(old)[j] = ps + (s - 1) /\ ps \in Nat
    BY <2>1, <2>2, <1>3, <1>7
  <2> HIDE DEF zs, ps, s, bo, bn, z
  <2>4. Before(new)[j] = Before(old)[j] + z + (c - j)
    BY <1>1, <1>2, <1>6, <1>7, <2>1
  <2>5. OffsetOf(new)[j] = OffsetOf(old)[j] + 1
    BY <1>2, <2>3
  <2> QED
    BY <2>4, <2>5 DEF NextChunk, z
<1>9. ASSUME FirstAgain(old, new, c, i) PROVE FirstAgain(old, new, c, j)
  <2>1. bn = 0 /\ pn = 0 /\ bo + (zs + 1) + (c - i) = totalChunkCount /\ po = Count[i] - 1
    BY <1>7, <1>9 DEF FirstAgain
  <2>2. Before(new)[j] = 0 /\ OffsetOf(new)[j] = 0
    <3>1. 0 * s = 0
      BY <1>2
    <3> QED
      BY <2>1, <3>1, <1>7
  <2>3. OffsetOf(old)[j] = Count[j] - 1
    <3> DEFINE n == Count[i]
    <3>1. n \in Nat /\ po = n - 1
      BY <1>4, <2>1
    <3> HIDE DEF n, s, po
    <3>2. (n - 1) * s + (s - 1) = n * s - 1
      BY <3>1, <1>2
    <3> QED
      BY <3>1, <3>2, <1>3 DEF n
  <2> HIDE DEF zs, s, bo, bn, z
  <2>4. Before(old)[j] + z + (c - j) = totalChunkCount
    BY <1>1, <1>2, <1>6, <1>7, <2>1
  <2> QED
    BY <2>2, <2>3, <2>4 DEF FirstAgain, z
<1> QED
  BY <1>8, <1>9

\* The indices after a step whose carry ends at level c.
Advance(old, low, c) ==
  [i \in Levels |-> IF i \in low .. c THEN (IF old[i] = Step(i) - 1 THEN 0 ELSE old[i] + 1)
                                      ELSE old[i]]

\* A step from a chunk of level low leads to the next of its level, or from the last to
\* the first.
LEMMA Advanced ==
  ASSUME NEW old \in Indices, NEW low \in Levels, NEW c \in low .. LEVELS - 1,
         \A j \in low .. c - 1 : old[j] = Step(j) - 1,
         c = LEVELS - 1 \/ old[c] # Step(c) - 1
  PROVE  LET new == Advance(old, low, c)
         IN  /\ new \in Indices
             /\ NextChunk(old, new, c, low) \/ FirstAgain(old, new, c, low)
<1> DEFINE hi == LEVELS - 1
           new == Advance(old, low, c)
           Moved(i) == \/ old[c] # Step(c) - 1 /\ NextChunk(old, new, c, i)
                       \/ old[c] = Step(c) - 1 /\ FirstAgain(old, new, c, i)
           T == {i \in low .. c : Moved(i)}
<1>1. /\ hi \in Int /\ low \in Int /\ c \in Int /\ 0 <= low /\ low <= c /\ c <= hi
      /\ Levels = 0 .. hi /\ c \in Levels
  BY LevelFacts DEF Positive
<1>2. new \in Indices
  <2>1. ASSUME NEW i \in Levels PROVE new[i] \in Nat /\ new[i] < Step(i)
    <3>1. old[i] \in Nat /\ old[i] < Step(i) /\ Step(i) \in Nat
      BY LevelFacts DEF Indices, Positive
    <3> QED
      BY <3>1 DEF Advance
  <2>2. new = [i \in Levels |-> new[i]]
    BY DEF Advance
  <2> HIDE DEF new
  <2> QED
    BY <2>1, <2>2 DEF Indices
<1> DEFINE k == old[c]
           s == Step(c)
           z == levelSizes[c]
<1>3. k \in Nat /\ k < s /\ s \in Nat /\ z \in Nat
  BY <1>1, LevelFacts, LevelSizes DEF Indices, Positive
<1>4. new[c] = IF k = s - 1 THEN 0 ELSE k + 1
  BY <1>1 DEF Advance
<1>5. Moved(c)
  <2>1. CASE c = hi
    <3>1. /\ Before(old)[c] = k * z /\ OffsetOf(old)[c] = k
          /\ Before(new)[c] = new[c] * z /\ OffsetOf(new)[c] = new[c]
          /\ totalChunkCount = z * s /\ Count[c] = s
      <4> HIDE DEF new
      <4> QED
        BY <2>1, <1>2, BeforeFacts, OffsetFacts, Counts DEF totalChunkCount
    <3>2. c - c = 0
      BY <1>1
    <3>3. CASE k = s - 1
      <4>1. (s - 1) * z + z + 0 = z * s /\ 0 * z = 0
        BY <1>3
      <4> HIDE DEF new
      <4> QED
        BY <3>1, <3>2, <3>3, <4>1, <1>4 DEF FirstAgain
    <3>4. CASE k # s - 1
      <4>1. (k + 1) * z = k * z + z + 0
        BY <1>3
      <4> HIDE DEF new
      <4> QED
        BY <3>1, <3>2, <3>4, <4>1, <1>4 DEF NextChunk
    <3> QED
      BY <3>3, <3>4
  <2>2. CASE c # hi
    <3> DEFINE d == c + 1
    <3>1. d \in Levels /\ d \in 1 .. LEVELS - 1 /\ d - 1 = c /\ k # s - 1
      BY <2>2, <1>1
    <3>2. \A i \in d .. LEVELS - 1 : new[i] = old[i]
      <4> TAKE i \in d .. LEVELS - 1
      <4>1. i \in Levels /\ i \notin low .. c
        BY <1>1
      <4> QED
        BY <4>1 DEF Advance
    <3> HIDE DEF new, d
    <3>3. Before(new)[d] = Before(old)[d] /\ OffsetOf(new)[d] = OffsetOf(old)[d]
      BY <3>1, <3>2, <1>2, SameAbove
    <3> DEFINE b == Before(old)[d]
               p == OffsetOf(old)[d]
    <3>4. /\ Before(old)[c] = b + k * z /\ OffsetOf(old)[c] = p * s + k
          /\ Before(new)[c] = b + (k + 1) * z /\ OffsetOf(new)[c] = p * s + (k + 1)
      <4>1. new[c] = k + 1
        BY <3>1, <1>4
      <4>2. /\ Before(old)[d - 1] = Before(old)[d] + old[d - 1] * levelSizes[d - 1]
            /\ Before(new)[d - 1] = Before(new)[d] + new[d - 1] * levelSizes[d - 1]
        BY <3>1, <1>2, BeforeFacts
      <4>3. /\ OffsetOf(old)[d - 1] = OffsetOf(old)[d] * Step(d - 1) + old[d - 1]
            /\ OffsetOf(new)[d - 1] = OffsetOf(new)[d] * Step(d - 1) + new[d - 1]
        BY <3>1, <1>2, OffsetFacts
      <4> QED
        BY <3>1, <3>3, <4>1, <4>2, <4>3
    <3>5. b \in Nat /\ p \in Nat
      BY <3>1, BeforeFacts, OffsetFacts
    <3>6. b + (k + 1) * z = (b + k * z) + z + (c - c)
          /\ p * s + (k + 1) = (p * s + k) + 1
      <4> HIDE DEF b, p, k, s, z
      <4>1. (k + 1) * z = k * z + z /\ k * z \in Nat /\ p * s \in Nat
        BY <1>3, <3>5
      <4> QED
        BY <4>1, <1>3, <3>5, <1>1
    <3> QED
      BY <3>1, <3>4, <3>6 DEF NextChunk
  <2> QED
    BY <2>1, <2>2
<1>6. c \in T
  <2> HIDE DEF Moved
  <2> QED
    BY <1>1, <1>5
<1>7. ASSUME NEW i \in low + 1 .. c, i \in T PROVE i - 1 \in T
  <2>1. i \in 1 .. c /\ i - 1 \in low .. c - 1 /\ i - 1 \in low .. c /\ i - 1 \in Levels
    BY <1>1
  <2>2. old[i - 1] = Step(i - 1) - 1
    BY <2>1
  <2>3. new[i - 1] = 0
    BY <2>1, <2>2 DEF Advance
  <2> HIDE DEF new
  <2>4. /\ NextChunk(old, new, c, i) => NextChunk(old, new, c, i - 1)
        /\ FirstAgain(old, new, c, i) => FirstAgain(old, new, c, i - 1)
    BY <1>1, <1>2, <2>1, <2>2, <2>3, Carry
  <2>5. Moved(i - 1)
    BY <1>7, <2>4
  <2> HIDE DEF Moved
  <2> QED
    BY <2>1, <2>5
<1>8. \A i \in low .. c : i \in T
  <2> HIDE DEF T
  <2> QED
    BY <1>1, <1>6, <1>7, InductionDown
<1>9. Moved(low)
  <2> HIDE DEF Moved
  <2> QED
    BY <1>1, <1>8
<1> QED
  BY <1>2, <1>9

-----------------------------------------------------------------------------
(* The finder in a state.                                                  *)

\* The index is that of the chunk which levelIndex leads to.
FinderInv ==
  /\ levelIndex \in Indices
  /\ currLevel \in Levels
  /\ currIndex = Below(currLevel) + Before(levelIndex)[currLevel]

\* The chunk that indices lead to.
LEMMA ChunkFound ==
  ASSUME NEW index \in Indices, NEW level \in Levels
  PROVE  /\ Below(level) + Before(index)[level] \in 0 .. totalChunkCount - 1
         /\ Listing[(Below(level) + Before(index)[level]) + 1] = <<level, OffsetOf(index)[level]>>
         /\ Len(Listing) = totalChunkCount
         /\ OffsetOf(index)[level] \in 0 .. Count[level] - 1
<1> DEFINE b == Before(index)[level]
           z == levelSizes[level]
<1>1. Below(level) + b \in 0 .. totalChunkCount - 1
  <2>1. b \in Nat /\ Below(level) \in Nat /\ Below(level) + 1 = z
        /\ b + z <= totalChunkCount /\ totalChunkCount \in Nat
    BY BeforeFacts, BelowFacts, EndsWithin, ChunkPlace
  <2> HIDE DEF b, z
  <2> QED
    BY <2>1
<1>2. OffsetOf(index)[level] \in 0 .. Count[level] - 1
  BY Placed DEF PlacedAt
<1> QED
  BY <1>1, <1>2, ChunkPlace

\* Such a finder is typed and finds its chunk.
LEMMA FinderFinds ==
  ASSUME FinderInv
  PROVE  FinderTypeOK /\ FindsChunk
<1>1. levelIndex \in Indices /\ currLevel \in Levels
      /\ currIndex = Below(currLevel) + Before(levelIndex)[currLevel]
  BY DEF FinderInv
<1> QED
  BY <1>1, ChunkFound DEF FinderTypeOK, FindsChunk, Offset, Indices

\* And so after a step.
LEMMA FinderFindsNext ==
  ASSUME FinderInv'
  PROVE  /\ currIndex' \in 0 .. totalChunkCount - 1
         /\ Listing[currIndex' + 1] = <<currLevel', Offset'>>
         /\ Offset' \in 0 .. Count[currLevel'] - 1
<1>1. levelIndex' \in Indices /\ currLevel' \in Levels
      /\ currIndex' = Below(currLevel') + Before(levelIndex')[currLevel']
  BY DEF FinderInv
<1> QED
  BY <1>1, ChunkFound DEF Offset

\* goToChunk leads to the chunk it is asked for.
LEMMA JumpStep ==
  ASSUME FinderInv, NEW level \in Levels, NEW index \in 0 .. Count[level] - 1,
         goToChunk(level, index)
  PROVE  FinderInv' /\ currLevel' = level /\ Offset' = index
<1> DEFINE local == [i \in Levels |-> IF i < level THEN levelIndex[i]
                                      ELSE Ancestor(level, index)[i] % Step(i)]
<1>1. local \in Indices /\ OffsetOf(local)[level] = index
  BY Decomposed DEF FinderInv
<1>2. /\ currLevel' = level /\ levelIndex' = local
      /\ currIndex' = Below(level) + Before(local)[level]
  BY DEF goToChunk
<1> HIDE DEF local
<1> QED
  BY <1>1, <1>2 DEF FinderInv, Offset

\* Where the carry of advanceChunk ends.
LEMMA CarryEnds ==
  ASSUME FinderInv
  PROVE  \E c \in currLevel .. LEVELS - 1 :
           /\ \A j \in currLevel .. c - 1 : Full(j)
           /\ c = LEVELS - 1 \/ ~Full(c)
           /\ Carried = currLevel + 1 .. c
           /\ Cardinality(Carried) = c - currLevel
<1> DEFINE hi == LEVELS - 1
           low == currLevel
           T == {c \in low .. hi : c = hi \/ ~Full(c)}
<1>1. hi \in Int /\ low \in Int /\ 0 <= low /\ low <= hi /\ Levels = 0 .. hi
  BY LevelFacts DEF Positive, FinderInv
<1>2. PICK c \in T : \A k \in T : c <= k
  <2>1. hi \in T /\ T \in SUBSET Nat
    BY <1>1
  <2> HIDE DEF T
  <2> QED
    BY <2>1, LeastNat
<1>3. c \in low .. hi /\ (c = hi \/ ~Full(c)) /\ c \in Int
  BY <1>1
<1>4. ASSUME NEW j \in low .. c - 1 PROVE Full(j)
  <2>1. j \in low .. hi /\ ~ (c <= j)
    BY <1>1, <1>3
  <2>2. j \notin T
    <3> HIDE DEF T
    <3> QED
      BY <1>2, <2>1
  <2> QED
    BY <2>1, <2>2
<1>5. Carried = low + 1 .. c
  <2>1. ASSUME NEW i \in Levels, i > low, \A j \in low .. i - 1 : Full(j), ~ (i <= c) PROVE FALSE
    <3>1. c \in low .. i - 1 /\ c # hi
      BY <2>1, <1>1, <1>3
    <3> QED
      BY <2>1, <3>1, <1>3
  <2>2. ASSUME NEW i \in low + 1 .. c
        PROVE  i \in Levels /\ i > low /\ \A j \in low .. i - 1 : Full(j)
    <3>1. i \in Levels /\ i > low
      BY <1>1, <1>3
    <3>2. \A j \in low .. i - 1 : j \in low .. c - 1
      BY <1>1, <1>3
    <3> QED
      BY <3>1, <3>2, <1>4
  <2>3. \A i \in Levels : i \in Carried <=> (i > low /\ \A j \in low .. i - 1 : Full(j))
    BY DEF Carried
  <2>4. Carried \subseteq Levels
    BY DEF Carried
  <2>5. ASSUME NEW i \in Carried PROVE i \in low + 1 .. c
    <3>1. i \in Levels /\ i > low /\ \A j \in low .. i - 1 : Full(j)
      BY <2>3, <2>4
    <3>2. i <= c
      BY <3>1, <2>1
    <3> QED
      BY <3>1, <3>2, <1>1, <1>3
  <2>6. ASSUME NEW i \in low + 1 .. c PROVE i \in Carried
    BY <2>2, <2>3, <2>6
  <2> QED
    BY <2>5, <2>6
<1>6. Cardinality(Carried) = c - low
  <2> DEFINE a == low + 1
  <2>1. a \in Int /\ c \in Int /\ Cardinality(a .. c) = IF a > c THEN 0 ELSE c - a + 1
    BY <1>1, <1>3, FS_Interval
  <2>2. (a > c => c - low = 0) /\ (~ (a > c) => c - a + 1 = c - low)
    BY <1>1, <1>3
  <2> QED
    BY <1>5, <2>1, <2>2
<1> QED
  BY <1>3, <1>4, <1>5, <1>6

\* advanceChunk leads to the next chunk of the level, or from the last to the first.
LEMMA AdvanceStep ==
  ASSUME FinderInv, advanceChunk
  PROVE  /\ FinderInv' /\ currLevel' = currLevel
         /\ \/ Offset' = Offset + 1
            \/ Offset = Count[currLevel] - 1 /\ Offset' = 0
<1> DEFINE low == currLevel
           old == levelIndex
<1>1. PICK c \in low .. LEVELS - 1 :
           /\ \A j \in low .. c - 1 : Full(j)
           /\ c = LEVELS - 1 \/ ~Full(c)
           /\ Carried = low + 1 .. c
           /\ Cardinality(Carried) = c - low
  BY CarryEnds
<1> DEFINE new == Advance(old, low, c)
<1>2. old \in Indices /\ low \in Levels /\ currIndex = Below(low) + Before(old)[low]
  BY DEF FinderInv
<1>3. c \in Int /\ low \in Int /\ low <= c
  BY <1>2, LevelFacts DEF Positive
<1>4. new \in Indices /\ (NextChunk(old, new, c, low) \/ FirstAgain(old, new, c, low))
  <2>1. /\ \A j \in low .. c - 1 : old[j] = Step(j) - 1
        /\ c = LEVELS - 1 \/ old[c] # Step(c) - 1
    BY <1>1 DEF Full
  <2> HIDE DEF new
  <2> QED
    BY <1>2, <2>1, Advanced DEF new
<1>5. levelIndex' = new /\ currLevel' = low
  <2>1. \A i \in Levels : (i = currLevel \/ i \in Carried) <=> i \in low .. c
    <3>1. \A i \in Levels : i \in Int
      BY LevelFacts
    <3> QED
      BY <1>1, <1>3, <3>1
  <2> QED
    BY <2>1 DEF advanceChunk, Advance, Full
<1> DEFINE b == Before(old)[low]
           n == Before(new)[low]
           z == levelSizes[low]
<1>6. currIndex' = WrapAround((Below(low) + b) + z + (c - low))
  BY <1>1, <1>2 DEF advanceChunk
<1>7. b \in Nat /\ n \in Nat /\ z \in Nat /\ Below(low) \in Nat /\ Below(low) + 1 = z
      /\ n + z <= totalChunkCount /\ totalChunkCount \in Nat
  <2> HIDE DEF new
  <2> QED
    BY <1>2, <1>4, BeforeFacts, BelowFacts, LevelSizes, EndsWithin, ChunkPlace DEF Positive
<1> HIDE DEF new
<1>8. CASE NextChunk(old, new, c, low)
  <2>1. n = b + z + (c - low) /\ OffsetOf(new)[low] = OffsetOf(old)[low] + 1
    BY <1>8 DEF NextChunk
  <2>2. currIndex' = Below(low) + n
    <3> HIDE DEF b, n, z
    <3>1. (Below(low) + b) + z + (c - low) = Below(low) + n
      BY <1>3, <1>7, <2>1
    <3>2. ~ (Below(low) + n >= totalChunkCount)
      BY <1>7
    <3> QED
      BY <3>1, <3>2, <1>6 DEF WrapAround
  <2> QED
    BY <1>2, <1>4, <1>5, <2>1, <2>2 DEF FinderInv, Offset
<1>9. CASE FirstAgain(old, new, c, low)
  <2>1. n = 0 /\ OffsetOf(new)[low] = 0 /\ b + z + (c - low) = totalChunkCount
        /\ OffsetOf(old)[low] = Count[low] - 1
    BY <1>9 DEF FirstAgain
  <2>2. currIndex' = Below(low) + n
    <3> HIDE DEF b, n, z
    <3>1. (Below(low) + b) + z + (c - low) = Below(low) + totalChunkCount
      BY <1>3, <1>7, <2>1
    <3>2. Below(low) + totalChunkCount >= totalChunkCount
          /\ (Below(low) + totalChunkCount) - totalChunkCount = Below(low) + n
      BY <1>7, <2>1
    <3> QED
      BY <3>1, <3>2, <1>6 DEF WrapAround
  <2> QED
    BY <1>2, <1>4, <1>5, <2>1, <2>2 DEF FinderInv, Offset
<1> QED
  BY <1>4, <1>8, <1>9

-----------------------------------------------------------------------------
(* The chunks of a view.                                                   *)

\* A level has as many chunks as its share of the captured chunk.
LEMMA ChunksOfLevel ==
  \A i \in Levels : TotalChunks(i) = Count[i]
<1> TAKE i \in Levels
<1> DEFINE n == Count[i]
           c == levelCompression[i]
<1>1. n \in Positive /\ c \in Positive /\ chunkSize \in Positive
  BY Counts, LevelCompression, MipmapViewAssumption DEF Positive
<1>2. length = n * (c * chunkSize)
  BY WholeChunk
<1>3. TotalChunks(i) = (length \div c) \div chunkSize
  BY DEF TotalChunks
<1> HIDE DEF n, c
<1>4. n \in Int /\ c \in Int /\ c > 0 /\ chunkSize \in Int /\ chunkSize > 0
  BY <1>1 DEF Positive
<1>5. length = (n * chunkSize) * c + 0 /\ n * chunkSize \in Int
  <2>1. n * (c * chunkSize) = (n * chunkSize) * c
    BY <1>4, Regroup
  <2>2. n * chunkSize \in Int
    BY <1>4
  <2>3. (n * chunkSize) * c \in Int
    BY <2>2, <1>4
  <2> QED
    BY <1>2, <2>1, <2>2, <2>3
<1>6. 0 \in 0 .. c - 1 /\ 0 \in 0 .. chunkSize - 1
  BY <1>4
<1>7. length \div c = n * chunkSize
  BY <1>1, <1>5, <1>6, Quotient
<1>8. n * chunkSize = n * chunkSize + 0
  BY <1>5
<1>9. (n * chunkSize) \div chunkSize = n
  <2>1. (n * chunkSize + 0) \div chunkSize = n
    BY <1>1, <1>4, <1>6, Quotient
  <2> QED
    BY <2>1, <1>8
<1> QED
  BY <1>3, <1>7, <1>9 DEF n

\* Levels that are as coarse have as many chunks.
LEMMA SameCount ==
  ASSUME NEW i \in Levels, NEW j \in Levels, levelCompression[i] = levelCompression[j]
  PROVE  Count[i] = Count[j]
<1>1. TotalChunks(i) = TotalChunks(j)
  BY DEF TotalChunks
<1> QED
  BY <1>1, ChunksOfLevel

\* The next remainder.
LEMMA NextRemainder ==
  ASSUME NEW x \in Nat, NEW n \in Positive
  PROVE  (x + 1) % n = IF x % n = n - 1 THEN 0 ELSE (x % n) + 1
<1> DEFINE q == x \div n
           r == x % n
<1>1. q \in Int /\ r \in 0 .. n - 1 /\ x = q * n + r /\ n \in Int /\ n > 0
  BY Division DEF Positive
<1> HIDE DEF q, r
<1>2. CASE r = n - 1
  <2>1. x + 1 = (q + 1) * n + 0
    <3>1. (q + 1) * n = q * n + n /\ q * n \in Int
      BY <1>1
    <3> QED
      BY <1>1, <1>2, <3>1
  <2>2. q + 1 \in Int /\ 0 \in 0 .. n - 1
    BY <1>1
  <2>3. ((q + 1) * n + 0) % n = 0
    BY <2>2, Quotient
  <2> QED
    BY <2>1, <2>3, <1>2 DEF r
<1>3. CASE r # n - 1
  <2>1. x + 1 = q * n + (r + 1)
    <3>1. q * n \in Int
      BY <1>1
    <3> QED
      BY <1>1, <3>1
  <2>2. r + 1 \in 0 .. n - 1 /\ r + 1 \in Int
    BY <1>1, <1>3
  <2>3. (q * n + (r + 1)) % n = r + 1
    BY <1>1, <2>2, Quotient
  <2> QED
    BY <2>1, <2>3, <1>3 DEF r
<1> QED
  BY <1>2, <1>3

\* What the view of a display that is copied is like: whole chunks of level j.
Copyable(d, j, a, b) ==
  /\ d \in Displays /\ j \in Levels
  /\ compression(mView[d]) = levelCompression[j]
  /\ Chunked(mView[d], j, a, b)

\* The place of the k-th chunk of such a view.
LEMMA PlaceFacts ==
  ASSUME NEW d, NEW j, NEW a, NEW b, Copyable(d, j, a, b)
  PROVE  \A i \in LevelsOf(d) :
           /\ i \in Levels /\ Count[i] = Count[j]
           /\ FirstChunk(d, i) = Place(d, 1)
           /\ \A k \in Nat \ {0} :
                Place(d, k) = IF IsSpectrum(d)
                              THEN ((a + k - 1) + Count[i] \div 2) % Count[i] ELSE a + k - 1
<1> TAKE i \in LevelsOf(d)
<1> DEFINE c == compression(mView[d])
           n == Count[j]
           l == CHOOSE m \in Levels : levelCompression[m] = c
           start == mView[d].start
<1>1. i \in Levels /\ levelCompression[i] = c
  BY DEF LevelsOf
<1>2. j \in Levels /\ levelCompression[j] = c /\ start = a * (c * chunkSize)
      /\ a \in Nat /\ b \in Nat /\ a < b /\ b <= n
  BY DEF Copyable, Chunked
<1>3. l \in Levels /\ levelCompression[l] = c
  BY <1>1
<1>4. Count[i] = n /\ Count[l] = n /\ TotalChunks(i) = n /\ TotalChunks(l) = n
  <2> HIDE DEF l
  <2>1. Count[i] = n /\ Count[l] = n
    BY <1>1, <1>2, <1>3, SameCount
  <2> QED
    BY <2>1, <1>1, <1>3, ChunksOfLevel
<1>5. c \in Positive /\ chunkSize \in Positive /\ n \in Positive
  <2>1. c = levelCompression[j]
    BY <1>2
  <2> HIDE DEF c
  <2> QED
    BY <1>2, <2>1, LevelCompression, Counts, MipmapViewAssumption DEF Positive
<1> HIDE DEF c, n, start, l
<1>6. c \in Int /\ chunkSize \in Int /\ n \in Nat /\ c > 0 /\ chunkSize > 0 /\ n > 0
      /\ c * chunkSize \in Positive /\ a * chunkSize \in Int
  <2>1. c * chunkSize \in Positive
    BY <1>5, PositiveProduct
  <2>2. a * chunkSize \in Int
    BY <1>2, <1>5 DEF Positive
  <2> QED
    BY <1>5, <2>1, <2>2 DEF Positive
<1>7. (start \div c) \div chunkSize = a
  <2>1. start = (a * chunkSize) * c
    BY <1>2, <1>6, Regroup
  <2>2. (a * chunkSize) * c + 0 = (a * chunkSize) * c
    BY <1>6
  <2>3. 0 \in 0 .. c - 1 /\ 0 \in 0 .. chunkSize - 1
    BY <1>6
  <2>4. ((a * chunkSize) * c + 0) \div c = a * chunkSize
    <3> DEFINE m == a * chunkSize
    <3>1. m \in Int
      BY <1>6
    <3> HIDE DEF m
    <3>2. (m * c + 0) \div c = m
      BY <3>1, <2>3, <1>5, Quotient
    <3> QED
      BY <3>2 DEF m
  <2>5. a * chunkSize + 0 = a * chunkSize
    BY <1>6
  <2>6. (a * chunkSize + 0) \div chunkSize = a
    BY <2>3, <1>2, <1>5, Quotient
  <2> QED
    BY <2>1, <2>2, <2>4, <2>5, <2>6
<1>8. start \div (c * chunkSize) = a
  <2> DEFINE t == c * chunkSize
  <2>1. t \in Positive /\ 0 \in 0 .. t - 1 /\ a * t + 0 = a * t
    <3>1. t \in Positive
      BY <1>6
    <3> HIDE DEF t
    <3> QED
      BY <3>1, <1>2 DEF Positive
  <2> HIDE DEF t
  <2>2. (a * t + 0) \div t = a
    BY <2>1, <1>2, Quotient
  <2> QED
    BY <2>1, <2>2, <1>2 DEF t
<1>9. ASSUME NEW k \in Nat \ {0}
      PROVE  Place(d, k) = IF IsSpectrum(d) THEN ((a + k - 1) + n \div 2) % n ELSE a + k - 1
  BY <1>4, <1>8 DEF Place, c, l, start
<1>10. FirstChunk(d, i) = Place(d, 1)
  <2> DEFINE h == n \div 2
  <2>1. h \in Nat /\ h <= n
    BY <1>6
  <2> HIDE DEF h
  <2>2. FirstChunk(d, i) = IF ~IsSpectrum(d) THEN a
                           ELSE IF a + h >= n THEN (a + h) - n ELSE a + h
    BY <1>4, <1>7 DEF FirstChunk, c, start, h
  <2>3. Place(d, 1) = IF IsSpectrum(d) THEN ((a + 1 - 1) + h) % n ELSE a + 1 - 1
    BY <1>9 DEF h
  <2>4. a + 1 - 1 = a
    BY <1>2
  <2>5. (a + h) % n = IF a + h >= n THEN (a + h) - n ELSE a + h
    <3>1. CASE a + h >= n
      <4> DEFINE r == (a + h) - n
      <4>1. r \in 0 .. n - 1 /\ r \in Int /\ a + h = 1 * n + r
        BY <3>1, <2>1, <1>2, <1>6
      <4> HIDE DEF r
      <4>2. (1 * n + r) % n = r
        BY <4>1, <1>5, Quotient
      <4> QED
        BY <3>1, <4>1, <4>2 DEF r
    <3>2. CASE ~ (a + h >= n)
      <4> DEFINE r == a + h
      <4>1. r \in 0 .. n - 1 /\ r \in Int /\ r = 0 * n + r
        BY <3>2, <2>1, <1>2, <1>6
      <4> HIDE DEF r
      <4>2. (0 * n + r) % n = r
        BY <4>1, <1>5, Quotient
      <4> QED
        BY <3>2, <4>1, <4>2 DEF r
    <3> QED
      BY <3>1, <3>2
  <2> QED
    BY <2>2, <2>3, <2>4, <2>5
<1> QED
  BY <1>1, <1>4, <1>9, <1>10 DEF n

\* The places of such a view are chunks of its level, and each comes after the one
\* before it, from the last to the first of the spectrum only.
LEMMA PlacesInTurn ==
  ASSUME NEW d, NEW j, NEW a, NEW b, Copyable(d, j, a, b),
         NEW i \in LevelsOf(d), NEW k \in Nat \ {0}, k <= b - a
  PROVE  /\ Place(d, k) \in 0 .. Count[i] - 1
         /\ k < b - a => Place(d, k + 1) = IF Place(d, k) = Count[i] - 1 THEN 0
                                           ELSE Place(d, k) + 1
<1> DEFINE n == Count[i]
           h == n \div 2
           x == (a + k - 1) + h
<1>1. i \in Levels /\ n = Count[j] /\ j \in Levels
  BY PlaceFacts DEF Copyable
<1>2. a \in Nat /\ b \in Nat /\ a < b /\ b <= n /\ n \in Positive
  BY <1>1, Counts DEF Copyable, Chunked
<1>3. Place(d, k) = IF IsSpectrum(d) THEN x % n ELSE a + k - 1
  BY PlaceFacts
<1>4. k + 1 \in Nat \ {0}
  OBVIOUS
<1>5. Place(d, k + 1) = IF IsSpectrum(d) THEN ((a + (k + 1) - 1) + h) % n
                        ELSE a + (k + 1) - 1
  BY <1>4, PlaceFacts
<1> HIDE DEF n, h, x
<1>6. n \in Nat /\ n > 0
  BY <1>2 DEF Positive
<1>7. h \in Nat
  BY <1>6 DEF h
<1>8. x \in Nat /\ (a + (k + 1) - 1) + h = x + 1
  BY <1>2, <1>7 DEF x
<1>9. x % n \in 0 .. n - 1
  BY <1>2, <1>8, Division
<1>10. (x + 1) % n = IF x % n = n - 1 THEN 0 ELSE (x % n) + 1
  BY <1>2, <1>8, NextRemainder
<1>11. a + k - 1 \in 0 .. n - 1
  BY <1>2, <1>6
<1>12. k < b - a => a + k - 1 # n - 1 /\ a + (k + 1) - 1 = (a + k - 1) + 1
  BY <1>2, <1>6
<1>13. Place(d, k) \in 0 .. n - 1
  BY <1>3, <1>9, <1>11
<1>14. k < b - a => Place(d, k + 1) = IF Place(d, k) = n - 1 THEN 0 ELSE Place(d, k) + 1
  BY <1>3, <1>5, <1>8, <1>10, <1>12
<1> QED
  BY <1>13, <1>14 DEF n

-----------------------------------------------------------------------------
(* The invariant of a connection.                                          *)

\* Each view is that of the range it was made from, which requestView accepts.
ViewInv ==
  /\ asked \in [Displays -> (0 .. length) \X (0 .. length)]
  /\ \A d \in Displays : IsRange(asked[d][1], asked[d][2])
  /\ mView = [d \in Displays |-> requestView(asked[d][1], asked[d][2])]
  /\ failed = FALSE
  /\ display \in Displays \cup {NoDisplay}
  /\ writing \in BOOLEAN

\* The chunks copied so far are those of the first places of the view, and the finder
\* is at the last of them.
CopyInv ==
  /\ copied \in Seq(0 .. totalChunkCount - 1)
  /\ copied # << >> =>
       /\ Copying
       /\ currLevel \in LevelsOf(display)
       /\ Offset = Place(display, Len(copied))
       /\ Len(copied) * chunkSize <= mView[display].resolution
       /\ \A k \in 1 .. Len(copied) :
            Listing[copied[k] + 1] = <<currLevel, Place(display, k)>>

ConnectionInv == FinderInv /\ ViewInv /\ CopyInv

\* The constants that are numbers.
LEMMA Numbers ==
  /\ length \in Nat /\ length >= MinTail /\ MinTail >= MinSpan
  /\ MinTail \in Nat /\ MinSpan \in Nat /\ MinSpan > 0
  /\ chunkSize \in Positive /\ Resolution \in Positive
  /\ DefaultEnd \in 1 .. length
<1>1. length \in Nat
  <2> DEFINE c == levelCompression[0]
             n == Count[0]
  <2>1. n \in Positive /\ c \in Positive /\ chunkSize \in Positive
    BY LevelFacts, Counts, LevelCompression, MipmapViewAssumption DEF Positive
  <2>2. length = n * (c * chunkSize)
    BY LevelFacts, WholeChunk
  <2> HIDE DEF n, c
  <2>3. c * chunkSize \in Positive
    BY <2>1, PositiveProduct
  <2>4. n * (c * chunkSize) \in Positive
    BY <2>1, <2>3, PositiveProduct
  <2> QED
    BY <2>2, <2>4 DEF Positive
<1>2. MinTail \in Nat /\ MinSpan \in Nat /\ MinSpan > 0 /\ MinTail >= MinSpan
      /\ length >= MinTail /\ DefaultEnd \in 1 .. length
      /\ chunkSize \in Positive /\ Resolution \in Positive
  BY MipmapViewAssumption DEF Positive
<1> QED
  BY <1>1, <1>2

\* A view that is copied is one of whole chunks.
LEMMA CopyableView ==
  ASSUME ViewInv, NEW d \in Displays, ~UseOriginal(d)
  PROVE  \E j \in Levels : \E a, b \in Nat : Copyable(d, j, a, b)
<1> DEFINE start == asked[d][1]
           end == asked[d][2]
           v == requestView(start, end)
<1>1. IsRange(start, end) /\ mView[d] = v
  BY DEF ViewInv
<1>2. compression(v) # 1
  BY <1>1 DEF UseOriginal
<1> HIDE DEF start, end
<1>3. PICK j \in Levels : ServedBy(v, start, end, j)
  BY <1>1, <1>2, RequestedView
<1> HIDE DEF v
<1>4. PICK a \in Nat, b \in Nat : Chunked(v, j, a, b)
  BY <1>3 DEF ServedBy
<1>5. compression(v) = levelCompression[j]
  BY <1>3 DEF ServedBy
<1>6. Copyable(d, j, a, b)
  BY <1>1, <1>4, <1>5 DEF Copyable
<1> QED
  BY <1>6

-----------------------------------------------------------------------------
(* The connection starts in the invariant.                                 *)

\* Before the first jump the finder is at the first chunk of level 0.
LEMMA FinderStarts ==
  ASSUME FinderInit
  PROVE  FinderInv
<1> DEFINE zero == [i \in Levels |-> 0]
           sum == Before(zero)
           hi == LEVELS - 1
           T == {i \in Levels : sum[i] = 0}
<1>1. levelIndex = zero /\ currLevel = 0 /\ currIndex = 0
  BY DEF FinderInit
<1>2. zero \in Indices
  BY LevelFacts DEF Indices, Positive
<1>3. /\ sum[LEVELS - 1] = zero[LEVELS - 1] * levelSizes[LEVELS - 1]
      /\ \A i \in 1 .. LEVELS - 1 : sum[i - 1] = sum[i] + zero[i - 1] * levelSizes[i - 1]
  <2> HIDE DEF zero
  <2> QED
    BY <1>2, BeforeFacts
<1>4. \A i \in Levels : zero[i] * levelSizes[i] = 0
  BY LevelSizes DEF Positive
<1> HIDE DEF sum, zero
<1>5. hi \in Int /\ 0 \in Int /\ 0 <= hi /\ Levels = 0 .. hi
  BY LevelFacts DEF Positive
<1>6. hi \in T
  BY <1>3, <1>4, LevelFacts
<1>7. ASSUME NEW i \in 0 + 1 .. hi, i \in T PROVE i - 1 \in T
  <2>1. i \in 1 .. LEVELS - 1 /\ i - 1 \in Levels
    BY <1>5
  <2> QED
    BY <2>1, <1>3, <1>4, <1>7
<1>8. \A i \in 0 .. hi : i \in T
  <2> HIDE DEF T, hi
  <2> QED
    BY <1>5, <1>6, <1>7, InductionDown
<1>9. sum[0] = 0
  BY <1>8, <1>5
<1>10. Below(0) = 0
  BY DEF Below
<1> QED
  BY <1>1, <1>2, <1>9, <1>10, LevelFacts DEF FinderInv, sum

\* The initial states.
LEMMA ConnectionStarts ==
  ASSUME Init
  PROVE  ConnectionInv
<1>1. FinderInv
  BY FinderStarts DEF Init
<1>2. ViewInv
  <2>1. IsRange(0, DefaultEnd) /\ 0 \in 0 .. length /\ DefaultEnd \in 0 .. length
    BY Numbers DEF IsRange
  <2>2. /\ mView = [d \in Displays |-> requestView(0, DefaultEnd)]
        /\ asked = [d \in Displays |-> <<0, DefaultEnd>>]
        /\ display = NoDisplay /\ writing = FALSE /\ failed = FALSE
    BY DEF Init
  <2> QED
    BY <2>1, <2>2 DEF ViewInv
<1>3. CopyInv
  BY DEF Init, CopyInv
<1> QED
  BY <1>1, <1>2, <1>3 DEF ConnectionInv

-----------------------------------------------------------------------------
(* The steps of a connection.                                              *)

\* The clamps make a range that requestView accepts of any two numbers.
LEMMA Clamped ==
  ASSUME NEW start \in Int, NEW end \in Int
  PROVE  LET s == ClampStart(start)
             e == ClampEnd(s, end)
         IN  IsRange(s, e) /\ Requestable(s, e)
<1> DEFINE s == ClampStart(start)
           e == ClampEnd(s, end)
<1>1. s \in Nat /\ s <= length - MinTail
  BY Numbers DEF ClampStart
<1> HIDE DEF s
<1>2. e \in Nat /\ s < e /\ e <= length
  BY <1>1, Numbers DEF ClampEnd
<1> HIDE DEF e
<1>3. IsRange(s, e)
  BY <1>1, <1>2 DEF IsRange
<1>4. requestView(s, e).end <= length
  <2>1. requestView(s, e) \in View
    BY <1>3, RequestedView
  <2> QED
    BY <2>1, Numbers DEF View
<1>5. s >= 0 /\ s < length /\ e > s /\ e <= length
  BY <1>1, <1>2, Numbers
<1> QED
  BY <1>3, <1>4, <1>5 DEF Requestable, s, e

\* A request.
LEMMA SetViewStep ==
  ASSUME ConnectionInv, NEW d \in Displays, NEW start \in Asked, NEW end \in Asked,
         SetView(d, start, end)
  PROVE  ConnectionInv'
<1> DEFINE s == ClampStart(start)
           e == ClampEnd(s, end)
<1>1. IsRange(s, e) /\ Requestable(s, e)
  BY Clamped, MipmapViewAssumption
<1>2. /\ display = NoDisplay /\ writing' = TRUE
      /\ mView' = [mView EXCEPT ![d] = requestView(s, e)]
      /\ asked' = [asked EXCEPT ![d] = <<s, e>>]
      /\ failed' = failed
      /\ UNCHANGED <<finder, display, copied>>
  BY <1>1 DEF SetView
<1> HIDE DEF s, e
<1>3. FinderInv'
  BY <1>2 DEF ConnectionInv, FinderInv, finder
<1>4. ViewInv'
  <2>1. /\ asked \in [Displays -> (0 .. length) \X (0 .. length)]
        /\ \A n \in Displays : IsRange(asked[n][1], asked[n][2])
        /\ mView = [n \in Displays |-> requestView(asked[n][1], asked[n][2])]
        /\ failed = FALSE
    BY DEF ConnectionInv, ViewInv
  <2>2. <<s, e>> \in (0 .. length) \X (0 .. length)
    BY <1>1, Numbers DEF IsRange
  <2>3. asked' \in [Displays -> (0 .. length) \X (0 .. length)]
    BY <1>2, <2>1, <2>2
  <2>4. \A n \in Displays : asked'[n] = IF n = d THEN <<s, e>> ELSE asked[n]
    BY <1>2, <2>1
  <2>5. \A n \in Displays : IsRange(asked'[n][1], asked'[n][2])
    BY <2>1, <2>4, <1>1
  <2>6. mView' = [n \in Displays |-> requestView(asked'[n][1], asked'[n][2])]
    <3>1. mView' = [n \in Displays |-> IF n = d THEN requestView(s, e)
                                       ELSE requestView(asked[n][1], asked[n][2])]
      BY <1>2, <2>1
    <3>2. ASSUME NEW n \in Displays
          PROVE  requestView(asked'[n][1], asked'[n][2])
                   = IF n = d THEN requestView(s, e) ELSE requestView(asked[n][1], asked[n][2])
      BY <2>4
    <3> QED
      BY <3>1, <3>2
  <2> QED
    BY <1>2, <2>1, <2>3, <2>5, <2>6 DEF ViewInv, IsRange, requestView
<1>5. CopyInv'
  <2>1. copied = << >>
    BY <1>2 DEF ConnectionInv, CopyInv, Copying
  <2> QED
    BY <1>2, <2>1 DEF ConnectionInv, CopyInv
<1> QED
  BY <1>3, <1>4, <1>5 DEF ConnectionInv

\* What a step that makes no view leaves of the views.
LEMMA SameViews ==
  ASSUME ViewInv, UNCHANGED <<mView, asked, failed>>,
         display' \in Displays \cup {NoDisplay}, writing' \in BOOLEAN
  PROVE  ViewInv'
BY DEF ViewInv

\* A step that leaves no chunk copied.
LEMMA NothingCopied ==
  ASSUME copied' = << >>
  PROVE  CopyInv'
BY DEF CopyInv

\* The steps that do not touch the finder.
LEMMA QuietStep ==
  ASSUME ConnectionInv, Written \/ TimerCB \/ EndDisplay
  PROVE  ConnectionInv'
<1>1. FinderInv'
  BY DEF ConnectionInv, FinderInv, Written, TimerCB, EndDisplay, finder
<1>2. copied' = << >> /\ UNCHANGED <<mView, asked, failed>>
      /\ display' \in Displays \cup {NoDisplay} /\ writing' \in BOOLEAN
  <2>1. ViewInv /\ (display = NoDisplay => copied = << >>)
    BY DEF ConnectionInv, CopyInv, Copying
  <2>2. CASE Written
    BY <2>1, <2>2 DEF Written, ViewInv
  <2>3. CASE TimerCB
    BY <2>1, <2>3 DEF TimerCB, Begin, Displays
  <2>4. CASE EndDisplay
    BY <2>1, <2>4 DEF EndDisplay, Begin, ViewInv
  <2> QED
    BY <2>2, <2>3, <2>4
<1>3. ViewInv'
  BY <1>2, SameViews DEF ConnectionInv
<1>4. CopyInv'
  BY <1>2, NothingCopied
<1> QED
  BY <1>1, <1>3, <1>4 DEF ConnectionInv

\* What the display that is copied is like.
LEMMA CopyingFacts ==
  ASSUME ViewInv, Copying
  PROVE  /\ display \in Displays
         /\ \E j \in Levels : \E a, b \in Nat : Copyable(display, j, a, b) /\ a < b
              /\ mView[display].resolution = (b - a) * chunkSize
<1>1. display \in Displays /\ ~UseOriginal(display)
  BY DEF ViewInv, Copying
<1>2. PICK j \in Levels : \E a, b \in Nat : Copyable(display, j, a, b)
  BY <1>1, CopyableView
<1> QED
  BY <1>1, <1>2 DEF Copyable, Chunked

\* Places depend on the views alone.
LEMMA SamePlaces ==
  ASSUME UNCHANGED <<mView, display>>
  PROVE  /\ \A k : Place(display, k)' = Place(display, k)
         /\ LevelsOf(display)' = LevelsOf(display)
         /\ Copying' = Copying
         /\ mView'[display'].resolution = mView[display].resolution
BY DEF Place, LevelsOf, Copying, UseOriginal, compression, IsSpectrum, TotalChunks

\* The first chunk.
LEMMA CopyFirstStep ==
  ASSUME ConnectionInv, CopyFirst
  PROVE  ConnectionInv'
<1>1. FinderInv /\ ViewInv /\ CopyInv /\ Copying
  BY DEF ConnectionInv, CopyFirst
<1>2. display \in Displays
  BY <1>1, CopyingFacts
<1>3. PICK j \in Levels, a \in Nat, b \in Nat :
        Copyable(display, j, a, b) /\ a < b
          /\ mView[display].resolution = (b - a) * chunkSize
  BY <1>1, CopyingFacts
<1>4. LevelsOf(display) # {}
  BY <1>3 DEF Copyable, LevelsOf
<1>5. /\ \E i \in LevelsOf(display) : goToChunk(i, FirstChunk(display, i))
      /\ copied' = << currIndex' >>
      /\ UNCHANGED <<failed, display, mView, asked, writing>>
  BY <1>4 DEF CopyFirst
<1>6. PICK i \in LevelsOf(display) : goToChunk(i, FirstChunk(display, i))
  BY <1>5
<1>7. i \in Levels /\ FirstChunk(display, i) = Place(display, 1)
  BY <1>3, PlaceFacts
<1>8. Place(display, 1) \in 0 .. Count[i] - 1
  <2>1. 1 \in Nat \ {0} /\ 1 <= b - a
    BY <1>3
  <2> QED
    BY <2>1, <1>3, PlacesInTurn
<1>9. FinderInv' /\ currLevel' = i /\ Offset' = Place(display, 1)
  BY <1>1, <1>6, <1>7, <1>8, JumpStep
<1>10. ViewInv'
  <2>1. display' \in Displays \cup {NoDisplay} /\ writing' \in BOOLEAN
    BY <1>1, <1>5 DEF ViewInv
  <2> QED
    BY <1>1, <1>5, <2>1, SameViews
<1>11. CopyInv'
  <2>1. currIndex' \in 0 .. totalChunkCount - 1
        /\ Listing[currIndex' + 1] = <<currLevel', Offset'>>
    BY <1>9, FinderFindsNext
  <2>2. copied' \in Seq(0 .. totalChunkCount - 1) /\ Len(copied') = 1 /\ copied'[1] = currIndex'
    BY <1>5, <2>1
  <2>3. /\ \A k : Place(display, k)' = Place(display, k)
        /\ LevelsOf(display)' = LevelsOf(display) /\ Copying' = Copying
        /\ mView'[display'].resolution = mView[display].resolution
    BY <1>5, SamePlaces
  <2>4. Len(copied') * chunkSize <= mView'[display'].resolution
    <3>1. chunkSize \in Nat /\ chunkSize > 0 /\ b - a \in Nat /\ 1 <= b - a
      BY <1>3, Numbers DEF Positive
    <3>2. 1 * chunkSize <= (b - a) * chunkSize
      <4> DEFINE n == b - a
      <4>1. n \in Nat /\ 1 <= n
        BY <3>1
      <4> HIDE DEF n
      <4>2. 1 * chunkSize <= n * chunkSize
        BY <4>1, Numbers, ProductOrder DEF Positive
      <4> QED
        BY <4>2 DEF n
    <3> QED
      BY <3>2, <2>2, <2>3, <1>3
  <2>5. ASSUME NEW k \in 1 .. Len(copied')
        PROVE  Listing[copied'[k] + 1] = <<currLevel', Place(display, k)>>
    <3>1. k = 1
      BY <2>2
    <3> QED
      BY <3>1, <2>1, <2>2, <1>9
  <2> QED
    BY <1>1, <1>5, <1>6, <1>9, <2>2, <2>3, <2>4, <2>5 DEF CopyInv
<1> QED
  BY <1>9, <1>10, <1>11 DEF ConnectionInv

\* The next chunk.
LEMMA CopyNextStep ==
  ASSUME ConnectionInv, CopyNext
  PROVE  ConnectionInv'
<1> DEFINE k == Len(copied)
           i == currLevel
<1>1. FinderInv /\ ViewInv /\ CopyInv /\ Copying
  BY DEF ConnectionInv, CopyNext
<1>2. /\ MoreToCopy /\ advanceChunk
      /\ copied' = Append(copied, currIndex')
      /\ UNCHANGED <<mView, asked, display, writing, failed>>
      /\ copied # << >>
  BY DEF CopyNext
<1>3. PICK j \in Levels, a \in Nat, b \in Nat :
        Copyable(display, j, a, b) /\ a < b
          /\ mView[display].resolution = (b - a) * chunkSize
  BY <1>1, CopyingFacts
<1>4. /\ copied \in Seq(0 .. totalChunkCount - 1)
      /\ i \in LevelsOf(display)
      /\ Offset = Place(display, k)
      /\ \A n \in 1 .. k : Listing[copied[n] + 1] = <<i, Place(display, n)>>
  BY <1>1, <1>2 DEF CopyInv
<1>5. k \in Nat \ {0}
  BY <1>2, <1>4
<1>6. k < b - a /\ (k + 1) * chunkSize <= (b - a) * chunkSize
  <2> DEFINE m == b - a
  <2>1. k * chunkSize < m * chunkSize
    BY <1>2, <1>3 DEF MoreToCopy
  <2>2. m \in Int /\ chunkSize \in Int /\ chunkSize >= 0 /\ k \in Int
    BY <1>3, <1>5, Numbers DEF Positive
  <2> HIDE DEF m, k
  <2>3. m <= k => m * chunkSize <= k * chunkSize
    BY <2>2, ProductOrder
  <2>4. m * chunkSize \in Int /\ k * chunkSize \in Int
    BY <2>2
  <2>5. k < m
    <3> DEFINE mz == m * chunkSize
               kz == k * chunkSize
    <3>1. kz < mz /\ mz \in Int /\ kz \in Int /\ (m <= k => mz <= kz)
      BY <2>1, <2>3, <2>4
    <3> HIDE DEF mz, kz
    <3> QED
      BY <3>1, <2>2
  <2>6. (k + 1) * chunkSize <= m * chunkSize
    <3>1. k + 1 \in Int /\ k + 1 <= m
      BY <2>2, <2>5
    <3> QED
      BY <3>1, <2>2, ProductOrder
  <2> QED
    BY <2>5, <2>6 DEF m
<1> HIDE DEF k
<1>7. /\ i \in Levels /\ Place(display, k) \in 0 .. Count[i] - 1
      /\ Place(display, k + 1) = IF Place(display, k) = Count[i] - 1 THEN 0
                                 ELSE Place(display, k) + 1
  <2>1. k <= b - a
    BY <1>3, <1>5, <1>6
  <2> QED
    BY <2>1, <1>3, <1>4, <1>5, <1>6, PlacesInTurn, PlaceFacts
<1>8. /\ FinderInv' /\ currLevel' = i
      /\ \/ Offset' = Offset + 1
         \/ Offset = Count[i] - 1 /\ Offset' = 0
  BY <1>1, <1>2, AdvanceStep
<1>9. /\ currIndex' \in 0 .. totalChunkCount - 1
      /\ Listing[currIndex' + 1] = <<i, Offset'>>
      /\ Offset' \in 0 .. Count[i] - 1
  BY <1>8, FinderFindsNext
<1>10. Offset' = Place(display, k + 1)
  <2> DEFINE p == Place(display, k)
             n == Count[i]
  <2>1. /\ p \in 0 .. n - 1 /\ Offset = p
        /\ \/ Offset' = p + 1
           \/ p = n - 1 /\ Offset' = 0
        /\ Offset' \in 0 .. n - 1
        /\ n \in Int
    BY <1>4, <1>7, <1>8, <1>9, Counts DEF Positive
  <2>2. Place(display, k + 1) = IF p = n - 1 THEN 0 ELSE p + 1
    BY <1>7
  <2> HIDE DEF p, n
  <2>3. p = n - 1 => Offset' = 0
    BY <2>1
  <2>4. p # n - 1 => Offset' = p + 1
    BY <2>1
  <2> QED
    BY <2>2, <2>3, <2>4
<1>11. ViewInv'
  <2>1. display' \in Displays \cup {NoDisplay} /\ writing' \in BOOLEAN
    BY <1>1, <1>2 DEF ViewInv
  <2> QED
    BY <1>1, <1>2, <2>1, SameViews
<1>12. CopyInv'
  <2>1. /\ copied' \in Seq(0 .. totalChunkCount - 1) /\ Len(copied') = k + 1
        /\ copied'[k + 1] = currIndex' /\ \A n \in 1 .. k : copied'[n] = copied[n]
    BY <1>2, <1>4, <1>9 DEF k
  <2>2. /\ \A n : Place(display, n)' = Place(display, n)
        /\ LevelsOf(display)' = LevelsOf(display) /\ Copying' = Copying
        /\ mView'[display'].resolution = mView[display].resolution
    BY <1>2, SamePlaces
  <2>3. Len(copied') * chunkSize <= mView'[display'].resolution
    BY <2>1, <2>2, <1>3, <1>6
  <2>4. ASSUME NEW n \in 1 .. Len(copied')
        PROVE  Listing[copied'[n] + 1] = <<currLevel', Place(display, n)>>
    <3>1. CASE n = k + 1
      BY <3>1, <2>1, <1>8, <1>9, <1>10
    <3>2. CASE n # k + 1
      <4>1. n \in 1 .. k
        BY <3>2, <2>1, <1>5
      <4> QED
        BY <4>1, <2>1, <1>4, <1>8
    <3> QED
      BY <3>1, <3>2
  <2> HIDE DEF i
  <2> QED
    BY <1>1, <1>2, <1>4, <1>8, <1>10, <2>1, <2>2, <2>3, <2>4 DEF CopyInv
<1> QED
  BY <1>8, <1>11, <1>12 DEF ConnectionInv

\* Every step keeps the invariant.
LEMMA ConnectionStep ==
  ASSUME ConnectionInv, [Next]_vars
  PROVE  ConnectionInv'
<1>1. CASE \E d \in Displays : \E s, e \in Asked : SetView(d, s, e)
  BY <1>1, SetViewStep
<1>2. CASE Written \/ TimerCB \/ EndDisplay
  BY <1>2, QuietStep
<1>3. CASE CopyFirst
  BY <1>3, CopyFirstStep
<1>4. CASE CopyNext
  BY <1>4, CopyNextStep
<1>5. CASE UNCHANGED vars
  <2>1. UNCHANGED <<levelIndex, currLevel, currIndex, mView, asked, display, copied, writing, failed>>
    BY <1>5 DEF vars
  <2>2. FinderInv'
    BY <2>1 DEF ConnectionInv, FinderInv
  <2>3. ViewInv'
    <3>1. display' \in Displays \cup {NoDisplay} /\ writing' \in BOOLEAN
      BY <2>1 DEF ConnectionInv, ViewInv
    <3> QED
      BY <2>1, <3>1, SameViews DEF ConnectionInv
  <2>4. CopyInv'
    <3>1. Offset' = Offset
      BY <2>1 DEF Offset
    <3> QED
      BY <2>1, <3>1, SamePlaces DEF ConnectionInv, CopyInv
  <2> QED
    BY <2>2, <2>3, <2>4 DEF ConnectionInv
<1> QED
  BY <1>1, <1>2, <1>3, <1>4, <1>5 DEF Next

\* A connection's states satisfy the invariant.
LEMMA ConnectionInvariant == Spec => []ConnectionInv
<1>1. Init => ConnectionInv
  BY ConnectionStarts
<1>2. ConnectionInv /\ [Next]_vars => ConnectionInv'
  BY ConnectionStep
<1> QED
  BY <1>1, <1>2, PTL DEF Spec

-----------------------------------------------------------------------------
(* The theorems.                                                           *)

\* The view of a display and the request it was made from.
LEMMA ViewOf ==
  ASSUME ViewInv, NEW d \in Displays
  PROVE  /\ IsRange(asked[d][1], asked[d][2])
         /\ mView[d] = requestView(asked[d][1], asked[d][2])
         /\ mView[d] \in View
<1>1. IsRange(asked[d][1], asked[d][2]) /\ mView[d] = requestView(asked[d][1], asked[d][2])
  BY DEF ViewInv
<1> QED
  BY <1>1, RequestedView

\* Every variable of a connection keeps its type: the finder's index is one of the
\* listing's, whatever the levels are (mipmapChunkFinder, MyHandler's mView).
THEOREM TypeCorrect == Spec => []TypeOK
<1>1. ConnectionInv => TypeOK
  <2> HAVE ConnectionInv
  <2>1. FinderTypeOK
    BY FinderFinds DEF ConnectionInv
  <2>2. mView \in [Displays -> View]
    BY ViewOf DEF ConnectionInv, ViewInv
  <2> QED
    BY <2>1, <2>2 DEF ConnectionInv, ViewInv, CopyInv, TypeOK
<1> QED
  BY <1>1, ConnectionInvariant, PTL

\* No assertion of requestView fails and mipmapReader::read never fails to find the
\* level of a view, for any range that a client sends.
THEOREM AllServed == Spec => []Served
<1>1. ConnectionInv => Served
  BY DEF ConnectionInv, ViewInv, Served
<1> QED
  BY <1>1, ConnectionInvariant, PTL

\* A view shows at least the range it was made from, in as many points as the server
\* wants or as there are samples, at the coarsest level that has as many (requestView).
THEOREM RequestShown == Spec => []ShowsRequest
<1>1. ConnectionInv => ShowsRequest
  <2> HAVE ConnectionInv
  <2> SUFFICES ASSUME NEW d \in Displays
      PROVE LET v == mView[d]
                span == asked[d][2] - asked[d][1]
                c == compression(v)
            IN  /\ v.start <= asked[d][1] /\ v.end >= asked[d][2]
                /\ v.resolution * c = v.end - v.start
                /\ c = 1 \/ c * Resolution <= span
                /\ \A i \in Levels : levelCompression[i] > c => levelCompression[i] * Resolution > span
    BY DEF ShowsRequest
  <2> DEFINE start == asked[d][1]
             end == asked[d][2]
             v == mView[d]
             c == compression(v)
  <2>1. IsRange(start, end) /\ v = requestView(start, end) /\ v \in View
    BY ViewOf DEF ConnectionInv
  <2> HIDE DEF start, end
  <2>2. start \in Nat /\ end \in Nat /\ v.start <= start /\ end <= v.end
        /\ v.start \in Int /\ v.end \in Int
    BY <2>1, RequestedView, Numbers DEF IsRange, View
  <2>3. \/ /\ Detailed(start, end) = {}
           /\ v = [start |-> start, end |-> end, resolution |-> end - start]
           /\ c = 1
        \/ \E j \in Levels : ServedBy(v, start, end, j)
    BY <2>1, RequestedView
  <2> HIDE DEF v
  <2>4. \A i \in Levels : levelCompression[i] \in Int /\ levelCompression[i] * Resolution \in Int
    BY LevelCompression, Numbers DEF Positive
  <2>5. \A i \in Levels : i \in Detailed(start, end) <=> levelCompression[i] * Resolution <= end - start
    BY DEF Detailed
  <2>6. ASSUME Detailed(start, end) = {}, c = 1,
               v = [start |-> start, end |-> end, resolution |-> end - start]
        PROVE  /\ v.resolution * c = v.end - v.start
               /\ c = 1 \/ c * Resolution <= end - start
               /\ \A i \in Levels : levelCompression[i] > c
                                      => levelCompression[i] * Resolution > end - start
    <3>1. v.resolution * c = v.end - v.start
      BY <2>2, <2>6
    <3>2. ASSUME NEW i \in Levels PROVE levelCompression[i] * Resolution > end - start
      BY <2>2, <2>4, <2>5, <2>6
    <3> QED
      BY <3>1, <3>2, <2>6
  <2>7. ASSUME NEW j \in Levels, ServedBy(v, start, end, j)
        PROVE  /\ v.resolution * c = v.end - v.start
               /\ c = 1 \/ c * Resolution <= end - start
               /\ \A i \in Levels : levelCompression[i] > c
                                      => levelCompression[i] * Resolution > end - start
    <3>1. /\ j \in Detailed(start, end) /\ \A i \in Detailed(start, end) : i <= j
          /\ c = levelCompression[j] /\ v.resolution * c = v.end - v.start
      BY <2>7 DEF ServedBy
    <3> HIDE DEF c
    <3>2. ASSUME NEW i \in Levels, levelCompression[i] > c
          PROVE  levelCompression[i] * Resolution > end - start
      <4>1. ~ (i <= j)
        BY <3>1, <3>2, <2>4, CoarserAbove
      <4>2. i \notin Detailed(start, end)
        BY <4>1, <3>1
      <4> QED
        BY <4>2, <2>2, <2>4, <2>5
    <3> QED
      BY <3>1, <3>2, <2>5
  <2>8. /\ v.resolution * c = v.end - v.start
        /\ c = 1 \/ c * Resolution <= end - start
        /\ \A i \in Levels : levelCompression[i] > c
                               => levelCompression[i] * Resolution > end - start
    BY <2>3, <2>6, <2>7
  <2>9. v.end >= end
    BY <2>2
  <2> QED
    BY <2>2, <2>8, <2>9 DEF start, end, v
<1> QED
  BY <1>1, ConnectionInvariant, PTL

\* The finder is at the chunk that the hardware listed for its level and offset, and
\* a frame holds the chunks of the positions in its header, one after the other.
THEOREM ViewCopied == Spec => []CopiesView
<1>1. ConnectionInv => CopiesView
  <2> HAVE ConnectionInv
  <2>1. FindsChunk
    BY FinderFinds DEF ConnectionInv
  <2>2. ASSUME NEW k \in 1 .. Len(copied)
        PROVE  Listing[copied[k] + 1] = <<currLevel, Place(display, k)>>
    <3>1. copied # << >>
      BY DEF ConnectionInv, CopyInv
    <3> QED
      BY <3>1 DEF ConnectionInv, CopyInv
  <2> QED
    BY <2>1, <2>2 DEF CopiesView
<1> QED
  BY <1>1, ConnectionInvariant, PTL

\* The copy never leaves the part of the frame that was set aside for it, and whole
\* chunks fill that part exactly (read, readSpectrum).
THEOREM FrameFilled == Spec => []FillsFrame
<1>1. ConnectionInv => FillsFrame
  <2> HAVE ConnectionInv
  <2> SUFFICES ASSUME Copying, copied # << >>
               PROVE  /\ Len(copied) * chunkSize <= mView[display].resolution
                      /\ mView[display].resolution % chunkSize = 0
    BY DEF FillsFrame
  <2>1. Len(copied) * chunkSize <= mView[display].resolution
    BY DEF ConnectionInv, CopyInv
  <2>2. PICK a \in Nat, b \in Nat :
          a < b /\ mView[display].resolution = (b - a) * chunkSize
    BY CopyingFacts DEF ConnectionInv
  <2>3. mView[display].resolution % chunkSize = 0
    <3> DEFINE n == b - a
    <3>1. n \in Int /\ 0 \in 0 .. chunkSize - 1 /\ n * chunkSize \in Int
      BY <2>2, Numbers DEF Positive
    <3>2. mView[display].resolution = n * chunkSize
      BY <2>2
    <3> HIDE DEF n
    <3>3. (n * chunkSize + 0) % chunkSize = 0
      BY <3>1, Numbers, Quotient
    <3> QED
      BY <3>1, <3>2, <3>3
  <2> QED
    BY <2>1, <2>3
<1> QED
  BY <1>1, ConnectionInvariant, PTL
=============================================================================
