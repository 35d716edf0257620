----------------------------- MODULE BringupProofs -----------------------------
(***************************************************************************)
(* Proofs about the bring-up of the AD9361, for every board, clock,        *)
(* bandwidth, wiring and number of calls: what the calibrations leave      *)
(* behind and the phase they end with (Calib); how far a set-up in which   *)
(* any step may fail came and what the user has (Setup); the               *)
(* synchronisation of two chips; the delays of the data interface and      *)
(* what their tuning leaves behind (Tune); what the cores of the FPGA play *)
(* (DacCore) and the commands of the console that drive them (Console).    *)
(***************************************************************************)
EXTENDS Calib, Setup, Tune, Console, IntervalInduction, TLAPS

-----------------------------------------------------------------------------
(* The longest run of a row.                                               *)

\* A place of the loop of ad9361_find_opt.
Walks == [start : Int, cnt : Nat, maxStart : Int, maxCnt : Nat]

\* One round of it.
Walked(w, isBad, i) ==
  IF ~isBad
    THEN [w EXCEPT !.start = IF @ = -1 THEN i ELSE @, !.cnt = @ + 1]
  ELSE IF w.cnt > w.maxCnt
    THEN [start |-> -1, cnt |-> 0, maxStart |-> w.start, maxCnt |-> w.cnt]
  ELSE [w EXCEPT !.start = -1, !.cnt = 0]

\* After i rounds the open run ends before i and goes back to one that failed; the
\* longest of those that are closed is remembered; no run so far is longer than both.
WalkInv(w, bad, i) ==
  /\ w \in Walks
  /\ w.cnt <= i /\ w.maxCnt <= i
  /\ w.start = IF w.cnt = 0 THEN -1 ELSE i - w.cnt
  /\ \A j \in i - w.cnt .. i - 1 : ~bad[j]
  /\ w.cnt < i => bad[i - w.cnt - 1]
  /\ w.maxCnt > 0 => w.maxStart >= 0 /\ w.maxStart + w.maxCnt <= i
  /\ \A j \in w.maxStart .. w.maxStart + w.maxCnt - 1 : ~bad[j]
  /\ \A a, b \in 0 .. i - 1 :
       a <= b /\ (\A j \in a .. b : ~bad[j]) => b - a + 1 <= w.cnt \/ b - a + 1 <= w.maxCnt

\* A round, by its fields.
LEMMA WalkedFields ==
  ASSUME NEW w \in Walks, NEW isBad \in BOOLEAN, NEW i \in Int
  PROVE  LET v == Walked(w, isBad, i)
         IN  /\ v \in Walks
             /\ ~isBad => /\ v.start = (IF w.start = -1 THEN i ELSE w.start)
                          /\ v.cnt = w.cnt + 1
                          /\ v.maxStart = w.maxStart /\ v.maxCnt = w.maxCnt
             /\ isBad => /\ v.start = -1 /\ v.cnt = 0
                         /\ v.maxStart = (IF w.cnt > w.maxCnt THEN w.start ELSE w.maxStart)
                         /\ v.maxCnt = (IF w.cnt > w.maxCnt THEN w.cnt ELSE w.maxCnt)
<1> DEFINE v == Walked(w, isBad, i)
           from == IF w.start = -1 THEN i ELSE w.start
<1>1. /\ w.start \in Int /\ w.cnt \in Nat /\ w.maxStart \in Int /\ w.maxCnt \in Nat
      /\ w = [start |-> w.start, cnt |-> w.cnt, maxStart |-> w.maxStart, maxCnt |-> w.maxCnt]
  BY DEF Walks
<1>2. CASE ~isBad
  <2>1. v = [w EXCEPT !.start = from, !.cnt = w.cnt + 1]
    BY <1>2 DEF Walked
  <2>2. from \in Int /\ w.cnt + 1 \in Nat
    BY <1>1
  <2> HIDE DEF from
  <2>3. v = [start |-> from, cnt |-> w.cnt + 1, maxStart |-> w.maxStart, maxCnt |-> w.maxCnt]
    BY <2>1, <1>1, Zenon
  <2> HIDE DEF v
  <2> QED
    BY <2>2, <2>3, <1>1, <1>2 DEF Walks, from, v
<1>3. CASE isBad /\ w.cnt > w.maxCnt
  BY <1>1, <1>3 DEF Walked, Walks
<1>4. CASE isBad /\ ~ (w.cnt > w.maxCnt)
  <2>1. v = [w EXCEPT !.start = -1, !.cnt = 0]
    BY <1>4 DEF Walked
  <2>2. v = [start |-> -1, cnt |-> 0, maxStart |-> w.maxStart, maxCnt |-> w.maxCnt]
    BY <2>1, <1>1, Zenon
  <2> HIDE DEF v
  <2> QED
    BY <2>2, <1>1, <1>4 DEF Walks, v
<1> QED
  BY <1>2, <1>3, <1>4

\* A round keeps this.
LEMMA WalkStep ==
  ASSUME NEW size \in Nat, NEW bad \in [0 .. size - 1 -> BOOLEAN], NEW i \in 0 .. size - 1,
         NEW w, WalkInv(w, bad, i)
  PROVE  WalkInv(Walked(w, bad[i], i), bad, i + 1)
<1>1. /\ w \in Walks
      /\ w.cnt \in Nat /\ w.maxCnt \in Nat /\ w.start \in Int /\ w.maxStart \in Int
      /\ i \in Nat
  BY DEF WalkInv, Walks
<1>2. CASE ~bad[i]
  <2> DEFINE v == Walked(w, bad[i], i)
  <2>1. /\ v \in Walks /\ v.start = (IF w.start = -1 THEN i ELSE w.start)
        /\ v.cnt = w.cnt + 1 /\ v.maxStart = w.maxStart /\ v.maxCnt = w.maxCnt
    BY <1>1, <1>2, WalkedFields
  <2> HIDE DEF v
  <2>8. v.cnt = w.cnt + 1 /\ w.cnt \in Nat /\ i \in Nat
    BY <1>1, <2>1
  <2>2. v.start = i - w.cnt
    <3>1. /\ w.start = IF w.cnt = 0 THEN -1 ELSE i - w.cnt
          /\ w.cnt <= i
      BY DEF WalkInv
    <3> QED
      BY <3>1, <2>1, <1>1
  <2>3. \A j \in (i + 1) - v.cnt .. (i + 1) - 1 : ~bad[j]
    <3> TAKE j \in (i + 1) - v.cnt .. (i + 1) - 1
    <3>1. j \in i - w.cnt .. i - 1 \/ j = i
      <4>1. (i + 1) - v.cnt = i - w.cnt /\ (i + 1) - 1 = i
        BY <2>8
      <4>2. j \in i - w.cnt .. i
        BY <4>1
      <4> QED
        BY <2>8, <4>2
    <3> QED
      BY <3>1, <1>2 DEF WalkInv
  <2>4. v.cnt < i + 1 => bad[(i + 1) - v.cnt - 1]
    <3>1. (i + 1) - v.cnt - 1 = i - w.cnt - 1 /\ (v.cnt < i + 1 => w.cnt < i)
      BY <2>8
    <3> QED
      BY <3>1 DEF WalkInv
  <2>5. ASSUME NEW a \in 0 .. (i + 1) - 1, NEW b \in 0 .. (i + 1) - 1, a <= b,
               \A j \in a .. b : ~bad[j]
        PROVE  b - a + 1 <= v.cnt \/ b - a + 1 <= v.maxCnt
    <3>1. CASE b = i
      <4>1. w.cnt < i => ~ (i - w.cnt - 1 \in a .. b)
        BY <2>5 DEF WalkInv
      <4>2. w.cnt < i => a >= i - w.cnt
        BY <4>1, <3>1, <1>1
      <4>3. w.cnt <= i
        BY DEF WalkInv
      <4> QED
        BY <4>2, <4>3, <3>1, <1>1, <2>1, <2>2
    <3>2. CASE b # i
      <4>1. a \in 0 .. i - 1 /\ b \in 0 .. i - 1
        BY <3>2, <2>5, <1>1
      <4>2. b - a + 1 <= w.cnt \/ b - a + 1 <= w.maxCnt
        BY <4>1, <2>5 DEF WalkInv
      <4> QED
        BY <4>1, <4>2, <1>1, <2>1, <2>2
    <3> QED
      BY <3>1, <3>2
  <2>6. /\ v.cnt <= i + 1 /\ v.maxCnt <= i + 1
        /\ v.start = IF v.cnt = 0 THEN -1 ELSE (i + 1) - v.cnt
        /\ v.maxCnt > 0 => v.maxStart >= 0 /\ v.maxStart + v.maxCnt <= i + 1
    BY <1>1, <2>1, <2>2 DEF WalkInv
  <2>7. \A j \in v.maxStart .. v.maxStart + v.maxCnt - 1 : ~bad[j]
    BY <2>1, <2>2 DEF WalkInv
  <2> QED
    BY <2>1, <2>2, <2>3, <2>4, <2>5, <2>6, <2>7 DEF WalkInv, v
<1>3. CASE bad[i]
  <2> DEFINE v == Walked(w, bad[i], i)
  <2>0. /\ v \in Walks /\ v.start = -1 /\ v.cnt = 0
        /\ v.maxStart = (IF w.cnt > w.maxCnt THEN w.start ELSE w.maxStart)
        /\ v.maxCnt = (IF w.cnt > w.maxCnt THEN w.cnt ELSE w.maxCnt)
    <3>1. bad[i] \in BOOLEAN /\ i \in Int
      OBVIOUS
    <3>2. /\ v \in Walks
          /\ bad[i] => /\ v.start = -1 /\ v.cnt = 0
                       /\ v.maxStart = (IF w.cnt > w.maxCnt THEN w.start ELSE w.maxStart)
                       /\ v.maxCnt = (IF w.cnt > w.maxCnt THEN w.cnt ELSE w.maxCnt)
      BY <1>1, <3>1, WalkedFields
    <3> HIDE DEF v
    <3> QED
      BY <1>3, <3>2
  <2> HIDE DEF v
  <2>1. /\ v \in Walks /\ v.cnt = 0 /\ v.start = -1
        /\ \/ w.cnt > w.maxCnt /\ v.maxStart = w.start /\ v.maxCnt = w.cnt
           \/ ~ (w.cnt > w.maxCnt) /\ v.maxStart = w.maxStart /\ v.maxCnt = w.maxCnt
    BY <2>0
  <2>2. /\ w.cnt <= i /\ w.maxCnt <= i /\ (w.cnt > 0 => w.start = i - w.cnt)
        /\ \A j \in i - w.cnt .. i - 1 : ~bad[j]
        /\ w.maxCnt > 0 => w.maxStart >= 0 /\ w.maxStart + w.maxCnt <= i
        /\ \A j \in w.maxStart .. w.maxStart + w.maxCnt - 1 : ~bad[j]
    BY DEF WalkInv
  <2>3. /\ v.cnt <= i + 1 /\ v.maxCnt <= i + 1
        /\ v.maxCnt > 0 => v.maxStart >= 0 /\ v.maxStart + v.maxCnt <= i + 1
    BY <1>1, <2>1, <2>2
  <2>4. \A j \in v.maxStart .. v.maxStart + v.maxCnt - 1 : ~bad[j]
    <3>1. CASE w.cnt > w.maxCnt
      <4>1. v.maxStart = i - w.cnt /\ v.maxCnt = w.cnt
        BY <3>1, <1>1, <2>1, <2>2
      <4>2. v.maxStart + v.maxCnt - 1 = i - 1
        BY <4>1, <1>1
      <4> QED
        BY <4>1, <4>2, <2>2
    <3>2. CASE ~ (w.cnt > w.maxCnt)
      BY <3>2, <2>1, <2>2
    <3> QED
      BY <3>1, <3>2
  <2>5. \A j \in (i + 1) - v.cnt .. (i + 1) - 1 : ~bad[j]
    BY <1>1, <2>1
  <2>6. bad[(i + 1) - v.cnt - 1]
    <3>1. (i + 1) - v.cnt - 1 = i
      BY <1>1, <2>1
    <3> QED
      BY <3>1, <1>3
  <2>7. ASSUME NEW a \in 0 .. (i + 1) - 1, NEW b \in 0 .. (i + 1) - 1, a <= b,
               \A j \in a .. b : ~bad[j]
        PROVE  b - a + 1 <= v.maxCnt
    <3>1. ~ (i \in a .. b)
      BY <2>7, <1>3
    <3>2. a \in 0 .. i - 1 /\ b \in 0 .. i - 1
      BY <3>1, <2>7, <1>1
    <3>3. b - a + 1 <= w.cnt \/ b - a + 1 <= w.maxCnt
      BY <3>2, <2>7 DEF WalkInv
    <3> QED
      BY <3>2, <3>3, <1>1, <2>1
  <2>8. v.start = IF v.cnt = 0 THEN -1 ELSE (i + 1) - v.cnt
    BY <2>1
  <2>9. WalkInv(v, bad, i + 1)
    BY <2>1, <2>3, <2>4, <2>5, <2>6, <2>7, <2>8 DEF WalkInv
  <2> QED
    BY <2>9 DEF v
<1> QED
  BY <1>2, <1>3

\* What ad9361_find_opt finds of a row: a run that works, as long as any.
Longest(run, bad, size) ==
  /\ run.start \in Int /\ run.cnt \in 0 .. size
  /\ run.cnt > 0 => run.start >= 0 /\ run.start + run.cnt <= size
  /\ \A j \in run.start .. run.start + run.cnt - 1 : ~bad[j]
  /\ \A a, b \in 0 .. size - 1 : a <= b /\ (\A j \in a .. b : ~bad[j]) => b - a + 1 <= run.cnt

\* It does, whatever the row.
LEMMA FindOptLongest ==
  ASSUME NEW size \in Nat, NEW bad \in [0 .. size - 1 -> BOOLEAN]
  PROVE  Longest(FindOpt(bad, size), bad, size)
<1> DEFINE c == [start |-> -1, cnt |-> 0, maxStart |-> 0, maxCnt |-> 0]
           F == [i \in 0 .. size |-> [x \in Walks |-> IF i = 0 THEN x ELSE Walked(x, bad[i - 1], i - 1)]]
           walk == CHOOSE g : g = [i \in 0 .. size |->
                     IF i = 0 THEN c ELSE Walked(g[i - 1], bad[i - 1], i - 1)]
           T == {i \in 0 .. size : WalkInv(walk[i], bad, i)}
           end == walk[size]
<1>1. c \in Walks
  BY DEF Walks
<1>2. F \in [0 .. size -> [Walks -> Walks]]
  <2>1. ASSUME NEW i \in 0 .. size, NEW x \in Walks, i # 0
        PROVE  Walked(x, bad[i - 1], i - 1) \in Walks
    BY <2>1, WalkedFields
  <2> QED
    BY <2>1
<1>3. \E g \in [0 .. size -> Walks] : UpFrom(g, 0, size, c, F)
  <2>1. size \in Int /\ 0 <= size
    OBVIOUS
  <2> HIDE DEF F, c
  <2> QED
    BY <2>1, <1>1, <1>2, RecursionUp
<1>4. PICK g \in [0 .. size -> Walks] : UpFrom(g, 0, size, c, F)
  BY <1>3
<1>5. g = [i \in 0 .. size |-> IF i = 0 THEN c ELSE Walked(g[i - 1], bad[i - 1], i - 1)]
  <2>1. ASSUME NEW i \in 0 .. size
        PROVE  g[i] = IF i = 0 THEN c ELSE Walked(g[i - 1], bad[i - 1], i - 1)
    <3>1. CASE i = 0
      BY <3>1, <1>4 DEF UpFrom
    <3>2. CASE i # 0
      <4>1. i \in 0 + 1 .. size /\ i - 1 \in 0 .. size
        BY <3>2
      <4>2. g[i] = F[i][g[i - 1]] /\ g[i - 1] \in Walks
        BY <4>1, <1>4 DEF UpFrom
      <4> HIDE DEF c
      <4> QED
        BY <4>1, <4>2, <3>2
    <3> QED
      BY <3>1, <3>2
  <2> HIDE DEF c
  <2> QED
    BY <2>1
<1>6. walk = [i \in 0 .. size |-> IF i = 0 THEN c ELSE Walked(walk[i - 1], bad[i - 1], i - 1)]
  <2> HIDE DEF c
  <2> QED
    BY <1>5
<1>7. FindOpt(bad, size) = IF end.cnt > end.maxCnt THEN [start |-> end.start, cnt |-> end.cnt]
                           ELSE [start |-> end.maxStart, cnt |-> end.maxCnt]
  BY DEF FindOpt, Walked
<1> HIDE DEF walk
<1>8. walk[0] = c /\ \A i \in 0 .. size - 1 : walk[i + 1] = Walked(walk[i], bad[i], i)
  <2> HIDE DEF c
  <2>1. walk[0] = c
    BY <1>6
  <2>2. ASSUME NEW i \in 0 .. size - 1 PROVE walk[i + 1] = Walked(walk[i], bad[i], i)
    <3>1. i + 1 \in 0 .. size /\ i + 1 # 0 /\ (i + 1) - 1 = i
      OBVIOUS
    <3> QED
      BY <3>1, <1>6
  <2> QED
    BY <2>1, <2>2
<1>9. 0 \in T
  <2>1. WalkInv(c, bad, 0)
    BY <1>1 DEF WalkInv
  <2> QED
    BY <2>1, <1>8
<1>10. ASSUME NEW i \in 0 .. size - 1, i \in T PROVE i + 1 \in T
  <2>1. WalkInv(walk[i + 1], bad, i + 1)
    BY <1>8, <1>10, WalkStep
  <2> QED
    BY <2>1
<1>11. WalkInv(end, bad, size)
  <2>1. size \in Int /\ 0 \in Int /\ size \in 0 .. size
    OBVIOUS
  <2>2. \A i \in 0 .. size : i \in T
    <3> HIDE DEF T
    <3> QED
      BY <2>1, <1>9, <1>10, InductionUp
  <2> QED
    BY <2>1, <2>2
<1> HIDE DEF end
<1>12. /\ end.cnt \in Nat /\ end.maxCnt \in Nat /\ end.start \in Int /\ end.maxStart \in Int
       /\ end.cnt <= size /\ end.maxCnt <= size
  BY <1>11 DEF WalkInv, Walks
<1> DEFINE run == FindOpt(bad, size)
<1>13. \/ end.cnt > end.maxCnt /\ run.start = end.start /\ run.cnt = end.cnt
       \/ ~ (end.cnt > end.maxCnt) /\ run.start = end.maxStart /\ run.cnt = end.maxCnt
  BY <1>7
<1> HIDE DEF run
<1>14. ASSUME NEW a \in 0 .. size - 1, NEW b \in 0 .. size - 1, a <= b, \A j \in a .. b : ~bad[j]
       PROVE  b - a + 1 <= run.cnt
  <2>1. b - a + 1 <= end.cnt \/ b - a + 1 <= end.maxCnt
    BY <1>11, <1>14 DEF WalkInv
  <2> QED
    BY <2>1, <1>12, <1>13
<1>15. CASE end.cnt > end.maxCnt
  <2>1. end.start = size - end.cnt /\ \A j \in size - end.cnt .. size - 1 : ~bad[j]
    BY <1>11, <1>12, <1>15 DEF WalkInv
  <2>2. run.start = size - end.cnt /\ run.cnt = end.cnt /\ run.start + run.cnt - 1 = size - 1
    BY <2>1, <1>12, <1>13, <1>15
  <2>3. \A j \in run.start .. run.start + run.cnt - 1 : ~bad[j]
    BY <2>1, <2>2
  <2> QED
    BY <2>2, <2>3, <1>12, <1>14 DEF Longest, run
<1>16. CASE ~ (end.cnt > end.maxCnt)
  <2>1. run.start = end.maxStart /\ run.cnt = end.maxCnt
    BY <1>13, <1>16
  <2>2. /\ \A j \in run.start .. run.start + run.cnt - 1 : ~bad[j]
        /\ run.cnt > 0 => run.start >= 0 /\ run.start + run.cnt <= size
    BY <2>1, <1>11 DEF WalkInv
  <2> QED
    BY <2>1, <2>2, <1>12, <1>14 DEF Longest, run
<1> QED
  BY <1>15, <1>16

-----------------------------------------------------------------------------
(* The calibrations.                                                       *)


CalFields ==
  {"bwNow", "bw", "nco", "phase", "lastPhase", "inverted", "both", "track", "want",
   "loOff", "loPower", "dcRange", "rssiMode"}

\* The words of the NCOs a calibration can set.
NcoPairs(k) == {<<n.tx, n.rx>> : n \in {Nco(k, w) : w \in 0..3}}

\* The inductive invariant: the fields are there, the bandwidths are the user's,
\* the words of the NCOs a row of the table, and what a calibration changes is
\* as the properties say.
CalibInv ==
  /\ calBoard \in CalBoards /\ calClock \in CalClocks
  /\ DOMAIN cal = CalFields
  /\ cal.bw \in CalBandwidths
  /\ cal.loOff \in BOOLEAN
  /\ cal.nco \in NcoPairs(calClock)
  /\ CalibrationUndone /\ CalibratedWide

-----------------------------------------------------------------------------
(***************************************************************************)
(* The words of the NCOs.                                                  *)
(***************************************************************************)

\* The word closest to a fourth of the bandwidth is clamped to the field.
LEMMA TxWordField ==
  ASSUME NEW bwTx \in Nat, NEW tf \in Nat \ {0}
  PROVE  TxWord(bwTx, tf) \in 0..3
<1>1. RoundDiv(8 * bwTx, tf) \in Int
  BY DEF RoundDiv
<1>2. QED BY <1>1 DEF TxWord

\* A row of the table: its words are numbers, and the two frequencies agree
\* where the clocks are equal or one is twice the other.
LEMMA NcoRow ==
  ASSUME NEW k \in CalClocks, NEW w \in 0..3
  PROVE  /\ Nco(k, w).tx \in 0..3 /\ Nco(k, w).rx \in 0..3
         /\ k.rf \in {k.tf, 2 * k.tf} =>
              k.rf * (Nco(k, w).rx + 1) = k.tf * (Nco(k, w).tx + 1)
<1>1. k.rf \in Nat \ {0} /\ k.tf \in Nat \ {0}
  BY CalibAssumption
<1>2. w + 1 \in {1, 2, 3, 4}
  OBVIOUS
<1>3. CASE k.rf = 2 * k.tf
  <2>1. \/ Nco(k, w).tx = 1 /\ Nco(k, w).rx = 0
        \/ Nco(k, w).tx = 3 /\ Nco(k, w).rx = 1
    BY <1>2, <1>3 DEF Nco
  <2>2. k.rf * (0 + 1) = k.tf * (1 + 1) /\ k.rf * (1 + 1) = k.tf * (3 + 1)
    BY <1>1, <1>3
  <2>3. QED BY <2>1, <2>2
<1>4. CASE k.rf # 2 * k.tf
  <2>1. Nco(k, w).tx = w /\ Nco(k, w).rx = w
    BY <1>4 DEF Nco
  <2>2. k.rf = k.tf => k.rf * (w + 1) = k.tf * (w + 1)
    OBVIOUS
  <2>3. QED BY <1>4, <2>1, <2>2
<1>5. QED BY <1>3, <1>4

-----------------------------------------------------------------------------
(***************************************************************************)
(* One calibration.                                                        *)
(***************************************************************************)

\* A calibration of x, with the bandwidths phy has: the filters have them again
\* unless tuning them failed, the inversion is what the board asks for if it was
\* before, the power of the LO what the user asked for; the words of the NCOs are
\* a row of the table; the tone is in the filters.  The trackings and what the
\* user asked for are not touched.
LEMMA QuadCalUndone ==
  ASSUME NEW x, DOMAIN x = CalFields, NEW bw \in CalBandwidths, x.bw = bw,
         NEW rxPhase \in Int, NEW env,
         NEW before, before => x.bwNow = x.bw,
         calBoard \in CalBoards, calClock \in CalClocks,
         x.inverted = calBoard.inverted, x.both = ~calBoard.inverted,
         x.loOff \in BOOLEAN, x.loPower = ~x.loOff,
         x.nco \in NcoPairs(calClock), CalibratedWide
  PROVE  LET q == QuadCalib(x, bw, rxPhase, env)
         IN /\ DOMAIN q.x = CalFields
            /\ q.x.bw = x.bw /\ q.x.track = x.track /\ q.x.want = x.want
            /\ q.x.loOff = x.loOff
            /\ before /\ ~q.spoilt => q.x.bwNow = q.x.bw
            /\ q.x.inverted = calBoard.inverted /\ q.x.both = ~calBoard.inverted
            /\ q.x.loPower = ~q.x.loOff
            /\ q.x.nco \in NcoPairs(calClock)
            /\ q.made.wide
<1> DEFINE clk == calClock
           w == TxWord(bw[2], clk.tf)
           n == Nco(clk, w)
           freq == (clk.tf * (n.tx + 1)) \div 32
           narrow == TooNarrow(freq, bw)
           on == [x EXCEPT !.loPower = TRUE]
           wide == IF narrow THEN [on EXCEPT !.bwNow = <<4 * freq, 4 * freq>>] ELSE on
           quiet == IF calBoard.inverted THEN Uninvert(wide) ELSE wide
           r == Runs(x, IF rxPhase >= 0 THEN rxPhase ELSE n.phase, env.good, env.fault)
           done == [quiet EXCEPT !.nco = <<n.tx, n.rx>>, !.phase = r.phase, !.lastPhase = r.last]
           back == IF calBoard.inverted THEN Reinvert(done, x) ELSE done
           filtered == IF ~narrow THEN back
                       ELSE IF env.fault = "restore" THEN [back EXCEPT !.bwNow[1] = x.bw[1]]
                       ELSE Filtered(back, r.ok)
           failed == narrow /\ env.fault = "widen"
           widened == [on EXCEPT !.bwNow[1] = 4 * freq]
           q == QuadCalib(x, bw, rxPhase, env)
           okWide == \/ x.bwNow # x.bw
                     \/ freq <= wide.bwNow[1] \div 4 /\ freq <= wide.bwNow[2] \div 4
           done2 == [x |-> LoRestored(filtered), ok |-> r.ok,
                     made |-> [good |-> env.good, phase |-> r.phase, searched |-> r.searched,
                               wide |-> okWide,
                               clean |-> env.fault \in {"none", "widen", "restore"}],
                     spoilt |-> narrow /\ env.fault = "restore"]
           Kept(y) == /\ DOMAIN y = CalFields
                      /\ y.bw = x.bw /\ y.track = x.track /\ y.want = x.want
                      /\ y.loOff = x.loOff
           Inverted(y) == y.inverted = calBoard.inverted /\ y.both = ~calBoard.inverted
<1>1. q = IF Aborts(x)
            THEN [x |-> x, ok |-> FALSE, made |-> made, spoilt |-> FALSE]
          ELSE IF failed
            THEN [x |-> LoRestored(widened), ok |-> FALSE, made |-> made, spoilt |-> TRUE]
          ELSE done2
  BY DEF QuadCalib
<1>2. calBoard.inverted \in BOOLEAN /\ calBoard.managed \in BOOLEAN /\ clk.tf \in Nat \ {0}
      /\ bw[1] \in Nat /\ bw[2] \in Nat
  BY CalibAssumption
<1>3. w \in 0..3
  BY <1>2, TxWordField
<1>4. n.tx \in 0..3 /\ n.rx \in 0..3 /\ <<n.tx, n.rx>> \in NcoPairs(clk)
  BY <1>3, NcoRow DEF NcoPairs
<1>5. freq \in Nat
  BY <1>2, <1>4
<1> HIDE DEF w, n, freq, r, on, wide, quiet, done, back, filtered, widened, done2, okWide, q
<1>6. ASSUME NEW y, Kept(y), Inverted(y), y.loPower = TRUE
      PROVE  /\ Kept(LoRestored(y)) /\ Inverted(LoRestored(y))
             /\ ~Aborts(x) => LoRestored(y).loPower = ~LoRestored(y).loOff
             /\ LoRestored(y).bwNow = y.bwNow /\ LoRestored(y).nco = y.nco
  BY <1>2, <1>6 DEF LoRestored, Aborts, CalFields
<1>7. CASE Aborts(x)
  BY <1>1, <1>7 DEF CalibratedWide, q
<1>8. CASE ~Aborts(x) /\ failed
  <2>1. Kept(widened) /\ Inverted(widened) /\ widened.loPower = TRUE /\ widened.nco = x.nco
    BY DEF CalFields, widened, on
  <2>2. q.x = LoRestored(widened) /\ q.spoilt = TRUE /\ q.made = made
    BY <1>1, <1>8
  <2>3. /\ Kept(LoRestored(widened)) /\ Inverted(LoRestored(widened))
        /\ LoRestored(widened).loPower = ~LoRestored(widened).loOff
        /\ LoRestored(widened).nco = x.nco
    BY <1>6, <1>8, <2>1
  <2>4. QED BY <2>2, <2>3 DEF CalibratedWide, q
<1>9. CASE ~Aborts(x) /\ ~failed
  <2>1. /\ Kept(wide) /\ Inverted(wide) /\ wide.loPower = TRUE
        /\ wide.bwNow = IF narrow THEN <<4 * freq, 4 * freq>> ELSE x.bwNow
    BY DEF CalFields, wide, on
  <2>2. /\ Kept(quiet) /\ quiet.loPower = TRUE /\ quiet.bwNow = wide.bwNow
        /\ ~calBoard.inverted => Inverted(quiet)
    BY <2>1 DEF CalFields, Uninvert, quiet
  <2>3. /\ Kept(done) /\ done.loPower = TRUE /\ done.bwNow = wide.bwNow
        /\ done.nco = <<n.tx, n.rx>>
        /\ ~calBoard.inverted => Inverted(done)
    BY <2>2 DEF CalFields, done
  <2>4. /\ Kept(back) /\ back.loPower = TRUE /\ back.bwNow = wide.bwNow
        /\ back.nco = <<n.tx, n.rx>> /\ Inverted(back)
    BY <1>2, <2>3 DEF CalFields, Reinvert, back
  <2>5. /\ Kept(filtered) /\ filtered.loPower = TRUE /\ Inverted(filtered)
        /\ filtered.nco = <<n.tx, n.rx>>
        /\ before /\ ~(narrow /\ env.fault = "restore") => filtered.bwNow = filtered.bw
    BY <2>1, <2>4 DEF CalFields, Filtered, filtered
  <2>6. okWide
    <3>1. CASE narrow
      <4>1. wide.bwNow[1] = 4 * freq /\ wide.bwNow[2] = 4 * freq
        BY <2>1, <3>1
      <4>2. (4 * freq) \div 4 = freq
        BY <1>5
      <4>3. QED BY <1>5, <4>1, <4>2 DEF okWide
    <3>2. CASE ~narrow /\ x.bwNow = x.bw
      <4>1. wide.bwNow = bw
        BY <2>1, <3>2
      <4>2. freq <= bw[1] \div 4 /\ freq <= bw[2] \div 4
        BY <1>2, <1>5, <3>2 DEF TooNarrow
      <4>3. QED BY <4>1, <4>2 DEF okWide
    <3>3. QED BY <3>1, <3>2 DEF okWide
  <2>7. q.x = LoRestored(filtered) /\ q.spoilt = (narrow /\ env.fault = "restore")
        /\ q.made.wide = okWide
    BY <1>1, <1>9 DEF done2
  <2>8. /\ Kept(LoRestored(filtered)) /\ Inverted(LoRestored(filtered))
        /\ LoRestored(filtered).loPower = ~LoRestored(filtered).loOff
        /\ LoRestored(filtered).nco = <<n.tx, n.rx>>
        /\ LoRestored(filtered).bwNow = filtered.bwNow
    BY <1>6, <1>9, <2>5
  <2>9. QED BY <1>4, <2>5, <2>6, <2>7, <2>8 DEF q
<1>10. QED BY <1>7, <1>8, <1>9 DEF q

-----------------------------------------------------------------------------
(***************************************************************************)
(* Every call.                                                             *)
(***************************************************************************)

\* The calibrations start from a chip nothing has touched.
LEMMA CalibInit_Inv == CalibInit => CalibInv
<1> SUFFICES ASSUME CalibInit PROVE CalibInv
  OBVIOUS
<1>1. PICK bw \in CalBandwidths, last \in LastPhases :
        LET n == Nco(calClock, TxWord(bw[2], calClock.tf)) IN
          cal = [bwNow |-> bw, bw |-> bw, nco |-> <<n.tx, n.rx>>, phase |-> last, lastPhase |-> last,
                 inverted |-> calBoard.inverted, both |-> ~calBoard.inverted,
                 track |-> Trackings, want |-> Trackings, loOff |-> FALSE, loPower |-> TRUE,
                 dcRange |-> "low", rssiMode |-> "user"]
  BY DEF CalibInit
<1>2. calBoard \in CalBoards /\ calClock \in CalClocks /\ made.wide /\ ~spoilt /\ ~stopped
  BY DEF CalibInit
<1>3. TxWord(bw[2], calClock.tf) \in 0..3
  BY <1>2, CalibAssumption, TxWordField
<1>4. cal.nco \in NcoPairs(calClock)
  BY <1>1, <1>3 DEF NcoPairs
<1>5. QED
  BY <1>1, <1>2, <1>4 DEF CalibInv, CalFields, CalibrationUndone, BandwidthRestored,
     InversionRestored, LoPowerRestored, TrackingRestored, CalibratedWide

\* A calibration run by itself starts and ends with the trackings put aside.
LEMMA DoQuadCal_Inv ==
  ASSUME CalibInv, UNCHANGED <<calBoard, calClock>>, DoQuadCal
  PROVE  CalibInv'
<1> USE DEF CalibInv, CalibrationUndone, BandwidthRestored, InversionRestored,
            LoPowerRestored, TrackingRestored
<1>1. PICK env \in Environments, arg \in {-1, 3} :
        AfterRun(QuadCalib(Untracked(cal), cal.bw, arg, env))
  BY DEF DoQuadCal
<1> DEFINE x == Untracked(cal)
           q == QuadCalib(x, cal.bw, arg, env)
<1>2. /\ DOMAIN x = CalFields /\ x.bw = cal.bw /\ x.bwNow = cal.bwNow /\ x.nco = cal.nco
      /\ x.want = cal.want /\ x.loOff = cal.loOff /\ x.loPower = cal.loPower
      /\ x.inverted = cal.inverted /\ x.both = cal.both
  BY DEF Untracked, CalFields
<1> HIDE DEF x
<1>3. /\ DOMAIN q.x = CalFields
      /\ q.x.bw = x.bw /\ q.x.want = x.want /\ q.x.loOff = x.loOff
      /\ ~spoilt /\ ~q.spoilt => q.x.bwNow = q.x.bw
      /\ q.x.inverted = calBoard.inverted /\ q.x.both = ~calBoard.inverted
      /\ q.x.loPower = ~q.x.loOff
      /\ q.x.nco \in NcoPairs(calClock)
      /\ q.made.wide
  <2>1. (~spoilt) => x.bwNow = x.bw
    BY <1>2
  <2>2. cal.bw \in CalBandwidths /\ x.bw = cal.bw /\ arg \in Int
    BY <1>2
  <2> HIDE DEF CalibrationUndone, BandwidthRestored
  <2>3. /\ x.inverted = calBoard.inverted /\ x.both = ~calBoard.inverted
        /\ x.loOff \in BOOLEAN /\ x.loPower = ~x.loOff
        /\ x.nco \in NcoPairs(calClock) /\ CalibratedWide
        /\ calBoard \in CalBoards /\ calClock \in CalClocks
    BY <1>2 DEF CalibrationUndone
  <2> DEFINE before == ~spoilt
  <2>4. before => x.bwNow = x.bw
    BY <2>1
  <2> HIDE DEF before, CalibInv
  <2>5. /\ DOMAIN q.x = CalFields
        /\ q.x.bw = x.bw /\ q.x.want = x.want /\ q.x.loOff = x.loOff
        /\ before /\ ~q.spoilt => q.x.bwNow = q.x.bw
        /\ q.x.inverted = calBoard.inverted /\ q.x.both = ~calBoard.inverted
        /\ q.x.loPower = ~q.x.loOff
        /\ q.x.nco \in NcoPairs(calClock)
        /\ q.made.wide
    BY <1>2, <2>2, <2>3, <2>4, QuadCalUndone
  <2>6. QED BY <2>5 DEF before
<1> HIDE DEF q
<1>4. cal' = Tracked(q.x) /\ made' = q.made /\ spoilt' = (spoilt \/ q.spoilt)
  BY <1>1 DEF AfterRun, q, x
<1>5. QED
  BY <1>2, <1>3, <1>4 DEF Tracked, CalFields, CalibratedWide

\* A change of the bandwidth calibrates again, and returns early where it fails.
LEMMA UpdateBandwidth_Inv ==
  ASSUME CalibInv, UNCHANGED <<calBoard, calClock>>, UpdateBandwidth
  PROVE  CalibInv'
<1> USE DEF CalibInv, CalibrationUndone, BandwidthRestored, InversionRestored,
            LoPowerRestored, TrackingRestored
<1>1. PICK bw \in CalBandwidths :
        \/ \E env \in Environments :
             AfterTune(QuadCalib([Untracked(cal) EXCEPT !.bwNow = bw, !.bw = bw], bw, -1, env))
        \/ /\ cal' = [Untracked(cal) EXCEPT !.bwNow[1] = bw[1]]
           /\ spoilt' = TRUE /\ stopped' = TRUE /\ UNCHANGED made
  BY DEF UpdateBandwidth
<1>2. CASE /\ cal' = [Untracked(cal) EXCEPT !.bwNow[1] = bw[1]]
           /\ spoilt' = TRUE /\ stopped' = TRUE /\ UNCHANGED made
  BY <1>2 DEF Untracked, CalFields, CalibratedWide
<1>3. ASSUME NEW env \in Environments,
             AfterTune(QuadCalib([Untracked(cal) EXCEPT !.bwNow = bw, !.bw = bw], bw, -1, env))
      PROVE  CalibInv'
  <2> DEFINE x == [Untracked(cal) EXCEPT !.bwNow = bw, !.bw = bw]
             table == -1
             q == QuadCalib(x, bw, table, env)
  <2>1. table \in Int
    OBVIOUS
  <2>2. /\ DOMAIN x = CalFields /\ x.bw = bw /\ x.bwNow = bw /\ x.nco = cal.nco
        /\ x.want = cal.want /\ x.loOff = cal.loOff /\ x.loPower = cal.loPower
        /\ x.inverted = cal.inverted /\ x.both = cal.both
    BY DEF Untracked, CalFields
  <2> HIDE DEF x, table
  <2>3. /\ DOMAIN q.x = CalFields
        /\ q.x.bw = x.bw /\ q.x.want = x.want /\ q.x.loOff = x.loOff
        /\ ~q.spoilt => q.x.bwNow = q.x.bw
        /\ q.x.inverted = calBoard.inverted /\ q.x.both = ~calBoard.inverted
        /\ q.x.loPower = ~q.x.loOff
        /\ q.x.nco \in NcoPairs(calClock)
        /\ q.made.wide
    <3>1. /\ x.bw = bw /\ x.inverted = calBoard.inverted /\ x.both = ~calBoard.inverted
          /\ x.loOff \in BOOLEAN /\ x.loPower = ~x.loOff
          /\ x.nco \in NcoPairs(calClock) /\ CalibratedWide
          /\ calBoard \in CalBoards /\ calClock \in CalClocks
      BY <2>2
    <3> DEFINE before == TRUE
    <3>2. before => x.bwNow = x.bw
      BY <2>2
    <3> HIDE DEF before, CalibInv, CalibrationUndone
    <3>3. /\ DOMAIN q.x = CalFields
          /\ q.x.bw = x.bw /\ q.x.want = x.want /\ q.x.loOff = x.loOff
          /\ before /\ ~q.spoilt => q.x.bwNow = q.x.bw
          /\ q.x.inverted = calBoard.inverted /\ q.x.both = ~calBoard.inverted
          /\ q.x.loPower = ~q.x.loOff
          /\ q.x.nco \in NcoPairs(calClock)
          /\ q.made.wide
      BY <2>1, <2>2, <3>1, <3>2, QuadCalUndone
    <3>4. QED BY <3>3 DEF before
  <2> HIDE DEF q
  <2>4. /\ cal' = (IF q.ok THEN Tracked(q.x) ELSE q.x) /\ made' = q.made
        /\ spoilt' = q.spoilt /\ stopped' = ~q.ok
    BY <1>3 DEF AfterTune, q, x, table
  <2>5. QED
    BY <2>2, <2>3, <2>4 DEF Tracked, CalFields, CalibratedWide
<1>4. QED BY <1>1, <1>2, <1>3

\* Every calibration, and every return from one, keeps the invariant.
LEMMA CalibNext_Inv == CalibInv /\ [CalibNext]_calibVars => CalibInv'
<1> SUFFICES ASSUME CalibInv, [CalibNext]_calibVars PROVE CalibInv'
  OBVIOUS
<1>1. CASE UNCHANGED calibVars
  BY <1>1 DEF calibVars, CalibInv, CalibrationUndone, BandwidthRestored, InversionRestored,
     LoPowerRestored, TrackingRestored, CalibratedWide
<1>2. CASE CalibNext
  <2>1. UNCHANGED <<calBoard, calClock>>
    BY <1>2 DEF CalibNext
  <2> USE DEF CalibInv, CalibrationUndone, BandwidthRestored, InversionRestored,
              LoPowerRestored, TrackingRestored, CalibratedWide, CalFields
  <2>2. CASE DoRfDcCal
    BY <2>1, <2>2 DEF DoRfDcCal, Tracked
  <2>3. CASE SetTracking
    BY <2>1, <2>3 DEF SetTracking, Tracked
  <2>4. CASE SetTxLoPower
    BY <2>1, <2>4 DEF SetTxLoPower
  <2>5. CASE GainStepCal
    BY <2>1, <2>5 DEF GainStepCal
  <2>6. QED
    BY <1>2, <2>1, <2>2, <2>3, <2>4, <2>5, DoQuadCal_Inv, UpdateBandwidth_Inv DEF CalibNext
<1>3. QED BY <1>1, <1>2

\* What a calibration changes for its own use (the bandwidth of the filters, the
\* inversion, the power of the LO, the tracking) is back after it, however it ended
\* (ad9361_tx_quad_calib, ad9361_do_calib_run, ad9361_update_rf_bandwidth).
THEOREM CalibrationsUndone == CalibSpec => []CalibrationUndone
<1>1. CalibInv => CalibrationUndone
  BY DEF CalibInv
<1>2. QED BY CalibInit_Inv, CalibNext_Inv, <1>1, PTL DEF CalibSpec

-----------------------------------------------------------------------------
(***************************************************************************)
(* The phase of the quadrature calibration.                                *)
(***************************************************************************)

\* The phases go round.
LEMMA Mod32 ==
  ASSUME NEW i \in Int
  PROVE  /\ i \in 0..31 => i % 32 = i
         /\ i \in 32..63 => i % 32 = i - 32
         /\ i \in 0..63 => i % 32 \in 0..31
<1>1. i \in 0..31 => i % 32 = i
  BY SMT
<1>2. i \in 32..63 => i % 32 = i - 32
  BY SMT
<1> QED
  BY <1>1, <1>2, SMT

\* The phases at a distance from p, on both sides, converge.
Around(p, k, good) == (p + k) % 32 \in good /\ (p + 32 - k) % 32 \in good

\* The margin of a phase is the distance to the first that fails, and a half round at
\* the most.
LEMMA MarginIs ==
  ASSUME NEW good \in SUBSET (0..31), good # 0..31, NEW p \in 0..31
  PROVE  /\ Margin(p, good) \in 0..16
         /\ ~Around(p, Margin(p, good), good)
         /\ \A j \in 0 .. Margin(p, good) - 1 : Around(p, j, good)
<1> DEFINE T == {k \in 0..32 : ~Around(p, k, good)}
           First(k) == /\ (p + k) % 32 \notin good \/ (p + 32 - k) % 32 \notin good
                       /\ \A j \in 0..k - 1 : (p + j) % 32 \in good /\ (p + 32 - j) % 32 \in good
<1>1. PICK q \in 0..31 : q \notin good
  OBVIOUS
<1>2. \E k \in 0..16 : (p + k) % 32 = q \/ (p + 32 - k) % 32 = q
  <2>1. CASE q >= p /\ q - p <= 16
    <3>1. q - p \in 0..16 /\ p + (q - p) = q /\ q % 32 = q
      BY <2>1, Mod32
    <3> QED
      BY <3>1
  <2>2. CASE q >= p /\ q - p > 16
    <3> DEFINE k == p + 32 - q
    <3>1. k \in 0..16 /\ p + 32 - k = q /\ q % 32 = q
      BY <2>2, Mod32
    <3> QED
      BY <3>1
  <2>3. CASE q < p /\ p - q <= 16
    <3> DEFINE k == p - q
    <3>1. k \in 0..16 /\ p + 32 - k = q + 32 /\ q + 32 \in 32..63 /\ (q + 32) - 32 = q
      BY <2>3
    <3>2. (q + 32) % 32 = q
      BY <3>1, Mod32
    <3> QED
      BY <3>1, <3>2
  <2>4. CASE q < p /\ p - q > 16
    <3> DEFINE k == q + 32 - p
    <3>1. k \in 0..16 /\ p + k = q + 32 /\ q + 32 \in 32..63 /\ (q + 32) - 32 = q
      BY <2>4
    <3>2. (q + 32) % 32 = q
      BY <3>1, Mod32
    <3> QED
      BY <3>1, <3>2
  <2> QED
    BY <2>1, <2>2, <2>3, <2>4
<1>3. PICK n \in 0..16 : ~Around(p, n, good)
  BY <1>1, <1>2 DEF Around
<1>4. n \in T /\ T \in SUBSET Nat
  BY <1>3
<1>5. PICK m \in T : \A k \in T : m <= k
  BY <1>4, LeastNat
<1>6. m \in 0..16 /\ ~Around(p, m, good)
  BY <1>3, <1>4, <1>5
<1>7. \A j \in 0 .. m - 1 : Around(p, j, good)
  <2>1. ASSUME NEW j \in 0 .. m - 1 PROVE j \notin T /\ j \in 0..32
    BY <1>5, <1>6
  <2> QED
    BY <2>1
<1>8. First(m) /\ m \in 0..32
  BY <1>6, <1>7 DEF Around
<1>9. ASSUME NEW k \in 0..32, First(k) PROVE k = m
  <2>1. ~Around(p, k, good) /\ \A j \in 0 .. k - 1 : Around(p, j, good)
    BY <1>9 DEF Around
  <2>2. ~ (k < m)
    BY <1>6, <1>7, <2>1
  <2>3. ~ (m < k)
    BY <1>6, <2>1
  <2> QED
    BY <1>6, <2>2, <2>3
<1>10. Margin(p, good) = CHOOSE k \in 0..32 : First(k)
  BY DEF Margin, Phases
<1> HIDE DEF First
<1>11. Margin(p, good) = m
  BY <1>8, <1>9, <1>10
<1> QED
  BY <1>6, <1>7, <1>11

\* A margin is a run of the doubled row of phases.
LEMMA MarginIsRun ==
  ASSUME NEW good \in SUBSET (0..31), NEW p \in 0..31, NEW k \in 1..16,
         \A j \in 0 .. k - 1 : Around(p, j, good)
  PROVE  \E a, b \in 0..63 : a <= b /\ b - a + 1 = 2 * k - 1 /\ \A j \in a .. b : j % 32 \in good
<1>1. \A j \in 0 .. k - 1 : (p + j) % 32 \in good /\ (p + 32 - j) % 32 \in good
  BY DEF Around
<1>2. CASE p >= k - 1
  <2> DEFINE a == p - (k - 1)
             b == p + (k - 1)
  <2>1. a \in 0..63 /\ b \in 0..63 /\ a <= b /\ b - a + 1 = 2 * k - 1
    BY <1>2
  <2>2. ASSUME NEW j \in a .. b PROVE j % 32 \in good
    <3>1. CASE j >= p
      <4> DEFINE i == j - p
      <4>1. i \in 0 .. k - 1 /\ p + i = j
        BY <3>1
      <4> QED
        BY <1>1, <4>1
    <3>2. CASE j < p
      <4> DEFINE i == p - j
      <4>1. i \in 0 .. k - 1 /\ p + 32 - i = j + 32 /\ j \in 0..31 /\ j + 32 \in 32..63 /\ (j + 32) - 32 = j
        BY <1>2, <3>2
      <4> HIDE DEF i
      <4>2. (j + 32) % 32 \in good
        BY <1>1, <4>1
      <4>3. (j + 32) % 32 = j /\ j % 32 = j
        BY <4>1, Mod32
      <4> QED
        BY <4>2, <4>3
    <3> QED
      BY <3>1, <3>2, <2>1
  <2> HIDE DEF a, b
  <2> QED
    BY <2>1, <2>2
<1>3. CASE p < k - 1
  <2> DEFINE a == p + 32 - (k - 1)
             b == p + 32 + (k - 1)
  <2>1. a \in 0..63 /\ b \in 0..63 /\ a <= b /\ b - a + 1 = 2 * k - 1
    BY <1>3
  <2>2. ASSUME NEW j \in a .. b PROVE j % 32 \in good
    <3>1. CASE j >= p + 32
      <4> DEFINE i == j - 32 - p
      <4>1. i \in 0 .. k - 1 /\ p + i = j - 32 /\ j \in 32..63 /\ j - 32 \in 0..31
        BY <1>3, <3>1
      <4> HIDE DEF i
      <4>2. (j - 32) % 32 \in good
        BY <1>1, <4>1
      <4>3. (j - 32) % 32 = j - 32 /\ j % 32 = j - 32
        BY <4>1, Mod32
      <4> QED
        BY <4>2, <4>3
    <3>2. CASE j < p + 32
      <4> DEFINE i == p + 32 - j
      <4>1. i \in 0 .. k - 1 /\ p + 32 - i = j
        BY <3>2
      <4> QED
        BY <1>1, <4>1
    <3> QED
      BY <3>1, <3>2, <2>1
  <2> HIDE DEF a, b
  <2> QED
    BY <2>1, <2>2
<1>4. p >= k - 1 \/ p < k - 1
  OBVIOUS
<1> QED
  BY <1>2, <1>3, <1>4, Zenon

\* The phase the search sets: none is farther from the phases that fail, and it
\* converges if any does.
LEMMA BestPhaseIsBest ==
  ASSUME NEW good \in SUBSET (0..31)
  PROVE  /\ BestPhase(good) \in 0..31
         /\ good # {} => BestPhase(good) \in good
         /\ \A p \in 0..31 : Margin(p, good) <= Margin(BestPhase(good), good)
<1> DEFINE bad == [i \in 0..63 |-> (i % 32) \notin good]
           run == FindOpt(bad, 64)
           c == run.cnt
           s == run.start
           h == c \div 2
           m == s + h
           b == m % 32
<1>1. Longest(run, bad, 64)
  <2>1. 0 .. 64 - 1 = 0..63 /\ 64 \in Nat
    BY SMT
  <2>2. bad \in [0..63 -> BOOLEAN]
    OBVIOUS
  <2> HIDE DEF bad
  <2> QED
    BY <2>1, <2>2, FindOptLongest
<1>2. BestPhase(good) = b
  BY DEF BestPhase, Middle
<1>3. \A j \in 0..63 : bad[j] <=> j % 32 \notin good
  OBVIOUS
<1> HIDE DEF bad, run
<1>4. /\ s \in Int /\ c \in 0..64 /\ (c > 0 => s >= 0 /\ s + c <= 64)
      /\ \A j \in s .. s + c - 1 : ~bad[j]
      /\ \A x, y \in 0..63 : x <= y /\ (\A j \in x .. y : ~bad[j]) => y - x + 1 <= c
  <2>1. 64 - 1 = 63
    BY SMT
  <2> QED
    BY <1>1, <2>1 DEF Longest
<1> HIDE DEF c, s
<1>11. c \in Nat /\ s \in Int /\ (c > 0 => s >= 0 /\ s + c - 1 <= 63)
  <2>1. c \in 0..64 /\ s \in Int /\ (c > 0 => s >= 0 /\ s + c <= 64)
    BY <1>4
  <2> QED
    BY <2>1, SMT
<1>12. ASSUME NEW x \in 0..63, NEW y \in 0..63, x <= y, \A j \in x .. y : j % 32 \in good
       PROVE  y - x + 1 <= c
  <2>1. \A j \in x .. y : ~bad[j]
    <3> TAKE j \in x .. y
    <3>1. j \in 0..63
      BY SMT
    <3> QED
      BY <1>3, <1>12, <3>1
  <2> QED
    BY <1>4, <1>12, <2>1, Zenon
<1>13. ASSUME NEW j \in s .. s + c - 1, j \in 0..63 PROVE j % 32 \in good
  BY <1>3, <1>4, <1>13
<1>5. h \in Nat /\ 2 * h <= c /\ c <= 2 * h + 1
  BY <1>11
<1> HIDE DEF h
<1>6. m \in Int
  BY <1>11, <1>5
<1>7. b \in 0..31
  BY <1>6, SMT
<1>8. ASSUME NEW k \in 0..16, 2 * k + 1 <= c
      PROVE  Around(b, k, good)
  <2>1. /\ m - k \in s .. s + c - 1 /\ m + k \in s .. s + c - 1 /\ m \in s .. s + c - 1
        /\ m - k \in 0..63 /\ m + k \in 0..63 /\ m \in 0..63
    <3>1. c > 0 /\ h + k <= c - 1 /\ k <= h /\ k \in Nat
      BY <1>5, <1>8, <1>11
    <3>2. m - k >= s /\ m + k <= s + c - 1 /\ m >= s /\ m <= s + c - 1 /\ s >= 0 /\ s + c - 1 <= 63
      BY <1>5, <1>11, <3>1
    <3> HIDE DEF m
    <3>3. m - k \in s .. s + c - 1 /\ m + k \in s .. s + c - 1 /\ m \in s .. s + c - 1
      BY <1>6, <1>11, <3>1, <3>2
    <3> QED
      BY <1>6, <1>11, <3>1, <3>2, <3>3, SMT
  <2>2. (m - k) % 32 \in good /\ (m + k) % 32 \in good
    BY <1>13, <2>1
  <2>3. b = m \/ (b = m - 32 /\ m >= 32)
    BY <2>1, Mod32, SMT
  <2>4. (b + k) % 32 = (m + k) % 32 /\ (b + 32 - k) % 32 = (m - k) % 32
    <3> HIDE DEF m, b
    <3>1. CASE b = m
      <4>1. (m + 32 - k) % 32 = (m - k) % 32
        BY <2>1, SMT
      <4> QED
        BY <3>1, <4>1
    <3>2. CASE b = m - 32 /\ m >= 32
      <4>1. b + k = m + k - 32 /\ b + 32 - k = m - k
        BY <2>1, <3>2
      <4>2. (m + k - 32) % 32 = (m + k) % 32
        BY <2>1, SMT
      <4> QED
        BY <4>1, <4>2
    <3> QED
      BY <2>3, <3>1, <3>2
  <2> QED
    BY <2>2, <2>4 DEF Around
<1> HIDE DEF m, b
<1>9. ASSUME good # {} PROVE b \in good
  <2>1. PICK g \in 0..31 : g \in good
    BY <1>9
  <2>2. g \in 0..63 /\ g % 32 = g
    BY <2>1, Mod32
  <2>3. \A j \in g .. g : j % 32 \in good
    BY <2>1, <2>2
  <2>4. 1 <= c
    <3>1. g - g + 1 <= c
      BY <1>12, <2>2, <2>3
    <3> QED
      BY <1>11, <2>2, <3>1
  <2>5. Around(b, 0, good)
    BY <1>8, <2>4
  <2>6. (b + 0) % 32 = b
    BY <1>7, Mod32
  <2> QED
    BY <2>5, <2>6 DEF Around
<1>10. ASSUME NEW p \in 0..31 PROVE Margin(p, good) <= Margin(b, good)
  <2>1. CASE good = 0..31
    <3>1. Margin(p, good) = 32 /\ Margin(b, good) = 32
      BY <2>1 DEF Margin, Phases
    <3> QED
      BY <3>1
  <2>2. CASE good # 0..31
    <3> DEFINE k == Margin(p, good)
               n == Margin(b, good)
    <3>1. /\ k \in 0..16 /\ n \in 0..16
          /\ ~Around(b, n, good) /\ \A j \in 0 .. k - 1 : Around(p, j, good)
      BY <1>7, <2>2, MarginIs
    <3> HIDE DEF k, n
    <3>2. ASSUME n < k PROVE FALSE
      <4>1. k \in 1..16
        BY <3>1, <3>2
      <4>2. PICK x, y \in 0..63 : x <= y /\ y - x + 1 = 2 * k - 1 /\ \A j \in x .. y : j % 32 \in good
        BY <3>1, <4>1, MarginIsRun
      <4>4. 2 * k - 1 <= c
        BY <1>12, <4>2
      <4>5. 2 * n + 1 <= c
        BY <1>11, <3>1, <3>2, <4>4
      <4> QED
        BY <1>8, <3>1, <4>5
    <3> QED
      BY <3>1, <3>2 DEF k, n
  <2> QED
    BY <2>1, <2>2
<1> QED
  BY <1>2, <1>7, <1>9, <1>10
\* What a calibration without a time-out ends with.
LEMMA RunsEndWell ==
  ASSUME NEW x, NEW first, NEW good \in SUBSET (0..31), NEW fault \in {"none", "widen", "restore"}
  PROVE  LET r == Runs(x, first, good, fault)
         IN  /\ good # {} => r.phase \in good
             /\ r.searched => r.phase = BestPhase(good)
<1> DEFINE r == Runs(x, first, good, fault)
           again == first \notin good /\ x.lastPhase < 31
           ok == again /\ x.lastPhase \in good
<1>1. fault # "first" /\ fault # "garbage" /\ fault # "last" /\ fault # "search"
  OBVIOUS
<1>2. CASE first \in good
  <2>1. r = [phase |-> first, last |-> first, searched |-> FALSE, ok |-> TRUE]
    BY <1>1, <1>2 DEF Runs
  <2> QED
    BY <1>2, <2>1
<1>3. CASE first \notin good /\ x.lastPhase < 31 /\ x.lastPhase \in good
  <2>1. r = [phase |-> x.lastPhase, last |-> x.lastPhase, searched |-> FALSE, ok |-> TRUE]
    BY <1>1, <1>3 DEF Runs
  <2> QED
    BY <1>3, <2>1
<1>4. CASE first \notin good /\ ~ (x.lastPhase < 31 /\ x.lastPhase \in good)
  <2>1. r = [phase |-> BestPhase(good), last |-> BestPhase(good), searched |-> TRUE, ok |-> TRUE]
    BY <1>1, <1>4 DEF Runs
  <2> QED
    BY <2>1, BestPhaseIsBest
<1> QED
  BY <1>2, <1>3, <1>4

\* A record of a calibration that the property admits.
PhaseSetWell(m) ==
  m.clean =>
    /\ m.good # {} => m.phase \in m.good
    /\ m.searched => \A p \in Phases : Margin(p, m.good) <= Margin(m.phase, m.good)
LEMMA QuadCalSetsBest ==
  ASSUME BestPhaseSet, NEW x, NEW bw, NEW arg, NEW env \in Environments
  PROVE  PhaseSetWell(QuadCalib(x, bw, arg, env).made)
<1> DEFINE n == Nco(calClock, TxWord(bw[2], calClock.tf))
           first == IF arg >= 0 THEN arg ELSE n.phase
           r == Runs(x, first, env.good, env.fault)
           m == QuadCalib(x, bw, arg, env).made
<1>1. env.good \in SUBSET (0..31) /\ env.fault \in Faults
  BY CalibAssumption DEF Environments
<1>2. PICK wide : \/ m = made
                  \/ m = [good |-> env.good, phase |-> r.phase, searched |-> r.searched, wide |-> wide,
                          clean |-> env.fault \in {"none", "widen", "restore"}]
  BY DEF QuadCalib
<1>3. CASE m = made
  BY <1>3 DEF BestPhaseSet, PhaseSetWell
<1>4. CASE m = [good |-> env.good, phase |-> r.phase, searched |-> r.searched, wide |-> wide,
                clean |-> env.fault \in {"none", "widen", "restore"}]
  <2> HIDE DEF m, r, first
  <2>1. /\ m.good = env.good /\ m.phase = r.phase /\ m.searched = r.searched
        /\ m.clean = (env.fault \in {"none", "widen", "restore"})
    BY <1>4
  <2>2. \/ env.fault \notin {"none", "widen", "restore"}
        \/ /\ env.good # {} => r.phase \in env.good
           /\ r.searched => r.phase = BestPhase(env.good)
    BY <1>1, RunsEndWell DEF r
  <2>3. \A p \in Phases : Margin(p, env.good) <= Margin(BestPhase(env.good), env.good)
    BY <1>1, BestPhaseIsBest DEF Phases
  <2>4. ASSUME m.clean
        PROVE  /\ m.good # {} => m.phase \in m.good
               /\ m.searched => \A p \in Phases : Margin(p, m.good) <= Margin(m.phase, m.good)
    <3>1. env.fault \in {"none", "widen", "restore"}
      BY <2>1, <2>4, Zenon
    <3> QED
      BY <2>1, <2>2, <2>3, <3>1
  <2>5. PhaseSetWell(m)
    BY <2>4 DEF PhaseSetWell
  <2> QED
    BY <2>5 DEF m
<1> QED
  BY <1>2, <1>3, <1>4 DEF m

LEMMA CalibNext_Best == BestPhaseSet /\ [CalibNext]_calibVars => BestPhaseSet'
<1> SUFFICES ASSUME BestPhaseSet, [CalibNext]_calibVars PROVE BestPhaseSet'
  OBVIOUS
<1>1. CASE made' = made
  BY <1>1 DEF BestPhaseSet
<1>2. ASSUME NEW x, NEW bw, NEW arg, NEW env \in Environments,
             made' = QuadCalib(x, bw, arg, env).made
      PROVE  BestPhaseSet'
  <2>1. PhaseSetWell(made')
    BY <1>2, QuadCalSetsBest
  <2> QED
    BY <2>1 DEF PhaseSetWell, BestPhaseSet
<1>3. CASE DoQuadCal
  <2>1. PICK env \in Environments, arg \in {-1, 3} :
          made' = QuadCalib(Untracked(cal), cal.bw, arg, env).made
    BY <1>3 DEF DoQuadCal, AfterRun
  <2> QED
    BY <1>2, <2>1
<1>4. CASE UpdateBandwidth
  <2>1. PICK bw \in CalBandwidths :
          \/ \E env \in Environments :
               made' = QuadCalib([Untracked(cal) EXCEPT !.bwNow = bw, !.bw = bw], bw, -1, env).made
          \/ made' = made
    BY <1>4 DEF UpdateBandwidth, AfterTune
  <2> QED
    BY <1>1, <1>2, <2>1
<1> QED
  BY <1>1, <1>3, <1>4
     DEF CalibNext, calibVars, DoRfDcCal, SetTracking, SetTxLoPower, GainStepCal

LEMMA CalibInit_Best == CalibInit => BestPhaseSet
<1> SUFFICES ASSUME CalibInit PROVE BestPhaseSet
  OBVIOUS
<1>1. made.good = {} /\ made.searched = FALSE
  BY DEF CalibInit
<1> QED
  BY <1>1 DEF BestPhaseSet

\* The tone of a quadrature calibration is at one frequency on both sides and within
\* a fourth of both filters, and the phase it ends with is the best there is: after a
\* search none is farther from those that fail (ad9361_tx_quad_calib,
\* ad9361_tx_quad_phase_search).
THEOREM QuadratureIsBest == CalibSpec => []QuadratureBest
<1>1. CalibInv => NcosAgree /\ CalibratedWide
  <2> SUFFICES ASSUME CalibInv PROVE NcosAgree /\ CalibratedWide
    OBVIOUS
  <2>1. PICK w \in 0..3 : cal.nco = <<Nco(calClock, w).tx, Nco(calClock, w).rx>>
    BY DEF CalibInv, NcoPairs
  <2>2. cal.nco[1] = Nco(calClock, w).tx /\ cal.nco[2] = Nco(calClock, w).rx
    BY <2>1
  <2>3. QED BY <2>2, NcoRow DEF CalibInv, NcosAgree
<1>2. CalibInv /\ BestPhaseSet => QuadratureBest
  BY <1>1 DEF QuadratureBest
<1>3. QED
  BY CalibInit_Inv, CalibNext_Inv, CalibInit_Best, CalibNext_Best, <1>2, PTL DEF CalibSpec

-----------------------------------------------------------------------------
(***************************************************************************)
(* The order of the steps.                                                 *)
(***************************************************************************)

\* The steps of a set-up have different names: each has one place.
LEMMA PlaceOfStep == \A i \in 1..17 : Place(Steps[i]) = i
<1>1. Len(Steps) = 17
  BY DEF Steps
<1>2. \A i, j \in 1..17 : Steps[i] = Steps[j] => i = j
  BY DEF Steps
<1>3. QED BY <1>1, <1>2 DEF Place

\* The places of the steps the state of the device tells apart.
LEMMA Places ==
  /\ Place("bbref") = 1 /\ Place("synthref") = 4 /\ Place("txcp") = 6 /\ Place("rxlo") = 7
  /\ Place("txlo") = 8 /\ Place("quad") = 13 /\ Place("atten") = 15 /\ Place("end") = 17
<1>1. /\ Steps[1] = "bbref" /\ Steps[4] = "synthref" /\ Steps[6] = "txcp" /\ Steps[7] = "rxlo"
      /\ Steps[8] = "txlo" /\ Steps[13] = "quad" /\ Steps[15] = "atten" /\ Steps[17] = "end"
  BY DEF Steps
<1>2. QED BY <1>1, PlaceOfStep

\* Every step has its place, and only the end has the last.
LEMMA PlaceRange ==
  ASSUME NEW s \in {Steps[i] : i \in 1..Len(Steps)}
  PROVE  Place(s) \in 1..17 /\ (Place(s) = 17 => s = "end")
<1>1. Len(Steps) = 17 /\ Steps[17] = "end"
  BY DEF Steps
<1>2. PICK i \in 1..17 : s = Steps[i]
  BY <1>1
<1>3. Place(s) = i
  BY <1>2, PlaceOfStep
<1>4. QED BY <1>1, <1>2, <1>3

-----------------------------------------------------------------------------
(***************************************************************************)
(* The references.                                                         *)
(***************************************************************************)

\* ad9361_ref_div_sel gives a frequency up to the limit, or 0.
LEMMA RefDivSelLimit ==
  ASSUME NEW f \in Nat \ {0}, NEW max \in Nat, max >= 4
  PROVE  RefDivSel(f, max) \in Nat /\ RefDivSel(f, max) <= max
BY DEF RefDivSel

\* The limits of the references.
LEMMA Limits ==
  /\ {MAX_BBPLL_FREF, MIN_SYNTH_FREF, MAX_SYNTH_FREF} \subseteq Nat
  /\ MAX_BBPLL_FREF >= 4 /\ MIN_SYNTH_FREF >= 4 /\ MIN_SYNTH_FREF <= MAX_SYNTH_FREF
BY SMT DEF MAX_BBPLL_FREF, MIN_SYNTH_FREF, MAX_SYNTH_FREF

\* Both references are up to their limits; the synthesizers' limit is pdata's,
\* kept between the least and the greatest the chip allows.
LEMMA FrefsLimit ==
  ASSUME refin \in Refins, maxFref \in MaxFrefs
  PROVE  /\ Frefs.bb \in Nat /\ Frefs.bb <= MAX_BBPLL_FREF
         /\ Frefs.synth \in Nat /\ Frefs.synth <= MAX_SYNTH_FREF
         /\ MIN_SYNTH_FREF <= maxFref => Frefs.synth <= maxFref
<1>1. refin \in Nat \ {0} /\ maxFref \in Nat \ {0}
  BY SetupAssumption
<1>2. Frefs.bb = RefDivSel(refin, MAX_BBPLL_FREF)
  BY DEF Frefs
<1>3. PICK max \in Nat :
        /\ Frefs.synth = RefDivSel(refin, max) /\ max >= 4 /\ max <= MAX_SYNTH_FREF
        /\ MIN_SYNTH_FREF <= maxFref => max <= maxFref
  <2>1. CASE maxFref < MIN_SYNTH_FREF
    <3>1. Frefs.synth = RefDivSel(refin, MIN_SYNTH_FREF)
      BY <1>1, <2>1, Limits, SMT DEF Frefs
    <3>2. QED BY <1>1, <2>1, <3>1, Limits
  <2>2. CASE ~(maxFref < MIN_SYNTH_FREF) /\ maxFref < MAX_SYNTH_FREF
    <3>1. Frefs.synth = RefDivSel(refin, maxFref)
      BY <1>1, <2>2, Limits, SMT DEF Frefs
    <3>2. QED BY <1>1, <2>2, <3>1, Limits
  <2>3. CASE ~(maxFref < MAX_SYNTH_FREF)
    <3>1. Frefs.synth = RefDivSel(refin, MAX_SYNTH_FREF)
      BY <1>1, <2>3, Limits, SMT DEF Frefs
    <3>2. QED BY <1>1, <2>3, <3>1, Limits
  <2>4. QED BY <2>1, <2>2, <2>3
<1>4. RefDivSel(refin, max) \in Nat /\ RefDivSel(refin, max) <= max
  BY <1>1, <1>3, RefDivSelLimit
<1>5. Frefs.bb \in Nat /\ Frefs.bb <= MAX_BBPLL_FREF
  BY <1>1, <1>2, Limits, RefDivSelLimit
<1>6. Frefs.synth \in Nat /\ Frefs.synth <= max
  BY <1>3, <1>4
<1>7. Frefs.synth <= MAX_SYNTH_FREF
  BY <1>3, <1>6, Limits
<1>8. MIN_SYNTH_FREF <= maxFref => Frefs.synth <= maxFref
  BY <1>1, <1>3, <1>6
<1>9. QED BY <1>5, <1>6, <1>7, <1>8

\* A set-up that goes through has found both references.
LEMMA EndOfRange ==
  ASSUME NEW fault \in {Steps[i] : i \in 1..Len(Steps)}
  PROVE  /\ Place(EndOf(fault)) \in 1..17
         /\ EndOf(fault) = "end" => Place(EndOf(fault)) = 17 /\ Frefs.bb # 0 /\ Frefs.synth # 0
         /\ Place(EndOf(fault)) = 17 => EndOf(fault) = "end"
BY PlaceRange, Places DEF EndOf

-----------------------------------------------------------------------------
(***************************************************************************)
(* One set-up.                                                             *)
(***************************************************************************)

DevFields ==
  {"exists", "bbRef", "synthRef", "ext", "mux", "calibrated", "tracking", "attenSet",
   "active", "autoCal"}
\* A device as the calls keep it
IsDevice(x) == DOMAIN x = DevFields /\ x.exists \in BOOLEAN /\ x.ext \in [SetupSides -> BOOLEAN]

\* What a set-up leaves: one that went through has done every step; one that failed
\* leaves a chip that is not active, and the LOs' flags lost only where it failed
\* tuning them.
LEMMA SetupToLeaves ==
  ASSUME NEW x, IsDevice(x), NEW fault \in {Steps[i] : i \in 1..Len(Steps)}
  PROVE  LET last == EndOf(fault)
             y == SetupTo(x, last)
         IN /\ IsDevice(y) /\ y.exists = x.exists
            /\ y.active = (last = "end")
            /\ y.active => /\ y.calibrated /\ y.tracking /\ y.attenSet
                           /\ y.bbRef = Frefs.bb /\ y.synthRef = Frefs.synth
                           /\ Frefs.bb # 0 /\ Frefs.synth # 0
                           /\ y.ext = x.ext /\ y.mux = x.ext
            /\ Place(last) \notin {Place("rxlo"), Place("txlo")} => y.ext = x.ext
<1> DEFINE last == EndOf(fault)
           y == SetupTo(x, last)
           did(s) == Place(s) < Place(last)
<1>1. /\ DOMAIN y = DevFields /\ y.exists = x.exists
      /\ y.bbRef = (IF did("bbref") THEN Frefs.bb ELSE 0)
      /\ y.synthRef = (IF did("synthref") THEN Frefs.synth ELSE 0)
      /\ y.ext = FlagsAfter(x, did("txcp"), did("txlo"))
      /\ y.mux = (IF did("txlo") THEN FlagsAfter(x, TRUE, TRUE) ELSE [s \in SetupSides |-> FALSE])
      /\ y.calibrated = did("quad") /\ y.tracking = did("quad") /\ y.attenSet = did("atten")
      /\ y.active = ActiveAfter(last)
  BY DEF SetupTo, IsDevice, DevFields
<1>2. /\ Place(last) \in 1..17
      /\ last = "end" => Place(last) = 17 /\ Frefs.bb # 0 /\ Frefs.synth # 0
  BY EndOfRange
<1> HIDE DEF last, y
<1>3. y.ext \in [SetupSides -> BOOLEAN]
  BY <1>1 DEF FlagsAfter, IsDevice
<1>4. y.active = (last = "end")
  BY <1>1 DEF ActiveAfter
<1>5. last = "end" => /\ y.calibrated /\ y.tracking /\ y.attenSet
                      /\ y.bbRef = Frefs.bb /\ y.synthRef = Frefs.synth
                      /\ y.ext = x.ext /\ y.mux = x.ext
  <2> SUFFICES ASSUME last = "end"
               PROVE  /\ y.calibrated /\ y.tracking /\ y.attenSet
                      /\ y.bbRef = Frefs.bb /\ y.synthRef = Frefs.synth
                      /\ y.ext = x.ext /\ y.mux = x.ext
    OBVIOUS
  <2>1. did("bbref") /\ did("synthref") /\ did("txlo") /\ did("quad") /\ did("atten")
    BY <1>2, Places
  <2>2. QED BY <1>1, <2>1 DEF FlagsAfter
<1>6. Place(last) \notin {Place("rxlo"), Place("txlo")} => y.ext = x.ext
  <2>1. Place(last) \notin {7, 8} => ~(6 < Place(last)) \/ 8 < Place(last)
    BY <1>2
  <2>2. Place(last) \notin {7, 8} => ~(did("txcp") /\ ~did("txlo"))
    BY <2>1, Places
  <2>3. QED BY <1>1, <2>2, Places DEF FlagsAfter
<1>7. QED BY <1>1, <1>2, <1>3, <1>4, <1>5, <1>6 DEF IsDevice, last, y

-----------------------------------------------------------------------------
(***************************************************************************)
(* Every call on one device.                                               *)
(***************************************************************************)

\* The inductive invariant of the device: its fields, and what the properties say
\* of it.
DeviceInv ==
  /\ refin \in Refins /\ maxFref \in MaxFrefs
  /\ IsDevice(dev) /\ extAsked \in [SetupSides -> BOOLEAN]
  /\ DeviceReady /\ SilentUntilAttenuated /\ ReferencesInRange /\ ExternalLoKept

\* The device that has not been set up is one.
LEMMA NoDeviceIsDevice == IsDevice(NoDevice) /\ ~NoDevice.exists /\ ~NoDevice.active
BY DEF NoDevice, IsDevice, DevFields

\* A set-up, whichever call it stops at, leaves a device.
LEMMA InitDevice_Inv ==
  ASSUME DeviceInv, UNCHANGED <<refin, maxFref>>, InitDevice
  PROVE  DeviceInv'
<1>1. PICK fault \in {Steps[i] : i \in 1..Len(Steps)}, ext \in [SetupSides -> BOOLEAN] :
        LET x == SetupTo([NoDevice EXCEPT !.exists = TRUE, !.ext = ext], EndOf(fault))
        IN /\ ~dev.exists
           /\ dev' = Returned(x)
           /\ extAsked' = IF dev'.exists THEN ext ELSE extAsked
           /\ UNCHANGED <<broken, lostExt>>
  BY DEF InitDevice
<1> DEFINE x == [NoDevice EXCEPT !.exists = TRUE, !.ext = ext]
           y == SetupTo(x, EndOf(fault))
<1>2. IsDevice(x) /\ x.exists /\ x.ext = ext
  BY DEF NoDevice, IsDevice, DevFields
<1> HIDE DEF x
<1>3. /\ IsDevice(y) /\ y.exists
      /\ y.active = (EndOf(fault) = "end")
      /\ y.active => /\ y.calibrated /\ y.tracking /\ y.attenSet
                     /\ y.bbRef = Frefs.bb /\ y.synthRef = Frefs.synth
                     /\ Frefs.bb # 0 /\ Frefs.synth # 0
                     /\ y.ext = ext /\ y.mux = ext
  BY <1>2, SetupToLeaves
<1> HIDE DEF y
<1>4. dev' = Returned(y) /\ extAsked' = (IF dev'.exists THEN ext ELSE extAsked)
      /\ UNCHANGED <<broken, lostExt>>
  BY <1>1 DEF x, y
<1>5. CASE ~y.active
  <2>1. dev' = NoDevice
    BY <1>4, <1>5 DEF Returned
  <2>2. QED BY <1>4, <2>1, NoDeviceIsDevice DEF DeviceInv, DeviceReady, SilentUntilAttenuated,
               ReferencesInRange, ExternalLoKept
<1>6. CASE y.active
  <2>1. dev' = y /\ extAsked' = ext
    BY <1>3, <1>4, <1>6 DEF Returned
  <2>2. ReferencesInRange'
    BY <1>3, <1>6, <2>1, FrefsLimit DEF DeviceInv, ReferencesInRange
  <2>3. QED BY <1>3, <1>4, <1>6, <2>1, <2>2 DEF DeviceInv, DeviceReady, SilentUntilAttenuated,
               ExternalLoKept
<1>7. QED BY <1>5, <1>6

\* So does a set-up of a device that is there.
LEMMA SetUpAgain_Inv ==
  ASSUME DeviceInv, UNCHANGED <<refin, maxFref>>, SetUpAgain
  PROVE  DeviceInv'
<1>1. PICK fault \in {Steps[i] : i \in 1..Len(Steps)} :
        LET last == EndOf(fault)
        IN /\ dev.exists
           /\ dev' = SetupTo(dev, last)
           /\ broken' = (last # "end")
           /\ lostExt' = IF Place(last) \in {Place("rxlo"), Place("txlo")} THEN SetupSides ELSE lostExt
           /\ UNCHANGED extAsked
  BY DEF SetUpAgain
<1> DEFINE last == EndOf(fault)
           y == SetupTo(dev, last)
<1>2. /\ IsDevice(y) /\ y.exists = dev.exists
      /\ y.active = (last = "end")
      /\ y.active => /\ y.calibrated /\ y.tracking /\ y.attenSet
                     /\ y.bbRef = Frefs.bb /\ y.synthRef = Frefs.synth
                     /\ Frefs.bb # 0 /\ Frefs.synth # 0
                     /\ y.ext = dev.ext /\ y.mux = dev.ext
      /\ Place(last) \notin {Place("rxlo"), Place("txlo")} => y.ext = dev.ext
  BY SetupToLeaves DEF DeviceInv
<1> HIDE DEF last, y
<1>3. /\ dev' = y /\ broken' = (last # "end") /\ extAsked' = extAsked
      /\ lostExt' = IF Place(last) \in {Place("rxlo"), Place("txlo")} THEN SetupSides ELSE lostExt
  BY <1>1 DEF last, y
<1>4. ReferencesInRange'
  BY <1>2, <1>3, FrefsLimit DEF DeviceInv, ReferencesInRange
<1>5. ExternalLoKept'
  <2>1. \A s \in SetupSides \ lostExt' : y.ext[s] = extAsked[s]
    BY <1>1, <1>2, <1>3 DEF DeviceInv, ExternalLoKept
  <2>2. ~broken' => y.mux = y.ext
    BY <1>2, <1>3
  <2>3. QED BY <1>3, <2>1, <2>2 DEF ExternalLoKept
<1>6. DeviceReady' /\ SilentUntilAttenuated'
  BY <1>2, <1>3 DEF DeviceReady, SilentUntilAttenuated
<1>7. QED BY <1>2, <1>3, <1>4, <1>5, <1>6 DEF DeviceInv

\* So does the switch to an external oscillator.
LEMMA SetLoExt_Inv ==
  ASSUME DeviceInv, UNCHANGED <<refin, maxFref>>, SetLoExt
  PROVE  DeviceInv'
<1>1. PICK s \in SetupSides, on \in BOOLEAN :
        /\ dev' = [dev EXCEPT !.ext[s] = on, !.mux[s] = on]
        /\ extAsked' = [extAsked EXCEPT ![s] = on] /\ lostExt' = lostExt \ {s}
        /\ UNCHANGED broken
  BY DEF SetLoExt
<1>2. /\ DOMAIN dev' = DevFields
      /\ dev'.ext = [dev.ext EXCEPT ![s] = on] /\ dev'.mux = [dev.mux EXCEPT ![s] = on]
      /\ dev'.exists = dev.exists /\ dev'.active = dev.active
      /\ dev'.calibrated = dev.calibrated /\ dev'.tracking = dev.tracking
      /\ dev'.attenSet = dev.attenSet /\ dev'.bbRef = dev.bbRef /\ dev'.synthRef = dev.synthRef
  BY <1>1 DEF DeviceInv, IsDevice, DevFields
<1>3. IsDevice(dev') /\ extAsked' \in [SetupSides -> BOOLEAN]
  BY <1>1, <1>2 DEF DeviceInv, IsDevice
<1>4. ExternalLoKept'
  BY <1>1, <1>2 DEF DeviceInv, IsDevice, ExternalLoKept
<1>5. QED BY <1>1, <1>2, <1>3, <1>4 DEF DeviceInv, DeviceReady, SilentUntilAttenuated,
             ReferencesInRange

\* The auxiliary DAC's code is the nearest below, in both ranges.
LEMMA NearestCode ==
  ASSUME NEW mV \in Nat, NEW a,
         a.asked = mV, a.code = AuxCode(mV).code, a.vref = AuxCode(mV).vref
  PROVE  VoltageGiven(a)
<1>1. CASE mV \in 306..1810
  <2>1. a.vref = 0 /\ a.code = ((mV - 306) * 1000) \div 1469
    BY <1>1, SMT DEF AuxCode
  <2>2. 306000 + a.code * 1469 - 1000 * mV \in -1511..0
    BY <1>1, <2>1, SMT
  <2>3. QED BY <2>1, <2>2, SMT DEF VoltageGiven
<1>2. CASE mV \in 1888..3308
  <2>1. a.vref = 3 /\ a.code = ((mV - 1761) * 1000) \div 1512
    BY <1>2, SMT DEF AuxCode
  <2>2. 1761000 + a.code * 1512 - 1000 * mV \in -1511..0
    BY <1>2, <2>1, SMT
  <2>3. QED BY <2>1, <2>2, SMT DEF VoltageGiven
<1>3. CASE ~(mV \in 306..1810) /\ ~(mV \in 1888..3308)
  <2>1. ~(a.asked \in 306..1810 \cup 1888..3308)
    BY <1>3, SMT
  <2>2. QED BY <2>1, SMTT(60) DEF VoltageGiven
<1>4. QED BY <1>1, <1>2, <1>3, SMT

\* No voltage is promised for 0.
LEMMA NothingAsked == ASSUME NEW a, a.asked = 0 PROVE VoltageGiven(a)
BY SMT DEF VoltageGiven

\* The voltage that is set is one of the codes nearest to the one asked for.
LEMMA SetAux_Voltage == SetAux => AuxVoltage'
<1> SUFFICES ASSUME SetAux PROVE AuxVoltage'
  OBVIOUS
<1>1. PICK mV \in AuxValues :
        aux' = [asked |-> mV, code |-> AuxCode(mV).code, vref |-> AuxCode(mV).vref, off |-> mV = 0]
  BY DEF SetAux
<1>2. mV \in Nat
  BY SetupAssumption
<1>3. aux'.asked = mV /\ aux'.code = AuxCode(mV).code /\ aux'.vref = AuxCode(mV).vref
  BY <1>1
<1>4. QED BY <1>2, <1>3, NearestCode DEF AuxVoltage

\* The invariant holds at the start.
LEMMA SetupInit_Device == SetupInit => DeviceInv /\ AuxVoltage
<1> SUFFICES ASSUME SetupInit PROVE DeviceInv /\ AuxVoltage
  OBVIOUS
<1>1. extAsked \in [SetupSides -> BOOLEAN]
  BY DEF SetupInit, NoDevice
<1>2. AuxVoltage
  <2>1. aux.asked = 0
    BY DEF SetupInit, AuxOff
  <2>2. QED BY <2>1, NothingAsked DEF AuxVoltage
<1>3. QED BY <1>1, <1>2, NoDeviceIsDevice DEF SetupInit, DeviceInv, DeviceReady, SilentUntilAttenuated,
             ReferencesInRange, ExternalLoKept

\* Every call of the API keeps the invariant.
LEMMA SetupNext_Device ==
  DeviceInv /\ AuxVoltage /\ [SetupNext]_setupVars => DeviceInv' /\ AuxVoltage'
<1> SUFFICES ASSUME DeviceInv, AuxVoltage, [SetupNext]_setupVars
             PROVE  DeviceInv' /\ AuxVoltage'
  OBVIOUS
<1>1. ASSUME UNCHANGED <<refin, maxFref, dev, extAsked, broken, lostExt>> PROVE DeviceInv'
  BY <1>1 DEF DeviceInv, IsDevice, DeviceReady, SilentUntilAttenuated, ReferencesInRange,
     ExternalLoKept
<1>2. ASSUME UNCHANGED aux PROVE AuxVoltage'
  BY <1>2 DEF AuxVoltage
<1>3. CASE UNCHANGED setupVars
  BY <1>1, <1>2, <1>3 DEF setupVars
<1>4. CASE SetupNext
  <2>1. UNCHANGED <<refin, maxFref>>
    BY <1>4 DEF SetupNext
  <2>2. CASE (InitDevice \/ SetUpAgain \/ SetLoExt) /\ UNCHANGED <<aux, mcs>>
    BY <1>2, <2>1, <2>2, InitDevice_Inv, SetUpAgain_Inv, SetLoExt_Inv
  <2>3. CASE /\ UNCHANGED <<setupCalls, dev, extAsked, broken, lostExt>>
             /\ SetAux \/ McsStart \/ McsGo \/ McsEnd
    BY <1>1, <1>2, <2>1, <2>3, SetAux_Voltage DEF McsStart, McsGo, McsEnd
  <2>4. QED BY <1>4, <2>2, <2>3 DEF SetupNext
<1>5. QED BY <1>3, <1>4

\* A set-up ends with a device that is ready or with none that transmits, clocked
\* within its limits, on the LOs and the auxiliary voltage the user had chosen
\* (ad9361_init, ad9361_setup, ad9361_set_no_ch_mode, ad9361_auxdac_set).
THEOREM SetupsSafe == SetupSpec => []SetupSafe
<1>1. DeviceInv /\ AuxVoltage => SetupSafe
  BY DEF DeviceInv, SetupSafe
<1>2. QED BY SetupInit_Device, SetupNext_Device, <1>1, PTL DEF SetupSpec

-----------------------------------------------------------------------------
(***************************************************************************)
(* The synchronisation of two chips.                                       *)
(***************************************************************************)

PllSync == {"bb", "bbpll", "rf"}
ClockSync == {"bb", "clk", "rf"}

\* The inductive invariant: which chips have what of the synchronisation on, by the
\* step and the chip whose turn it is.
SyncInv ==
  /\ mcs \in [step : -1..6, who : Chips, mask : [Chips -> SUBSET (PllSync \cup ClockSync)],
              ensm : [Chips -> {"fdd", "alert", "rx"}], before : {"fdd", "alert", "rx"},
              pulse : [Chips -> Nat]]
  /\ mcs.who = "master" =>
       /\ mcs.step = 1 => mcs.mask["slave"] = PllSync
       /\ mcs.step = 3 => mcs.mask["slave"] = ClockSync
       /\ mcs.step = 5 => mcs.mask["slave"] = {"rf"}
  /\ mcs.step = 2 => \A c \in Chips : mcs.mask[c] = PllSync
  /\ mcs.step = 4 => \A c \in Chips : mcs.mask[c] = ClockSync
  /\ mcs.step = 6 => \A c \in Chips : mcs.mask[c] = {"rf"}
  /\ SyncedChipsReturn

\* A step of one chip, as a record.
LEMMA McsStepTurn ==
  ASSUME NEW m, SyncInv, m = mcs, mcs.step \in 0..5
  PROVE  LET n == McsTurn(McsStep(m, m.who))
         IN /\ n \in [step : 0..6, who : Chips, mask : [Chips -> SUBSET (PllSync \cup ClockSync)],
                      ensm : [Chips -> {"fdd", "alert", "rx"}], before : {"fdd", "alert", "rx"},
                      pulse : [Chips -> Nat]]
            /\ n.who # m.who /\ n.step = (IF m.who = "slave" THEN m.step ELSE m.step + 1)
            /\ n.mask = IF m.step \in {0, 1} THEN [m.mask EXCEPT ![m.who] = PllSync]
                        ELSE IF m.step = 3 THEN [m.mask EXCEPT ![m.who] = ClockSync]
                        ELSE IF m.step = 5 THEN [m.mask EXCEPT ![m.who] = {"rf"}]
                        ELSE m.mask
            /\ m.step \notin {2, 4} => n.pulse = m.pulse
<1> DEFINE c == m.who
           o == McsStep(m, c)
           Rec == [step : 0..5, who : Chips, mask : [Chips -> SUBSET (PllSync \cup ClockSync)],
                   ensm : [Chips -> {"fdd", "alert", "rx"}], before : {"fdd", "alert", "rx"},
                   pulse : [Chips -> Nat]]
<1>1. c \in Chips /\ m.step \in 0..5 /\ m \in Rec
  BY DEF SyncInv
<1>2. /\ o.mask = IF m.step \in {0, 1} THEN [m.mask EXCEPT ![c] = PllSync]
                  ELSE IF m.step = 3 THEN [m.mask EXCEPT ![c] = ClockSync]
                  ELSE IF m.step = 5 THEN [m.mask EXCEPT ![c] = {"rf"}]
                  ELSE m.mask
      /\ o \in Rec /\ o.step = m.step /\ o.who = m.who
      /\ m.step \notin {2, 4} => o.pulse = m.pulse
  <2>1. CASE m.step \in {0, 1}
    <3>1. o = [m EXCEPT !.mask[c] = PllSync]
      BY <2>1 DEF McsStep, PllSync
    <3>2. QED BY <1>1, <2>1, <3>1
  <2>2. CASE m.step = 3
    <3>1. o = [m EXCEPT !.mask[c] = ClockSync]
      BY <2>2 DEF McsStep, ClockSync
    <3>2. QED BY <1>1, <2>2, <3>1
  <2>3. CASE m.step = 5
    <3>1. o = [m EXCEPT !.mask[c] = {"rf"}]
      BY <2>3 DEF McsStep
    <3>2. {"rf"} \in SUBSET (PllSync \cup ClockSync)
      BY DEF PllSync
    <3>3. QED BY <1>1, <2>3, <3>1, <3>2
  <2>4. CASE m.step \in {2, 4}
    <3>1. o = IF c \in SyncPins THEN [m EXCEPT !.pulse[c] = @ + 1] ELSE m
      BY <2>4 DEF McsStep
    <3>2. QED BY <1>1, <2>4, <3>1
  <2>5. QED BY <1>1, <2>1, <2>2, <2>3, <2>4
<1> HIDE DEF o
<1>3. McsTurn(o) = IF o.who = "slave" THEN [o EXCEPT !.who = "master"]
                   ELSE [o EXCEPT !.who = "slave", !.step = o.step + 1]
  BY DEF McsTurn
<1>4. CASE o.who = "slave"
  BY <1>1, <1>2, <1>3, <1>4 DEF o, Chips
<1>5. CASE o.who = "master"
  <2>1. /\ McsTurn(o) = [o EXCEPT !.who = "slave", !.step = o.step + 1]
        /\ o.step + 1 \in 0..6
    BY <1>1, <1>2, <1>3, <1>5
  <2>2. /\ McsTurn(o).who = "slave" /\ McsTurn(o).step = m.step + 1
        /\ McsTurn(o).mask = o.mask /\ McsTurn(o).pulse = o.pulse
    BY <1>2, <2>1
  <2>3. McsTurn(o) \in [step : 0..6, who : Chips, mask : [Chips -> SUBSET (PllSync \cup ClockSync)],
                        ensm : [Chips -> {"fdd", "alert", "rx"}], before : {"fdd", "alert", "rx"},
                        pulse : [Chips -> Nat]]
    BY <1>2, <2>1 DEF Chips
  <2>4. m.who = "master"
    BY <1>2, <1>5
  <2>5. QED BY <1>2, <2>2, <2>3, <2>4 DEF o
<1>6. QED BY <1>1, <1>2, <1>4, <1>5 DEF Chips

\* One step of the synchronisation keeps what the earlier steps did.
LEMMA McsGo_Sync ==
  ASSUME SyncInv, McsGo
  PROVE  /\ SyncInv'
         /\ mcs'.pulse # mcs.pulse =>
              mcs.mask["slave"] = mcs.mask["master"] /\ mcs.mask["slave"] # {}
<1> DEFINE n == McsTurn(McsStep(mcs, mcs.who))
<1>1. mcs' = n /\ mcs.step \in 0..5
  BY DEF McsGo
<1>2. /\ n \in [step : 0..6, who : Chips, mask : [Chips -> SUBSET (PllSync \cup ClockSync)],
                ensm : [Chips -> {"fdd", "alert", "rx"}], before : {"fdd", "alert", "rx"},
                pulse : [Chips -> Nat]]
      /\ n.who # mcs.who /\ n.step = (IF mcs.who = "slave" THEN mcs.step ELSE mcs.step + 1)
      /\ n.mask = IF mcs.step \in {0, 1} THEN [mcs.mask EXCEPT ![mcs.who] = PllSync]
                  ELSE IF mcs.step = 3 THEN [mcs.mask EXCEPT ![mcs.who] = ClockSync]
                  ELSE IF mcs.step = 5 THEN [mcs.mask EXCEPT ![mcs.who] = {"rf"}]
                  ELSE mcs.mask
      /\ mcs.step \notin {2, 4} => n.pulse = mcs.pulse
  BY <1>1, McsStepTurn
<1> HIDE DEF n
<1>3. SyncInv'
  BY <1>1, <1>2 DEF SyncInv, Chips, SyncedChipsReturn
<1>4. QED BY <1>1, <1>2, <1>3 DEF SyncInv, Chips, PllSync, ClockSync

\* No chip is being synchronised at the start.
LEMMA SetupInit_Sync == SetupInit => SyncInv
BY DEF SetupInit, SyncInv, Quiet, SyncedChipsReturn, Chips

\* Every step of the synchronisation and of the set-up keeps its invariant.
LEMMA SetupNext_Sync ==
  SyncInv /\ [SetupNext]_setupVars =>
    /\ SyncInv'
    /\ [mcs'.pulse # mcs.pulse /\ mcs'.step # -1 /\ mcs.step # -1 =>
          mcs.mask["slave"] = mcs.mask["master"] /\ mcs.mask["slave"] # {}]_mcs
<1> SUFFICES ASSUME SyncInv, [SetupNext]_setupVars
             PROVE  /\ SyncInv'
                    /\ [mcs'.pulse # mcs.pulse /\ mcs'.step # -1 /\ mcs.step # -1 =>
                          mcs.mask["slave"] = mcs.mask["master"] /\ mcs.mask["slave"] # {}]_mcs
  OBVIOUS
<1>1. CASE UNCHANGED mcs
  BY <1>1 DEF SyncInv, SyncedChipsReturn
<1>2. CASE McsGo
  BY <1>2, McsGo_Sync
<1>3. CASE McsStart
  <2>1. PICK b \in {"fdd", "alert", "rx"} :
          mcs' = [Quiet EXCEPT !.step = 0, !.before = b, !.ensm = [c \in Chips |-> "alert"]]
    BY <1>3 DEF McsStart
  <2>2. mcs.step = -1
    BY <1>3 DEF McsStart, Quiet
  <2>3. SyncInv'
    <3>1. mcs' = [step |-> 0, who |-> "slave", mask |-> [c \in Chips |-> {}],
                  ensm |-> [c \in Chips |-> "alert"], before |-> b,
                  pulse |-> [c \in Chips |-> 0]]
      BY <2>1 DEF Quiet
    <3>2. QED BY <3>1 DEF SyncInv, SyncedChipsReturn, Chips
  <2>4. QED BY <2>2, <2>3
<1>4. CASE McsEnd
  <2>1. /\ mcs.step = 6
        /\ mcs' = [mcs EXCEPT !.step = -1, !.ensm = [c \in Chips |-> mcs.before]]
    BY <1>4 DEF McsEnd
  <2>2. /\ mcs'.step = -1 /\ mcs'.mask = mcs.mask /\ mcs'.before = mcs.before
        /\ mcs'.ensm = [c \in Chips |-> mcs.before]
        /\ mcs'.who = mcs.who /\ mcs'.pulse = mcs.pulse
    BY <2>1 DEF SyncInv
  <2>3. mcs' \in [step : -1..6, who : Chips, mask : [Chips -> SUBSET (PllSync \cup ClockSync)],
                  ensm : [Chips -> {"fdd", "alert", "rx"}], before : {"fdd", "alert", "rx"},
                  pulse : [Chips -> Nat]]
    <3>1. mcs.before \in {"fdd", "alert", "rx"}
      BY DEF SyncInv
    <3>2. [c \in Chips |-> mcs.before] \in [Chips -> {"fdd", "alert", "rx"}]
      BY <3>1
    <3>3. -1 \in -1..6
      OBVIOUS
    <3>4. QED BY <2>1, <3>2, <3>3 DEF SyncInv
  <2>4. QED BY <2>1, <2>2, <2>3 DEF SyncInv, SyncedChipsReturn
<1>5. QED
  BY <1>1, <1>2, <1>3, <1>4 DEF SetupNext, setupVars, SetAux

\* Each pulse of the synchronisation meets both chips in the same step, and both come
\* back to the state the master was in (ad9361_do_mcs, ad9361_mcs).
THEOREM ChipsAreSynchronised == SetupSpec => ChipsSynchronised
<1>1. SyncInv => SyncedChipsReturn
  BY DEF SyncInv
<1>2. QED BY SetupInit_Sync, SetupNext_Sync, <1>1, PTL DEF SetupSpec, ChipsSynchronised, PulsesMeetBoth

-----------------------------------------------------------------------------
(* The delays of the data interface.                                       *)

\* A delay is the middle of a run of those that pass, and no run is longer.  A run
\* does not pass zero: the two rows of a scan meet there.
PassingRuns(good) ==
  {ab \in (-LastDelay..LastDelay) \X (-LastDelay..LastDelay) :
     /\ ab[1] <= ab[2] /\ (ab[1] >= 0 \/ ab[2] <= 0)
     /\ ab[1]..ab[2] \subseteq good}
BestOf(set, good) ==
  /\ set \in good
  /\ \E ab \in PassingRuns(good) :
       /\ 2 * set - ab[1] - ab[2] \in -1..1
       /\ \A other \in PassingRuns(good) : other[2] - other[1] <= ab[2] - ab[1]

\* The differences of delays that pass at all the rates.
Passing(side, fir, speeds) ==
  {d \in -LastDelay..LastDelay : \A s \in speeds : d \in eye[side][fir][s]}

\* The middle of the longer run of the two rows is such a delay.
LEMMA MiddleIsBest ==
  ASSUME NEW good \in SUBSET (-LastDelay..LastDelay),
         NEW early \in [0..LastDelay -> BOOLEAN], NEW late \in [0..LastDelay -> BOOLEAN],
         \A d \in 0..LastDelay : ~early[d] <=> d \in good,
         \A d \in 0..LastDelay : ~late[d] <=> 0 - d \in good,
         NEW up, Longest(up, early, LastDelay + 1),
         NEW down, Longest(down, late, LastDelay + 1),
         up.cnt # 0 \/ down.cnt # 0
  PROVE  IF down.cnt > up.cnt
         THEN Middle(down) \in 0..LastDelay /\ BestOf(0 - Middle(down), good)
         ELSE Middle(up) \in 0..LastDelay /\ BestOf(Middle(up) - 0, good)
<1> DEFINE L == LastDelay
<1>1. L \in Nat
  BY TuneAssumption
<1>2. /\ up.start \in Int /\ up.cnt \in 0..L + 1 /\ down.start \in Int /\ down.cnt \in 0..L + 1
      /\ up.cnt > 0 => up.start >= 0 /\ up.start + up.cnt <= L + 1
      /\ down.cnt > 0 => down.start >= 0 /\ down.start + down.cnt <= L + 1
      /\ \A j \in up.start .. up.start + up.cnt - 1 : ~early[j]
      /\ \A j \in down.start .. down.start + down.cnt - 1 : ~late[j]
  BY DEF Longest
<1> HIDE DEF L
<1>3. ASSUME NEW ab \in PassingRuns(good)
      PROVE  ab[2] - ab[1] + 1 <= up.cnt \/ ab[2] - ab[1] + 1 <= down.cnt
  <2> DEFINE a == ab[1]
             b == ab[2]
  <2>1. a \in -L..L /\ b \in -L..L /\ a <= b /\ (a >= 0 \/ b <= 0) /\ a..b \subseteq good
    BY DEF PassingRuns, L
  <2> HIDE DEF a, b
  <2>2. CASE a >= 0
    <3>1. a \in 0 .. (L + 1) - 1 /\ b \in 0 .. (L + 1) - 1
      BY <2>1, <2>2, <1>1
    <3>2. \A j \in a .. b : ~early[j]
      <4> TAKE j \in a .. b
      <4>1. j \in 0..LastDelay /\ j \in good
        BY <2>1, <3>1, <1>1 DEF L
      <4> QED
        BY <4>1
    <3>3. b - a + 1 <= up.cnt
      BY <2>1, <3>1, <3>2 DEF Longest, L
    <3> QED
      BY <3>3 DEF a, b
  <2>3. CASE b <= 0
    <3> DEFINE u == 0 - b
               v == 0 - a
    <3>1. u \in 0 .. (L + 1) - 1 /\ v \in 0 .. (L + 1) - 1 /\ u <= v /\ v - u = b - a
      BY <2>1, <2>3, <1>1
    <3>2. \A j \in u .. v : ~late[j]
      <4> TAKE j \in u .. v
      <4>1. j \in 0..LastDelay /\ 0 - j \in a .. b
        BY <2>1, <3>1, <1>1 DEF L
      <4> QED
        BY <4>1, <2>1
    <3> HIDE DEF u, v
    <3>3. v - u + 1 <= down.cnt
      BY <3>1, <3>2 DEF Longest, L
    <3> QED
      BY <3>1, <3>3 DEF a, b
  <2> QED
    BY <2>1, <2>2, <2>3
<1>4. CASE down.cnt > up.cnt
  <2> DEFINE c == down.cnt
             m == Middle(down)
             lo == 0 - (down.start + c - 1)
             hi == 0 - down.start
             h == c \div 2
  <2>1. c \in 1..L + 1 /\ down.start \in Nat /\ down.start + c <= L + 1
    BY <1>1, <1>2, <1>4
  <2>2. m = down.start + h
    BY DEF Middle
  <2> HIDE DEF c, m
  <2>3. h \in Nat /\ 2 * h <= c /\ c <= 2 * h + 1 /\ h < c
    BY <2>1
  <2> HIDE DEF h
  <2>4. /\ lo \in -L..L /\ hi \in -L..L /\ lo <= hi /\ hi <= 0 /\ 0 - m \in lo..hi
        /\ m \in 0..L /\ 2 * (0 - m) - lo - hi \in -1..1 /\ hi - lo + 1 = c
    <3> DEFINE f == down.start
    <3>1. f \in Nat /\ c \in Int /\ 1 <= c /\ f + c <= L + 1 /\ m = f + h
      BY <2>1, <2>2
    <3>2. lo = 1 - f - c /\ hi = 0 - f
      BY <2>1
    <3> HIDE DEF f, lo, hi
    <3>3. lo \in Int /\ hi \in Int /\ -L <= lo /\ lo <= hi /\ hi <= 0 /\ hi - lo + 1 = c
      BY <1>1, <3>1, <3>2
    <3>4. m \in Int /\ 0 <= m /\ m <= L /\ lo <= 0 - m /\ 0 - m <= hi
      BY <1>1, <2>3, <3>1, <3>2
    <3>5. -1 <= 2 * (0 - m) - lo - hi /\ 2 * (0 - m) - lo - hi <= 1
      BY <2>3, <3>1, <3>2
    <3> QED
      BY <1>1, <3>3, <3>4, <3>5
  <2>5. ASSUME NEW d \in lo..hi PROVE d \in good
    <3>1. 0 - d \in down.start .. down.start + c - 1 /\ 0 - d \in 0..LastDelay /\ 0 - (0 - d) = d
      BY <1>1, <2>1 DEF L
    <3> HIDE DEF lo, hi
    <3>2. ~late[0 - d]
      BY <3>1, <1>2 DEF c
    <3> QED
      BY <3>1, <3>2
  <2> HIDE DEF lo, hi
  <2>6. <<lo, hi>> \in PassingRuns(good)
    BY <2>4, <2>5 DEF PassingRuns, L
  <2>7. ASSUME NEW other \in PassingRuns(good) PROVE other[2] - other[1] <= hi - lo
    <3>1. other[2] - other[1] + 1 <= c
      <4>1. other[1] \in Int /\ other[2] \in Int
        BY <1>1 DEF PassingRuns, L
      <4> QED
        BY <4>1, <1>2, <1>3, <1>4, <2>1 DEF c
    <3>2. other[1] \in Int /\ other[2] \in Int /\ hi \in Int /\ lo \in Int
      BY <1>1, <2>4 DEF PassingRuns, L
    <3> QED
      BY <3>1, <3>2, <2>1, <2>4
  <2>8. BestOf(0 - m, good)
    <3>1. 0 - m \in good
      BY <2>4, <2>5
    <3>2. /\ 2 * (0 - m) - <<lo, hi>>[1] - <<lo, hi>>[2] \in -1..1
          /\ \A other \in PassingRuns(good) : other[2] - other[1] <= <<lo, hi>>[2] - <<lo, hi>>[1]
      BY <2>4, <2>7
    <3> QED
      BY <3>1, <3>2, <2>6 DEF BestOf
  <2> QED
    BY <1>4, <2>4, <2>8 DEF m, L
<1>5. CASE ~ (down.cnt > up.cnt)
  <2> DEFINE c == up.cnt
             m == Middle(up)
             lo == up.start
             hi == up.start + c - 1
             h == c \div 2
  <2>1. c \in 1..L + 1 /\ up.start \in Nat /\ up.start + c <= L + 1
    BY <1>1, <1>2, <1>5
  <2>2. m = up.start + h
    BY DEF Middle
  <2> HIDE DEF c, m
  <2>3. h \in Nat /\ 2 * h <= c /\ c <= 2 * h + 1 /\ h < c
    BY <2>1
  <2> HIDE DEF h
  <2>4. /\ lo \in -L..L /\ hi \in -L..L /\ lo <= hi /\ lo >= 0 /\ m \in lo..hi
        /\ m \in 0..L /\ 2 * m - lo - hi \in -1..1 /\ hi - lo + 1 = c
    <3>1. c \in Int /\ 1 <= c /\ lo \in Nat /\ lo + c <= L + 1 /\ m = lo + h /\ hi = lo + c - 1
      BY <2>1, <2>2
    <3> HIDE DEF lo, hi
    <3>2. hi \in Int /\ lo <= hi /\ hi <= L /\ lo >= 0 /\ hi - lo + 1 = c
      BY <1>1, <3>1
    <3>3. m \in Int /\ lo <= m /\ m <= hi
      BY <2>3, <3>1
    <3>4. -1 <= 2 * m - lo - hi /\ 2 * m - lo - hi <= 1
      BY <2>3, <3>1
    <3>5. lo \in Int /\ hi \in Int /\ -L <= lo /\ lo <= L /\ -L <= hi /\ 0 <= m /\ m <= L
      BY <1>1, <3>1, <3>2, <3>3
    <3> QED
      BY <1>1, <3>2, <3>3, <3>4, <3>5
  <2>5. ASSUME NEW d \in lo..hi PROVE d \in good
    <3>1. d \in up.start .. up.start + c - 1 /\ d \in 0..LastDelay
      BY <1>1, <2>1 DEF L
    <3> HIDE DEF lo, hi
    <3>2. ~early[d]
      BY <3>1, <1>2 DEF c
    <3> QED
      BY <3>1, <3>2
  <2> HIDE DEF lo, hi
  <2>6. <<lo, hi>> \in PassingRuns(good)
    BY <2>4, <2>5 DEF PassingRuns, L
  <2>7. ASSUME NEW other \in PassingRuns(good) PROVE other[2] - other[1] <= hi - lo
    <3>1. other[2] - other[1] + 1 <= c
      <4>1. other[1] \in Int /\ other[2] \in Int
        BY <1>1 DEF PassingRuns, L
      <4> QED
        BY <4>1, <1>2, <1>3, <1>5, <2>1 DEF c
    <3>2. other[1] \in Int /\ other[2] \in Int /\ hi \in Int /\ lo \in Int
      BY <1>1, <2>4 DEF PassingRuns, L
    <3> QED
      BY <3>1, <3>2, <2>1, <2>4
  <2>8. BestOf(m - 0, good)
    <3>1. m \in good /\ m - 0 = m
      BY <2>4, <2>5
    <3>2. /\ 2 * m - <<lo, hi>>[1] - <<lo, hi>>[2] \in -1..1
          /\ \A other \in PassingRuns(good) : other[2] - other[1] <= <<lo, hi>>[2] - <<lo, hi>>[1]
      BY <2>4, <2>7
    <3> QED
      BY <3>1, <3>2, <2>6 DEF BestOf
  <2> QED
    BY <1>5, <2>4, <2>8 DEF m, L
<1> QED
  BY <1>4, <1>5

\* A state of the interface.
Delays == (0..LastDelay) \X (0..LastDelay)
Conditions == [TuneSides -> SUBSET (BOOLEAN \X Speeds)]
Patterns == {"off", "rx", "tx"}
Sources == {"user", "loop", "pattern"}
TuneRecs ==
  [rx : Delays, tx : Delays, pdRx : Delays, pdTx : Delays, speed : Speeds, fir : BOOLEAN,
   atten : Nat, cached : Nat, chipBist : Patterns, bist : Patterns, chipLoop : BOOLEAN,
   loop : 0..2, dacSource : Sources, scratch : Sources, adcControl : {"user", "tune"},
   ok : BOOLEAN, found : Conditions, kept : Conditions]

\* What does not concern the delays, and what does not concern the cores.
SameDelays(x, y) ==
  /\ y.rx = x.rx /\ y.tx = x.tx /\ y.found = x.found
  /\ y.pdRx = x.pdRx /\ y.pdTx = x.pdTx /\ y.kept = x.kept
SameRate(x, y) == y.speed = x.speed /\ y.fir = x.fir
SameCores(x, y) ==
  /\ y.dacSource = x.dacSource /\ y.scratch = x.scratch /\ y.adcControl = x.adcControl
  /\ y.loop = x.loop /\ y.chipLoop = x.chipLoop

\* The steps that move neither cores nor delays.
LEMMA QuietSteps ==
  ASSUME NEW x \in TuneRecs, NEW p \in Patterns
  PROVE  /\ LET y == Mute(x) IN y \in TuneRecs /\ SameDelays(x, y) /\ SameRate(x, y) /\ SameCores(x, y) /\ y.ok = x.ok
         /\ LET y == Unmute(x) IN y \in TuneRecs /\ SameDelays(x, y) /\ SameRate(x, y) /\ SameCores(x, y) /\ y.ok = x.ok
         /\ LET y == Prbs(x, p) IN y \in TuneRecs /\ SameDelays(x, y) /\ SameRate(x, y) /\ SameCores(x, y) /\ y.ok = x.ok
         /\ LET y == [x EXCEPT !.chipBist = p]
            IN  y \in TuneRecs /\ SameDelays(x, y) /\ SameRate(x, y) /\ SameCores(x, y) /\ y.ok = x.ok
<1>1. FullyMuted \in Nat
  BY DEF FullyMuted
<1>2. LET y == Mute(x) IN y \in TuneRecs /\ SameDelays(x, y) /\ SameRate(x, y) /\ SameCores(x, y) /\ y.ok = x.ok
  BY <1>1 DEF TuneRecs, Mute, SameDelays, SameRate, SameCores
<1>3. LET y == Unmute(x) IN y \in TuneRecs /\ SameDelays(x, y) /\ SameRate(x, y) /\ SameCores(x, y) /\ y.ok = x.ok
  BY DEF TuneRecs, Unmute, SameDelays, SameRate, SameCores
<1>4. LET y == Prbs(x, p) IN y \in TuneRecs /\ SameDelays(x, y) /\ SameRate(x, y) /\ SameCores(x, y) /\ y.ok = x.ok
  BY DEF TuneRecs, Prbs, SameDelays, SameRate, SameCores
<1>5. LET y == [x EXCEPT !.chipBist = p]
      IN  y \in TuneRecs /\ SameDelays(x, y) /\ SameRate(x, y) /\ SameCores(x, y) /\ y.ok = x.ok
  BY DEF TuneRecs, SameDelays, SameRate, SameCores
<1> QED
  BY <1>2, <1>3, <1>4, <1>5

\* The mark of success.
LEMMA SetOk ==
  ASSUME NEW x \in TuneRecs, NEW b \in BOOLEAN
  PROVE  LET y == [x EXCEPT !.ok = b]
         IN  y \in TuneRecs /\ SameDelays(x, y) /\ SameRate(x, y) /\ SameCores(x, y) /\ y.ok = b
  BY DEF TuneRecs, SameDelays, SameRate, SameCores

\* The rate.
LEMMA RateIsSet ==
  ASSUME NEW x \in TuneRecs, NEW s \in Speeds
  PROVE  LET y == [x EXCEPT !.speed = s]
         IN  /\ y \in TuneRecs /\ SameDelays(x, y) /\ SameCores(x, y)
             /\ y.speed = s /\ y.fir = x.fir /\ y.ok = x.ok
  BY DEF TuneRecs, SameDelays, SameCores

\* The cores and the loops: the DAC core sends what it did before the loop, or the
\* loop if it is asked for.
CoreInv(x) ==
  /\ x.scratch = "user"
  /\ x.dacSource = "loop" => x.loop = 2
  /\ x.dacSource = "pattern" => x.loop # 2
Linked(x) == (x.dacSource = "loop") = (x.loop = 2) /\ x.chipLoop = (x.loop = 1)
SameButCores(x, y) ==
  /\ y \in TuneRecs /\ SameDelays(x, y) /\ SameRate(x, y)
  /\ y.ok = x.ok /\ y.adcControl = x.adcControl

LEMMA LoopModes ==
  ASSUME NEW x \in TuneRecs, CoreInv(x), NEW mode \in 0..2,
         mode = 2 => x.dacSource # "pattern"
  PROVE  LET y == LoopMode(x, mode)
         IN  /\ SameButCores(x, y) /\ CoreInv(y)
             /\ y.loop = mode /\ y.chipLoop = (mode = 1)
             /\ mode # 2 => y.dacSource = (IF x.dacSource = "loop" THEN "user" ELSE x.dacSource)
             /\ mode = 2 /\ x.dacSource # "loop" => y.dacSource = "loop"
             /\ mode # 2 \/ x.dacSource # "loop" \/ ~tuneBoard.newCore => Linked(y)
<1> DEFINE h == HdlLoopback(x, mode = 2)
           y == LoopMode(x, mode)
           source == IF mode = 2 THEN IF x.dacSource = "loop" /\ tuneBoard.newCore THEN "user" ELSE "loop"
                     ELSE IF x.dacSource = "loop" THEN "user" ELSE x.dacSource
<1>1. h \in TuneRecs /\ SameDelays(x, h) /\ SameRate(x, h) /\ h.ok = x.ok /\ h.adcControl = x.adcControl
  BY DEF TuneRecs, HdlLoopback, CoreInv, Sources, SameDelays, SameRate
<1>2. h.dacSource = source /\ h.scratch = "user"
  BY DEF TuneRecs, HdlLoopback, CoreInv, Sources
<1> HIDE DEF h
<1>3. y = [h EXCEPT !.loop = mode, !.chipLoop = (mode = 1)]
  BY DEF LoopMode, h
<1> HIDE DEF y
<1>4. y \in TuneRecs /\ SameDelays(h, y) /\ SameRate(h, y) /\ y.ok = h.ok /\ y.adcControl = h.adcControl
  BY <1>1, <1>3 DEF TuneRecs, SameDelays, SameRate
<1>5. y.dacSource = source /\ y.scratch = "user" /\ y.loop = mode /\ y.chipLoop = (mode = 1)
  BY <1>1, <1>2, <1>3 DEF TuneRecs
<1>6. SameButCores(x, y)
  BY <1>1, <1>4 DEF SameButCores, SameDelays, SameRate
<1>7. x.dacSource \in Sources
  BY DEF TuneRecs
<1>8. /\ mode # 2 => y.dacSource = (IF x.dacSource = "loop" THEN "user" ELSE x.dacSource)
      /\ mode = 2 /\ x.dacSource # "loop" => y.dacSource = "loop"
      /\ mode = 2 => y.dacSource \in {"user", "loop"}
      /\ mode = 2 /\ ~tuneBoard.newCore => y.dacSource = "loop"
  BY <1>5
<1>9. CoreInv(y)
  BY <1>5, <1>7, <1>8 DEF CoreInv, Sources
<1>10. mode # 2 \/ x.dacSource # "loop" \/ ~tuneBoard.newCore => Linked(y)
  BY <1>5, <1>7, <1>8 DEF Linked, Sources
<1> QED
  BY <1>5, <1>6, <1>8, <1>9, <1>10 DEF y

\* Delays are as good as any for each filter they were found for, at the rates they
\* were found for.
RatesOf(conditions, fir) == {c[2] : c \in {k \in conditions : k[1] = fir}}
Right(side, delays, conditions) ==
  \A fir \in BOOLEAN :
    RatesOf(conditions, fir) # {} =>
      BestOf(delays[2] - delays[1], Passing(side, fir, RatesOf(conditions, fir)))

\* The rates of the conditions a scan is made under.
LEMMA RatesScanned ==
  ASSUME NEW fir \in BOOLEAN, NEW speeds \in SUBSET Speeds, NEW other \in BOOLEAN
  PROVE  /\ {fir} \X speeds \in SUBSET (BOOLEAN \X Speeds)
         /\ RatesOf({fir} \X speeds, other) = IF other = fir THEN speeds ELSE {}
<1> DEFINE conditions == {fir} \X speeds
           chosen == {k \in conditions : k[1] = other}
<1>1. \A k \in conditions : k[1] = fir /\ k[2] \in speeds
  OBVIOUS
<1>2. CASE other = fir
  <2>1. ASSUME NEW s \in speeds PROVE s \in RatesOf(conditions, other)
    <3>1. <<fir, s>> \in chosen /\ <<fir, s>>[2] = s
      BY <1>2
    <3> QED
      BY <3>1 DEF RatesOf
  <2>2. RatesOf(conditions, other) \subseteq speeds
    BY <1>1 DEF RatesOf
  <2> QED
    BY <1>2, <2>1, <2>2
<1>3. CASE other # fir
  <2>1. chosen = {}
    BY <1>1, <1>3
  <2> QED
    BY <2>1, <1>3 DEF RatesOf
<1> QED
  BY <1>2, <1>3

\* What a scan of a side finds, it finds for the filters in use.
LEMMA ScanIsRight ==
  ASSUME NEW side, NEW fir \in BOOLEAN, NEW speeds \in SUBSET Speeds, NEW delays,
         BestOf(delays[2] - delays[1], Passing(side, fir, speeds))
  PROVE  Right(side, delays, {fir} \X speeds)
  BY RatesScanned DEF Right

\* The rows of a scan, and the delay that is set.
LEMMA ScanFinds ==
  ASSUME NEW x \in TuneRecs, NEW side \in TuneSides, NEW speeds \in SUBSET Speeds
  PROVE  LET run == Rows(x, side, speeds)
             good == Passing(side, x.fir, speeds)
             early == Middle(run[FALSE])
             late == Middle(run[TRUE])
         IN  run[FALSE].cnt # 0 \/ run[TRUE].cnt # 0 =>
               IF Longer(run) THEN <<late, 0>> \in Delays /\ BestOf(0 - late, good)
                              ELSE <<0, early>> \in Delays /\ BestOf(early - 0, good)
<1> DEFINE size == LastDelay + 1
           first == [d \in 0..LastDelay |-> \E s \in speeds : ~Passes(x, side, s, 0, d)]
           last == [d \in 0..LastDelay |-> \E s \in speeds : ~Passes(x, side, s, LastDelay, LastDelay - d)]
           run == Rows(x, side, speeds)
           good == Passing(side, x.fir, speeds)
<1>1. LastDelay \in Nat /\ 0 .. size - 1 = 0..LastDelay /\ size \in Nat
  BY TuneAssumption
<1>2. run[FALSE] = FindOpt(first, size) /\ run[TRUE] = FindOpt(last, size)
  <2>1. [d \in 0..LastDelay |-> \E s \in speeds : IF TRUE THEN ~Passes(x, side, s, LastDelay, LastDelay - d)
                                                  ELSE ~Passes(x, side, s, 0, d)] = last
    OBVIOUS
  <2>2. [d \in 0..LastDelay |-> \E s \in speeds : IF FALSE THEN ~Passes(x, side, s, LastDelay, LastDelay - d)
                                                  ELSE ~Passes(x, side, s, 0, d)] = first
    OBVIOUS
  <2> QED
    BY <2>1, <2>2 DEF Rows
<1>3. first \in [0..LastDelay -> BOOLEAN] /\ last \in [0..LastDelay -> BOOLEAN]
  OBVIOUS
<1>4. good \in SUBSET (-LastDelay..LastDelay)
  BY DEF Passing
<1>5. ASSUME NEW d \in 0..LastDelay PROVE ~first[d] <=> d \in good
  <2>1. d \in -LastDelay..LastDelay /\ d - 0 = d
    BY <1>1
  <2> QED
    BY <2>1 DEF Passing, Passes
<1>6. ASSUME NEW d \in 0..LastDelay PROVE ~last[d] <=> 0 - d \in good
  <2>1. 0 - d \in -LastDelay..LastDelay /\ (LastDelay - d) - LastDelay = 0 - d
    BY <1>1
  <2> QED
    BY <2>1 DEF Passing, Passes
<1> HIDE DEF first, last, good
<1>7. Longest(run[FALSE], first, size) /\ Longest(run[TRUE], last, size)
  <2> HIDE DEF run, size
  <2> QED
    BY <1>1, <1>2, <1>3, FindOptLongest
<1> HIDE DEF run
<1>8. ASSUME run[FALSE].cnt # 0 \/ run[TRUE].cnt # 0
      PROVE  IF run[TRUE].cnt > run[FALSE].cnt
             THEN Middle(run[TRUE]) \in 0..LastDelay /\ BestOf(0 - Middle(run[TRUE]), good)
             ELSE Middle(run[FALSE]) \in 0..LastDelay /\ BestOf(Middle(run[FALSE]) - 0, good)
  BY <1>3, <1>4, <1>5, <1>6, <1>7, <1>8, MiddleIsBest
<1>9. 0 \in 0..LastDelay
  BY <1>1
<1> QED
  BY <1>8, <1>9 DEF Longer, Delays, run, good

\* A scan changes the delay of its side, and remembers what it was found for.
LEMMA ScanRx ==
  ASSUME NEW x \in TuneRecs, NEW speeds \in SUBSET Speeds
  PROVE  LET y == ScanDelay(x, "rx", speeds)
         IN  /\ y \in TuneRecs /\ SameRate(x, y) /\ SameCores(x, y)
             /\ y.pdRx = x.pdRx /\ y.pdTx = x.pdTx /\ y.kept = x.kept
             /\ y.tx = x.tx /\ y.found["tx"] = x.found["tx"]
             /\ y.ok => x.ok /\ Right("rx", y.rx, y.found["rx"])
<1> DEFINE run == Rows(x, "rx", speeds)
           set == IF Longer(run) THEN <<Middle(run[TRUE]), 0>> ELSE <<0, Middle(run[FALSE])>>
           conditions == {x.fir} \X speeds
           y == ScanDelay(x, "rx", speeds)
<1>1. x.fir \in BOOLEAN /\ "rx" \in TuneSides /\ x.found \in Conditions /\ DOMAIN x.found = TuneSides
  BY DEF TuneRecs, TuneSides, Conditions
<1>2. CASE run[FALSE].cnt = 0 /\ run[TRUE].cnt = 0
  <2>1. <<LastDelay, 0>> \in Delays
    BY TuneAssumption DEF Delays
  <2>2. y = [x EXCEPT !["rx"] = <<LastDelay, 0>>, !.ok = FALSE]
    BY <1>2 DEF ScanDelay, SetMiddle
  <2> HIDE DEF y, run
  <2> QED
    BY <2>1, <2>2 DEF TuneRecs, SameRate, SameCores, y
<1>3. CASE ~ (run[FALSE].cnt = 0 /\ run[TRUE].cnt = 0)
  <2>1. y = [x EXCEPT !["rx"] = set, !.found["rx"] = conditions]
    BY <1>3 DEF ScanDelay, SetMiddle
  <2>2. set \in Delays /\ BestOf(set[2] - set[1], Passing("rx", x.fir, speeds))
    <3>1. CASE Longer(run)
      BY <1>1, <1>3, <3>1, ScanFinds
    <3>2. CASE ~Longer(run)
      BY <1>1, <1>3, <3>2, ScanFinds
    <3> QED
      BY <3>1, <3>2
  <2>3. conditions \in SUBSET (BOOLEAN \X Speeds)
    BY <1>1, RatesScanned
  <2>4. Right("rx", set, conditions)
    BY <1>1, <2>2, ScanIsRight
  <2> HIDE DEF y, run, set, conditions
  <2>5. [x.found EXCEPT !["rx"] = conditions] \in Conditions
    BY <1>1, <2>3 DEF Conditions
  <2>6. /\ y \in TuneRecs /\ SameRate(x, y) /\ SameCores(x, y)
        /\ y.pdRx = x.pdRx /\ y.pdTx = x.pdTx /\ y.kept = x.kept /\ y.tx = x.tx /\ y.ok = x.ok
        /\ y.rx = set /\ y.found = [x.found EXCEPT !["rx"] = conditions]
    BY <2>1, <2>2, <2>5 DEF TuneRecs, SameRate, SameCores
  <2>7. y.found["tx"] = x.found["tx"] /\ y.found["rx"] = conditions
    BY <1>1, <2>6 DEF Conditions, TuneSides
  <2> QED
    BY <2>4, <2>6, <2>7 DEF y
<1> QED
  BY <1>2, <1>3

LEMMA ScanTx ==
  ASSUME NEW x \in TuneRecs, NEW speeds \in SUBSET Speeds
  PROVE  LET y == ScanDelay(x, "tx", speeds)
         IN  /\ y \in TuneRecs /\ SameRate(x, y) /\ SameCores(x, y)
             /\ y.pdRx = x.pdRx /\ y.pdTx = x.pdTx /\ y.kept = x.kept
             /\ y.rx = x.rx /\ y.found["rx"] = x.found["rx"]
             /\ y.ok => x.ok /\ Right("tx", y.tx, y.found["tx"])
<1> DEFINE run == Rows(x, "tx", speeds)
           set == IF Longer(run) THEN <<Middle(run[TRUE]), 0>> ELSE <<0, Middle(run[FALSE])>>
           conditions == {x.fir} \X speeds
           y == ScanDelay(x, "tx", speeds)
<1>1. x.fir \in BOOLEAN /\ "tx" \in TuneSides /\ x.found \in Conditions /\ DOMAIN x.found = TuneSides
  BY DEF TuneRecs, TuneSides, Conditions
<1>2. CASE run[FALSE].cnt = 0 /\ run[TRUE].cnt = 0
  <2>1. <<LastDelay, 0>> \in Delays
    BY TuneAssumption DEF Delays
  <2>2. y = [x EXCEPT !["tx"] = <<LastDelay, 0>>, !.ok = FALSE]
    BY <1>2 DEF ScanDelay, SetMiddle
  <2> HIDE DEF y, run
  <2> QED
    BY <2>1, <2>2 DEF TuneRecs, SameRate, SameCores, y
<1>3. CASE ~ (run[FALSE].cnt = 0 /\ run[TRUE].cnt = 0)
  <2>1. y = [x EXCEPT !["tx"] = set, !.found["tx"] = conditions]
    BY <1>3 DEF ScanDelay, SetMiddle
  <2>2. set \in Delays /\ BestOf(set[2] - set[1], Passing("tx", x.fir, speeds))
    <3>1. CASE Longer(run)
      BY <1>1, <1>3, <3>1, ScanFinds
    <3>2. CASE ~Longer(run)
      BY <1>1, <1>3, <3>2, ScanFinds
    <3> QED
      BY <3>1, <3>2
  <2>3. conditions \in SUBSET (BOOLEAN \X Speeds)
    BY <1>1, RatesScanned
  <2>4. Right("tx", set, conditions)
    BY <1>1, <2>2, ScanIsRight
  <2> HIDE DEF y, run, set, conditions
  <2>5. [x.found EXCEPT !["tx"] = conditions] \in Conditions
    BY <1>1, <2>3 DEF Conditions
  <2>6. /\ y \in TuneRecs /\ SameRate(x, y) /\ SameCores(x, y)
        /\ y.pdRx = x.pdRx /\ y.pdTx = x.pdTx /\ y.kept = x.kept /\ y.rx = x.rx /\ y.ok = x.ok
        /\ y.tx = set /\ y.found = [x.found EXCEPT !["tx"] = conditions]
    BY <2>1, <2>2, <2>5 DEF TuneRecs, SameRate, SameCores
  <2>7. y.found["rx"] = x.found["rx"] /\ y.found["tx"] = conditions
    BY <1>1, <2>6 DEF Conditions, TuneSides
  <2> QED
    BY <2>4, <2>6, <2>7 DEF y
<1> QED
  BY <1>2, <1>3

\* Where nothing was found nothing is asked of the delays.
LEMMA NothingRight ==
  ASSUME NEW side, NEW delays
  PROVE  Right(side, delays, {})
<1>1. \A fir \in BOOLEAN : RatesOf({}, fir) = {}
  BY DEF RatesOf
<1> QED
  BY <1>1 DEF Right

\* What a tuning leaves alone: the filters, and the delays it can go back to.
Stocked(x) ==
  /\ Right("rx", x.pdRx, x.kept["rx"]) /\ Right("tx", x.pdTx, x.kept["tx"])
  /\ tuneBoard.skip # 0 => x.found["tx"] = {} /\ x.kept["tx"] = {}
BothRight(x) == Right("rx", x.rx, x.found["rx"]) /\ Right("tx", x.tx, x.found["tx"])
SameStock(x, y) == y.pdRx = x.pdRx /\ y.pdTx = x.pdTx /\ y.kept = x.kept
Sound(x) == x \in TuneRecs /\ CoreInv(x) /\ Stocked(x)
Midst(x, y) == Sound(y) /\ SameStock(x, y) /\ y.fir = x.fir

NotLoop(source) == IF source = "loop" THEN "user" ELSE source

\* The preparations for a side, and the end of those for the transmit side.
LEMMA ReadySteps ==
  ASSUME NEW x \in TuneRecs, CoreInv(x)
  PROVE  /\ LET y == ReadyRx(x)
            IN  /\ SameButCores(x, y) /\ CoreInv(y) /\ Linked(y)
                /\ y.loop = 0 /\ y.dacSource = NotLoop(x.dacSource)
         /\ LET y == ReadyTx(x)
            IN  /\ SameButCores(x, y) /\ CoreInv(y) /\ Linked(y)
                /\ y.loop = 1 /\ y.dacSource = NotLoop(x.dacSource)
<1> DEFINE a == LoopMode(x, 0)
           p == Prbs(x, "off")
<1>1. "rx" \in Patterns /\ "off" \in Patterns /\ 0 \in 0..2 /\ 1 \in 0..2 /\ 0 # 2 /\ 1 # 2
  BY DEF Patterns
<1>2. /\ SameButCores(x, a) /\ CoreInv(a) /\ Linked(a)
      /\ a.loop = 0 /\ a.dacSource = NotLoop(x.dacSource)
  BY <1>1, LoopModes DEF NotLoop
<1> HIDE DEF a
<1>3. LET y == ReadyRx(x)
      IN  /\ SameButCores(x, y) /\ CoreInv(y) /\ Linked(y)
          /\ y.loop = 0 /\ y.dacSource = NotLoop(x.dacSource)
  <2> DEFINE y == Prbs(a, "rx")
  <2>1. y \in TuneRecs /\ SameDelays(a, y) /\ SameRate(a, y) /\ SameCores(a, y) /\ y.ok = a.ok
    BY <1>1, <1>2, QuietSteps DEF SameButCores
  <2>2. y = ReadyRx(x)
    BY DEF ReadyRx, a
  <2> HIDE DEF y
  <2>3. SameButCores(x, y) /\ CoreInv(y) /\ Linked(y) /\ y.loop = 0 /\ y.dacSource = NotLoop(x.dacSource)
    BY <1>2, <2>1 DEF SameButCores, SameDelays, SameRate, SameCores, CoreInv, Linked
  <2> QED
    BY <2>2, <2>3
<1>4. p \in TuneRecs /\ SameDelays(x, p) /\ SameRate(x, p) /\ SameCores(x, p) /\ p.ok = x.ok
  BY <1>1, QuietSteps
<1> HIDE DEF p
<1>5. CoreInv(p)
  BY <1>4 DEF CoreInv, SameCores
<1>6. LET y == ReadyTx(x)
      IN  /\ SameButCores(x, y) /\ CoreInv(y) /\ Linked(y)
          /\ y.loop = 1 /\ y.dacSource = NotLoop(x.dacSource)
  <2> DEFINE y == LoopMode(p, 1)
  <2>1. SameButCores(p, y) /\ CoreInv(y) /\ Linked(y) /\ y.loop = 1 /\ y.dacSource = NotLoop(p.dacSource)
    BY <1>1, <1>4, <1>5, LoopModes DEF NotLoop
  <2>2. y = ReadyTx(x)
    BY DEF ReadyTx, p
  <2> HIDE DEF y
  <2>3. SameButCores(x, y) /\ y.dacSource = NotLoop(x.dacSource)
    BY <1>4, <2>1 DEF SameButCores, SameDelays, SameRate, SameCores
  <2> QED
    BY <2>1, <2>2, <2>3
<1> QED
  BY <1>3, <1>6

LEMMA SendingSteps ==
  ASSUME NEW x \in TuneRecs, CoreInv(x), x.loop # 2
  PROVE  LET y == Sending(x)
         IN  /\ y \in TuneRecs /\ SameDelays(x, y) /\ SameRate(x, y) /\ y.ok = x.ok
             /\ CoreInv(y) /\ y.dacSource = "pattern" /\ y.adcControl = "tune"
             /\ y.loop = x.loop /\ y.chipLoop = x.chipLoop
<1> DEFINE y == Sending(x)
<1>1. /\ y \in TuneRecs /\ SameDelays(x, y) /\ SameRate(x, y) /\ y.ok = x.ok
      /\ y.dacSource = "pattern" /\ y.adcControl = "tune" /\ y.scratch = x.scratch
      /\ y.loop = x.loop /\ y.chipLoop = x.chipLoop
  BY DEF Sending, TuneRecs, Sources, SameDelays, SameRate
<1> HIDE DEF y
<1>2. CoreInv(y)
  BY <1>1 DEF CoreInv
<1> QED
  BY <1>1, <1>2 DEF y

LEMMA CoresBack ==
  ASSUME NEW x \in TuneRecs, NEW r \in TuneRecs
  PROVE  LET y == CoresOf(x, r)
         IN  /\ y \in TuneRecs /\ SameDelays(x, y) /\ SameRate(x, y) /\ y.ok = x.ok
             /\ y.dacSource = r.dacSource /\ y.adcControl = r.adcControl /\ y.scratch = x.scratch
             /\ y.loop = x.loop /\ y.chipLoop = x.chipLoop
  BY DEF CoresOf, TuneRecs, SameDelays, SameRate

\* The same delays are as sound, and as right.
LEMMA SoundMoves ==
  ASSUME NEW x, NEW y \in TuneRecs, SameDelays(x, y)
  PROVE  (Stocked(x) => Stocked(y)) /\ (BothRight(x) => BothRight(y)) /\ SameStock(x, y)
  BY DEF SameDelays, Stocked, BothRight, SameStock

LEMMA StockMoves ==
  ASSUME NEW x, NEW y \in TuneRecs, SameStock(x, y), Stocked(x),
         tuneBoard.skip # 0 => y.found["tx"] = {}
  PROVE  Stocked(y)
  BY DEF SameStock, Stocked

\* The receive side: a is what the interface is like when the scan begins.
LEMMA RxStage ==
  ASSUME NEW x \in TuneRecs, NEW r, NEW a, Midst(x, a), SameCores(r, a),
         NEW speeds \in SUBSET Speeds
  PROVE  LET w == ScanDelay(a, "rx", speeds)
         IN  /\ Midst(x, w) /\ SameCores(r, w) /\ w.speed = a.speed
             /\ w.ok => a.ok /\ Right("rx", w.rx, w.found["rx"])
<1> DEFINE w == ScanDelay(a, "rx", speeds)
<1>1. a \in TuneRecs /\ CoreInv(a) /\ Stocked(a) /\ SameStock(x, a) /\ a.fir = x.fir
  BY DEF Midst, Sound
<1>2. /\ w \in TuneRecs /\ SameRate(a, w) /\ SameCores(a, w)
      /\ w.pdRx = a.pdRx /\ w.pdTx = a.pdTx /\ w.kept = a.kept
      /\ w.found["tx"] = a.found["tx"]
      /\ w.ok => a.ok /\ Right("rx", w.rx, w.found["rx"])
  BY <1>1, ScanRx
<1> HIDE DEF w
<1>3. CoreInv(w) /\ SameCores(r, w)
  BY <1>1, <1>2 DEF CoreInv, SameCores
<1>4. SameStock(a, w) /\ SameStock(x, w)
  BY <1>1, <1>2 DEF SameStock
<1>5. Stocked(w)
  BY <1>1, <1>2, <1>4, StockMoves DEF Stocked
<1>6. w.fir = x.fir /\ w.speed = a.speed
  BY <1>1, <1>2 DEF SameRate
<1> QED
  BY <1>2, <1>3, <1>4, <1>5, <1>6 DEF Midst, Sound, w

\* The transmit side; the cores are given back as they were before it.
LEMMA TxStage ==
  ASSUME NEW x \in TuneRecs, NEW q \in TuneRecs, CoreInv(q), q.loop = 1, q.chipLoop, NEW a,
         Midst(x, a), SameCores(Sending(q), a), Right("rx", a.rx, a.found["rx"]),
         tuneBoard.skip = 0, NEW speeds \in SUBSET Speeds
  PROVE  LET v == CoresOf(ScanDelay(a, "tx", speeds), q)
         IN  /\ Midst(x, v) /\ SameCores(q, v) /\ v.speed = a.speed
             /\ v.ok => a.ok /\ BothRight(v)
<1> DEFINE w == ScanDelay(a, "tx", speeds)
           v == CoresOf(w, q)
           s == Sending(q)
<1>1. a \in TuneRecs /\ CoreInv(a) /\ Stocked(a) /\ SameStock(x, a) /\ a.fir = x.fir
  BY DEF Midst, Sound
<1>2. /\ w \in TuneRecs /\ SameRate(a, w) /\ SameCores(a, w)
      /\ w.pdRx = a.pdRx /\ w.pdTx = a.pdTx /\ w.kept = a.kept
      /\ w.rx = a.rx /\ w.found["rx"] = a.found["rx"]
      /\ w.ok => a.ok /\ Right("tx", w.tx, w.found["tx"])
  BY <1>1, ScanTx
<1> HIDE DEF w
<1>3. /\ v \in TuneRecs /\ SameDelays(w, v) /\ SameRate(w, v) /\ v.ok = w.ok
      /\ v.dacSource = q.dacSource /\ v.adcControl = q.adcControl /\ v.scratch = w.scratch
      /\ v.loop = w.loop /\ v.chipLoop = w.chipLoop
  BY <1>2, CoresBack
<1>4. s.loop = 1 /\ s.chipLoop = q.chipLoop /\ s.scratch = q.scratch
  <2>1. q.loop # 2
    OBVIOUS
  <2>2. CoreInv(s) /\ s.loop = q.loop /\ s.chipLoop = q.chipLoop
    BY <2>1, SendingSteps
  <2> HIDE DEF s
  <2> QED
    BY <2>2 DEF CoreInv
<1> HIDE DEF v, s
<1>5. SameCores(s, a)
  BY DEF s
<1>6. SameCores(q, v)
  BY <1>2, <1>3, <1>4, <1>5 DEF SameCores
<1>7. CoreInv(v)
  BY <1>6 DEF CoreInv, SameCores
<1>8. SameStock(a, v) /\ SameStock(x, v)
  BY <1>1, <1>2, <1>3 DEF SameStock, SameDelays
<1>9. Stocked(v)
  BY <1>1, <1>3, <1>8, StockMoves
<1>10. v.fir = x.fir /\ v.speed = a.speed
  BY <1>1, <1>2, <1>3 DEF SameRate
<1>11. v.ok => a.ok /\ BothRight(v)
  BY <1>2, <1>3 DEF SameDelays, BothRight
<1> QED
  BY <1>3, <1>6, <1>7, <1>8, <1>9, <1>10, <1>11 DEF Midst, Sound, v, w

\* The loop that was asked for comes back.
SameLoop(x, y) ==
  /\ y.loop = x.loop /\ y.adcControl = x.adcControl
  /\ y.dacSource = x.dacSource \/ (x.loop = 2 /\ y.dacSource = "loop")
LEMMA EndStage ==
  ASSUME NEW x \in TuneRecs, CoreInv(x), NEW v, Midst(x, v),
         v.dacSource = NotLoop(x.dacSource), v.adcControl = x.adcControl
  PROVE  LET z == Ended(v, x)
         IN  /\ Midst(x, z) /\ SameLoop(x, z) /\ Linked(z)
             /\ SameDelays(v, z) /\ z.speed = v.speed /\ z.ok = v.ok
<1> DEFINE y == LoopMode(v, x.loop)
           z == Ended(v, x)
<1>1. v \in TuneRecs /\ CoreInv(v) /\ Stocked(v) /\ SameStock(x, v) /\ v.fir = x.fir
  BY DEF Midst, Sound
<1>2. /\ x.loop \in 0..2 /\ x.bist \in Patterns
      /\ v.dacSource # "loop" /\ (x.loop = 2 => v.dacSource # "pattern")
      /\ x.loop # 2 => v.dacSource = x.dacSource
  BY DEF TuneRecs, NotLoop, CoreInv
<1>3. /\ SameButCores(v, y) /\ CoreInv(y) /\ y.loop = x.loop
      /\ x.loop # 2 => y.dacSource = v.dacSource
      /\ x.loop = 2 => y.dacSource = "loop"
      /\ Linked(y)
  BY <1>1, <1>2, LoopModes
<1> HIDE DEF y
<1>4. z = [y EXCEPT !.chipBist = x.bist]
  BY DEF Ended, y
<1>5. z \in TuneRecs /\ SameDelays(y, z) /\ SameRate(y, z) /\ SameCores(y, z) /\ z.ok = y.ok
  BY <1>2, <1>3, <1>4, QuietSteps DEF SameButCores
<1> HIDE DEF z
<1>6. CoreInv(z) /\ Linked(z) /\ z.loop = x.loop
  BY <1>3, <1>5 DEF CoreInv, Linked, SameCores
<1>7. SameLoop(x, z)
  BY <1>2, <1>3, <1>5 DEF SameLoop, SameButCores, SameCores
<1>8. SameDelays(v, z)
  BY <1>3, <1>5 DEF SameDelays, SameButCores
<1>9. Stocked(z) /\ SameStock(v, z)
  BY <1>1, <1>5, <1>8, SoundMoves
<1>10. SameStock(x, z) /\ z.fir = x.fir /\ z.speed = v.speed /\ z.ok = v.ok
  BY <1>1, <1>3, <1>5, <1>9 DEF SameStock, SameButCores, SameRate
<1> QED
  BY <1>5, <1>6, <1>7, <1>8, <1>9, <1>10 DEF Midst, Sound, z

\* What a tuning leaves behind: delays that are right, or those of pdata.
AtRest(x) == x.found = x.kept /\ x.rx = x.pdRx /\ x.tx = x.pdTx
LEMMA ConcludeStage ==
  ASSUME NEW x \in TuneRecs, NEW z, Midst(x, z), SameLoop(x, z),
         NEW skipped \in BOOLEAN, NEW store \in BOOLEAN, z.ok => BothRight(z)
  PROVE  LET y == Concluded(z, skipped, store)
         IN  /\ Sound(y) /\ y.fir = x.fir /\ SameLoop(x, y) /\ (Linked(z) => Linked(y))
             /\ BothRight(y) /\ y.speed = z.speed /\ (skipped => y.ok)
             /\ store \/ ~z.ok => AtRest(y)
             /\ ~store \/ ~z.ok => SameStock(x, y)
<1> DEFINE e == Settle(z, store)
           u == Unmute(e)
           y == Concluded(z, skipped, store)
<1>1. z \in TuneRecs /\ CoreInv(z) /\ Stocked(z) /\ SameStock(x, z) /\ z.fir = x.fir
  BY DEF Midst, Sound
<1>2. /\ e \in TuneRecs /\ SameRate(z, e) /\ SameCores(z, e) /\ e.ok = z.ok
      /\ Stocked(e) /\ BothRight(e)
      /\ store \/ ~z.ok => AtRest(e)
      /\ ~store \/ ~z.ok => SameStock(z, e)
  <2>1. CASE ~z.ok
    <3>1. e = [z EXCEPT !.rx = z.pdRx, !.tx = z.pdTx, !.found = z.kept]
      BY <2>1 DEF Settle
    <3> HIDE DEF e
    <3>2. /\ e \in TuneRecs /\ SameRate(z, e) /\ SameCores(z, e) /\ e.ok = z.ok /\ SameStock(z, e)
          /\ e.rx = z.pdRx /\ e.tx = z.pdTx /\ e.found = z.kept
      BY <1>1, <3>1 DEF TuneRecs, SameRate, SameCores, SameStock
    <3>3. Stocked(e) /\ BothRight(e) /\ AtRest(e)
      BY <1>1, <3>2 DEF Stocked, BothRight, AtRest, SameStock
    <3> QED
      BY <3>2, <3>3
  <2>2. CASE z.ok /\ store
    <3>1. e = [z EXCEPT !.pdRx = z.rx, !.pdTx = z.tx, !.kept = z.found]
      BY <2>2 DEF Settle, Stored
    <3> HIDE DEF e
    <3>2. /\ e \in TuneRecs /\ SameRate(z, e) /\ SameCores(z, e) /\ e.ok = z.ok
          /\ e.rx = z.rx /\ e.tx = z.tx /\ e.found = z.found
          /\ e.pdRx = z.rx /\ e.pdTx = z.tx /\ e.kept = z.found
      BY <1>1, <3>1 DEF TuneRecs, SameRate, SameCores
    <3>3. Stocked(e) /\ BothRight(e) /\ AtRest(e)
      BY <1>1, <2>2, <3>2 DEF Stocked, BothRight, AtRest
    <3> QED
      BY <2>2, <3>2, <3>3
  <2>3. CASE z.ok /\ ~store
    <3>1. e = z
      BY <2>3 DEF Settle
    <3> HIDE DEF e
    <3> QED
      BY <1>1, <2>3, <3>1 DEF SameRate, SameCores, SameStock
  <2> QED
    BY <2>1, <2>2, <2>3
<1> HIDE DEF e
<1>3. u \in TuneRecs /\ SameDelays(e, u) /\ SameRate(e, u) /\ SameCores(e, u) /\ u.ok = e.ok
  <2>1. "off" \in Patterns
    BY DEF Patterns
  <2> QED
    BY <1>2, <2>1, QuietSteps
<1> HIDE DEF u
<1>4. y = [u EXCEPT !.ok = (z.ok \/ skipped)]
  BY DEF Concluded, u, e
<1>5. /\ y \in TuneRecs /\ SameDelays(u, y) /\ SameRate(u, y) /\ SameCores(u, y)
      /\ y.ok = (z.ok \/ skipped)
  <2>1. (z.ok \/ skipped) \in BOOLEAN
    BY <1>1 DEF TuneRecs
  <2> QED
    BY <1>3, <1>4, <2>1, SetOk
<1> HIDE DEF y
<1>6. SameDelays(e, y)
  BY <1>3, <1>5 DEF SameDelays
<1>7. Stocked(y) /\ BothRight(y) /\ SameStock(e, y)
  BY <1>2, <1>5, <1>6, SoundMoves
<1>8. SameCores(z, y) /\ SameRate(z, y)
  BY <1>2, <1>3, <1>5 DEF SameCores, SameRate
<1>9. CoreInv(y) /\ (Linked(z) => Linked(y)) /\ SameLoop(x, y)
  BY <1>1, <1>8 DEF CoreInv, Linked, SameLoop, SameCores
<1>10. y.fir = x.fir /\ y.speed = z.speed
  BY <1>1, <1>8 DEF SameRate
<1>11. store \/ ~z.ok => AtRest(y)
  BY <1>2, <1>6 DEF AtRest, SameDelays
<1>12. ~store \/ ~z.ok => SameStock(x, y)
  BY <1>1, <1>2, <1>7 DEF SameStock
<1> QED
  BY <1>5, <1>7, <1>9, <1>10, <1>11, <1>12 DEF Sound, y

\* The start of a tuning.
LEMMA BeginStage ==
  ASSUME NEW x \in TuneRecs, CoreInv(x), Stocked(x)
  PROVE  LET b == Begun(x)
         IN  /\ Midst(x, b) /\ SameCores(x, b) /\ b.speed = x.speed /\ b.ok = TRUE
<1> DEFINE o == [x EXCEPT !.ok = TRUE]
           b == Begun(x)
<1>1. o \in TuneRecs /\ SameDelays(x, o) /\ SameRate(x, o) /\ SameCores(x, o) /\ o.ok = TRUE
  BY SetOk
<1> HIDE DEF o
<1>2. b = Mute(o)
  BY DEF Begun, o
<1>3. b \in TuneRecs /\ SameDelays(o, b) /\ SameRate(o, b) /\ SameCores(o, b) /\ b.ok = o.ok
  <2>1. "off" \in Patterns
    BY DEF Patterns
  <2> QED
    BY <1>1, <1>2, <2>1, QuietSteps
<1> HIDE DEF b
<1>4. SameDelays(x, b) /\ SameRate(x, b) /\ SameCores(x, b) /\ b.ok = TRUE
  BY <1>1, <1>3 DEF SameDelays, SameRate, SameCores
<1>5. CoreInv(b)
  BY <1>4 DEF CoreInv, SameCores
<1>6. Stocked(b) /\ SameStock(x, b)
  BY <1>3, <1>4, SoundMoves
<1> QED
  BY <1>3, <1>4, <1>5, <1>6 DEF Midst, Sound, SameRate, b

\* The preparation for the receive side.
LEMMA ReadyRxStage ==
  ASSUME NEW x \in TuneRecs, NEW b, Midst(x, b)
  PROVE  LET r == ReadyRx(b)
         IN  /\ Midst(x, r) /\ r.speed = b.speed /\ r.ok = b.ok /\ r.adcControl = b.adcControl
             /\ Linked(r) /\ r.loop = 0 /\ r.dacSource = NotLoop(b.dacSource)
<1> DEFINE r == ReadyRx(b)
<1>1. b \in TuneRecs /\ CoreInv(b) /\ Stocked(b) /\ SameStock(x, b) /\ b.fir = x.fir
  BY DEF Midst, Sound
<1>2. /\ SameButCores(b, r) /\ CoreInv(r) /\ Linked(r)
      /\ r.loop = 0 /\ r.dacSource = NotLoop(b.dacSource)
  BY <1>1, ReadySteps
<1> HIDE DEF r
<1>3. r \in TuneRecs /\ SameDelays(b, r) /\ SameRate(b, r) /\ r.ok = b.ok /\ r.adcControl = b.adcControl
  BY <1>2 DEF SameButCores
<1>4. Stocked(r) /\ SameStock(b, r)
  BY <1>1, <1>3, SoundMoves
<1>5. SameStock(x, r) /\ r.fir = x.fir /\ r.speed = b.speed
  BY <1>1, <1>3, <1>4 DEF SameStock, SameRate
<1> QED
  BY <1>2, <1>3, <1>4, <1>5 DEF Midst, Sound, r

\* And for the transmit side.
LEMMA SendingStage ==
  ASSUME NEW x \in TuneRecs, NEW w, Midst(x, w)
  PROVE  LET q == ReadyTx(w)
             s == Sending(q)
         IN  /\ q \in TuneRecs /\ CoreInv(q) /\ q.loop = 1 /\ q.chipLoop
             /\ q.dacSource = NotLoop(w.dacSource) /\ q.adcControl = w.adcControl
             /\ Midst(x, s) /\ SameDelays(w, s) /\ s.speed = w.speed /\ s.ok = w.ok
             /\ s.loop = 1 /\ Linked(s)
<1> DEFINE q == ReadyTx(w)
           s == Sending(q)
<1>1. w \in TuneRecs /\ CoreInv(w) /\ Stocked(w) /\ SameStock(x, w) /\ w.fir = x.fir
  BY DEF Midst, Sound
<1>2. /\ SameButCores(w, q) /\ CoreInv(q) /\ Linked(q)
      /\ q.loop = 1 /\ q.dacSource = NotLoop(w.dacSource)
  BY <1>1, ReadySteps
<1> HIDE DEF q
<1>3. /\ q \in TuneRecs /\ SameDelays(w, q) /\ SameRate(w, q) /\ q.ok = w.ok
      /\ q.adcControl = w.adcControl /\ q.chipLoop /\ q.loop # 2
  <2>1. q.chipLoop
    BY <1>2, Zenon DEF Linked
  <2> QED
    BY <1>2, <2>1 DEF SameButCores
<1>4. /\ s \in TuneRecs /\ SameDelays(q, s) /\ SameRate(q, s) /\ s.ok = q.ok
      /\ CoreInv(s) /\ s.dacSource = "pattern" /\ s.loop = q.loop /\ s.chipLoop = q.chipLoop
  BY <1>2, <1>3, SendingSteps
<1> HIDE DEF s
<1>5. SameDelays(w, s) /\ s.speed = w.speed /\ s.fir = x.fir /\ s.ok = w.ok
  BY <1>1, <1>3, <1>4 DEF SameDelays, SameRate
<1>6. Stocked(s) /\ SameStock(w, s)
  BY <1>1, <1>4, <1>5, SoundMoves
<1>7. SameStock(x, s)
  BY <1>1, <1>6 DEF SameStock
<1>8. Linked(s) /\ s.loop = 1
  BY <1>2, <1>3, <1>4 DEF Linked
<1> QED
  BY <1>2, <1>3, <1>4, <1>5, <1>6, <1>7, <1>8 DEF Midst, Sound, q, s

\* What the tuning at one rate searches, or at all of them: the two ways differ in
\* what happens between the preparation of a side and its scan.
Between(x, y) ==
  /\ Midst(x, y) /\ SameCores(x, y) /\ y.ok = x.ok
  /\ Right("rx", x.rx, x.found["rx"]) => Right("rx", y.rx, y.found["rx"])
LEMMA SearchStage ==
  ASSUME NEW x \in TuneRecs, CoreInv(x), Stocked(x), NEW speeds \in SUBSET Speeds, NEW others \in SUBSET Speeds,
         NEW a, Between(ReadyRx(Begun(x)), a),
         NEW c, TxToo(ScanDelay(a, "rx", speeds)) =>
                  Between(Sending(ReadyTx(ScanDelay(a, "rx", speeds))), c),
         tuneBoard.skip \in 0..2
  PROVE  LET w == ScanDelay(a, "rx", speeds)
             v == IF TxToo(w) THEN CoresOf(ScanDelay(c, "tx", others), ReadyTx(w)) ELSE w
             z == Ended(v, x)
         IN  /\ Midst(x, z) /\ SameLoop(x, z) /\ Linked(z) /\ (z.ok => BothRight(z))
             /\ z.speed = IF TxToo(w) THEN c.speed ELSE a.speed
<1> DEFINE b == Begun(x)
           r == ReadyRx(b)
           w == ScanDelay(a, "rx", speeds)
           q == ReadyTx(w)
           s == Sending(q)
           v == IF TxToo(w) THEN CoresOf(ScanDelay(c, "tx", others), q) ELSE w
           z == Ended(v, x)
<1>1. Midst(x, b) /\ SameCores(x, b) /\ b.ok = TRUE
  BY BeginStage
<1> HIDE DEF b
<1>2. /\ Midst(x, r) /\ r.ok = b.ok /\ r.adcControl = b.adcControl
      /\ Linked(r) /\ r.loop = 0 /\ r.dacSource = NotLoop(b.dacSource)
  BY <1>1, ReadyRxStage
<1>3. Between(r, a)
  BY DEF b
<1> HIDE DEF r
<1>4. Midst(x, a) /\ SameCores(r, a)
  BY <1>2, <1>3 DEF Between, Midst, SameStock
<1>5. /\ Midst(x, w) /\ SameCores(r, w) /\ w.speed = a.speed
      /\ w.ok => a.ok /\ Right("rx", w.rx, w.found["rx"])
  BY <1>4, RxStage
<1>6. TxToo(w) => Between(s, c)
  OBVIOUS
<1> HIDE DEF w
<1>7. w.dacSource = NotLoop(x.dacSource) /\ w.adcControl = x.adcControl
  BY <1>1, <1>2, <1>5 DEF SameCores
<1>8. /\ Midst(x, v) /\ v.dacSource = NotLoop(x.dacSource) /\ v.adcControl = x.adcControl
      /\ v.ok => BothRight(v)
      /\ v.speed = IF TxToo(w) THEN c.speed ELSE a.speed
  <2>1. CASE TxToo(w)
    <3>1. tuneBoard.skip = 0 /\ w.ok
      BY <2>1 DEF TxToo
    <3>2. /\ q \in TuneRecs /\ CoreInv(q) /\ q.loop = 1 /\ q.chipLoop
          /\ q.dacSource = NotLoop(w.dacSource) /\ q.adcControl = w.adcControl
          /\ Midst(x, s) /\ SameDelays(w, s)
      BY <1>5, SendingStage
    <3>3. Between(s, c)
      BY <1>6, <2>1
    <3>4. v = CoresOf(ScanDelay(c, "tx", others), q)
      BY <2>1
    <3>5. SameCores(Sending(q), c)
      BY <3>3 DEF Between
    <3> HIDE DEF q, s, v
    <3>6. Right("rx", s.rx, s.found["rx"])
      BY <1>5, <3>1, <3>2 DEF SameDelays
    <3>7. Midst(x, c) /\ Right("rx", c.rx, c.found["rx"])
      BY <3>2, <3>3, <3>6 DEF Between, Midst, SameStock
    <3>8. /\ Midst(x, v) /\ SameCores(q, v) /\ v.speed = c.speed
          /\ v.ok => BothRight(v)
      BY <3>1, <3>2, <3>4, <3>5, <3>7, TxStage
    <3>9. v.dacSource = NotLoop(x.dacSource) /\ v.adcControl = x.adcControl
      <4>1. x.dacSource \in Sources
        BY DEF TuneRecs
      <4> QED
        BY <1>7, <3>2, <3>8, <4>1 DEF SameCores, NotLoop
    <3> QED
      BY <2>1, <3>8, <3>9
  <2>2. CASE ~TxToo(w)
    <3>1. v = w
      BY <2>2
    <3>2. w.ok => BothRight(w)
      <4>1. ASSUME w.ok PROVE BothRight(w)
        <5>1. tuneBoard.skip # 0
          BY <2>2, <4>1 DEF TxToo
        <5>2. w.found["tx"] = {}
          BY <1>5, <5>1 DEF Midst, Sound, Stocked
        <5> QED
          BY <1>5, <4>1, <5>2, NothingRight DEF BothRight
      <4> QED
        BY <4>1
    <3> QED
      BY <1>5, <1>7, <2>2, <3>1, <3>2
  <2> QED
    BY <2>1, <2>2
<1> HIDE DEF v
<1>9. /\ Midst(x, z) /\ SameLoop(x, z) /\ Linked(z)
      /\ SameDelays(v, z) /\ z.speed = v.speed /\ z.ok = v.ok
  BY <1>8, EndStage
<1> HIDE DEF z
<1>10. z.ok => BothRight(z)
  BY <1>8, <1>9, SoundMoves DEF Midst, Sound
<1>11. z.speed = IF TxToo(w) THEN c.speed ELSE a.speed
  BY <1>8, <1>9
<1> QED
  BY <1>9, <1>10, <1>11 DEF z, v, q, w

\* What a tuning may change: the rate, the delays and what remembers them.
TunedWell(x, y) ==
  /\ Sound(y) /\ BothRight(y) /\ y.fir = x.fir
  /\ SameLoop(x, y) /\ (Linked(x) => Linked(y))

LEMMA SkipStage ==
  ASSUME NEW x, Sound(x), NEW store \in BOOLEAN
  PROVE  LET y == Concluded([x EXCEPT !.ok = FALSE], TRUE, store)
         IN  TunedWell(x, y) /\ y.speed = x.speed /\ AtRest(y) /\ SameStock(x, y) /\ y.ok
<1> DEFINE z == [x EXCEPT !.ok = FALSE]
           y == Concluded(z, TRUE, store)
<1>1. x \in TuneRecs /\ CoreInv(x) /\ Stocked(x)
  BY DEF Sound
<1>2. z \in TuneRecs /\ SameDelays(x, z) /\ SameRate(x, z) /\ SameCores(x, z) /\ z.ok = FALSE
  BY <1>1, SetOk
<1> HIDE DEF z
<1>3. CoreInv(z) /\ SameLoop(x, z) /\ (Linked(x) => Linked(z))
  BY <1>1, <1>2 DEF CoreInv, SameCores, SameLoop, Linked
<1>4. Midst(x, z)
  BY <1>1, <1>2, <1>3, SoundMoves DEF Midst, Sound, SameRate
<1>5. /\ Sound(y) /\ y.fir = x.fir /\ SameLoop(x, y) /\ (Linked(z) => Linked(y))
      /\ BothRight(y) /\ y.speed = z.speed /\ AtRest(y) /\ SameStock(x, y) /\ y.ok
  <2>1. \A skipped \in BOOLEAN :
          LET k == Concluded(z, skipped, store)
          IN  /\ Sound(k) /\ k.fir = x.fir /\ SameLoop(x, k) /\ (Linked(z) => Linked(k))
              /\ BothRight(k) /\ k.speed = z.speed /\ (skipped => k.ok)
              /\ store \/ ~z.ok => AtRest(k)
              /\ ~store \/ ~z.ok => SameStock(x, k)
    BY <1>1, <1>2, <1>3, <1>4, ConcludeStage
  <2> QED
    BY <1>2, <2>1
<1> HIDE DEF y
<1> QED
  BY <1>2, <1>3, <1>5 DEF TunedWell, SameRate, y, z

\* ad9361_dig_tune at the rate that is set
LEMMA DigTuneWell ==
  ASSUME NEW x, Sound(x), NEW lazy \in BOOLEAN, NEW store \in BOOLEAN, tuneBoard.skip \in 0..2
  PROVE  LET y == DigTune(x, lazy, store)
         IN  /\ TunedWell(x, y) /\ y.speed = x.speed
             /\ store => AtRest(y)
             /\ ~store \/ Skipped(lazy) => SameStock(x, y)
             /\ IF Skipped(lazy) THEN y.ok ELSE Linked(y)
<1> DEFINE y == DigTune(x, lazy, store)
<1>1. x \in TuneRecs /\ CoreInv(x) /\ Stocked(x)
  BY DEF Sound
<1>2. CASE Skipped(lazy)
  <2>1. y = Concluded([x EXCEPT !.ok = FALSE], TRUE, store)
    BY <1>2 DEF DigTune, Skipped
  <2>2. TunedWell(x, y) /\ y.speed = x.speed /\ AtRest(y) /\ SameStock(x, y) /\ y.ok
    BY <2>1, SkipStage
  <2> QED
    BY <1>2, <2>2
<1>3. CASE ~Skipped(lazy)
  <2> DEFINE b == Begun(x)
             r == ReadyRx(b)
             a == r
             one == {b.speed}
             w == ScanDelay(a, "rx", one)
             two == {w.speed}
             s == Sending(ReadyTx(w))
             c == s
             z == SearchHere(x)
             e == Concluded(z, FALSE, store)
  <2>1. Midst(x, b) /\ b.speed = x.speed
    BY <1>1, BeginStage
  <2>2. Midst(x, r) /\ r.speed = b.speed
    BY <2>1, <1>1, ReadyRxStage
  <2>3. Between(r, a) /\ a.speed = r.speed
    BY <2>2 DEF Between, Midst, SameStock, SameCores
  <2>4. one \in SUBSET Speeds
    BY <2>1 DEF Midst, Sound, TuneRecs
  <2>5. Midst(x, w) /\ w.speed = r.speed
    BY <1>1, <2>2, <2>4, RxStage DEF SameCores
  <2>6. two \in SUBSET Speeds
    BY <2>5 DEF Midst, Sound, TuneRecs
  <2>7. Between(s, c) /\ c.speed = w.speed
    <3>1. Midst(x, s) /\ s.speed = w.speed
      BY <1>1, <2>5, SendingStage
    <3> HIDE DEF s
    <3> QED
      BY <3>1 DEF Between, Midst, SameStock, SameCores
  <2>8. z = Ended(IF TxToo(w) THEN CoresOf(ScanDelay(c, "tx", two), ReadyTx(w)) ELSE w, x)
    BY DEF SearchHere, TxHereToo, TuneTxHere, TuneRxHere
  <2> HIDE DEF z, a, c, one, two
  <2>9. /\ Midst(x, z) /\ SameLoop(x, z) /\ Linked(z) /\ (z.ok => BothRight(z))
        /\ z.speed = IF TxToo(w) THEN c.speed ELSE a.speed
    BY <1>1, <2>3, <2>4, <2>6, <2>7, <2>8, SearchStage
  <2> HIDE DEF r, s, w
  <2>10. z.speed = x.speed
    BY <2>1, <2>2, <2>3, <2>5, <2>7, <2>9
  <2>11. y = e
    BY <1>3 DEF DigTune, Skipped, z
  <2>12. /\ Sound(e) /\ e.fir = x.fir /\ SameLoop(x, e) /\ Linked(e) /\ BothRight(e)
         /\ e.speed = z.speed /\ (store => AtRest(e)) /\ (~store => SameStock(x, e))
    <3>1. Midst(x, z) /\ SameLoop(x, z) /\ Linked(z) /\ (z.ok => BothRight(z))
      BY <2>9
    <3>2. \A skipped \in BOOLEAN, keep \in BOOLEAN :
            LET k == Concluded(z, skipped, keep)
            IN  /\ Sound(k) /\ k.fir = x.fir /\ SameLoop(x, k) /\ (Linked(z) => Linked(k))
                /\ BothRight(k) /\ k.speed = z.speed
                /\ keep \/ ~z.ok => AtRest(k)
                /\ ~keep \/ ~z.ok => SameStock(x, k)
      BY <1>1, <3>1, ConcludeStage
    <3>3. /\ Sound(e) /\ e.fir = x.fir /\ SameLoop(x, e) /\ (Linked(z) => Linked(e))
          /\ BothRight(e) /\ e.speed = z.speed
          /\ store \/ ~z.ok => AtRest(e)
          /\ ~store \/ ~z.ok => SameStock(x, e)
      BY <3>2
    <3> QED
      BY <3>1, <3>3
  <2> HIDE DEF y, e
  <2> QED
    BY <1>3, <2>10, <2>11, <2>12 DEF TunedWell, y
<1> QED
  BY <1>2, <1>3

\* A rate is set.
LEMMA ClockChainWell ==
  ASSUME NEW x, Sound(x), NEW s \in Speeds, tuneBoard.skip \in 0..2
  PROVE  LET y == SetClockChain(x, s)
         IN  /\ Sound(y) /\ y.fir = x.fir /\ SameLoop(x, y) /\ (Linked(x) => Linked(y))
             /\ SameStock(x, y) /\ y.ok = x.ok /\ y.speed = s
             /\ Right("rx", x.rx, x.found["rx"]) => Right("rx", y.rx, y.found["rx"])
             /\ BothRight(x) => BothRight(y)
             /\ ~ (tuneBoard.firTune /\ x.fir) => SameDelays(x, y)
<1> DEFINE z == [x EXCEPT !.speed = s]
           y == SetClockChain(x, s)
           t == DigTune(z, FALSE, FALSE)
<1>1. x \in TuneRecs /\ CoreInv(x) /\ Stocked(x)
  BY DEF Sound
<1>2. z \in TuneRecs /\ SameDelays(x, z) /\ SameCores(x, z) /\ z.speed = s /\ z.fir = x.fir /\ z.ok = x.ok
  BY <1>1, RateIsSet
<1>3. y = TunedForFir(z)
  BY DEF SetClockChain
<1> HIDE DEF z
<1>4. CoreInv(z) /\ SameLoop(x, z) /\ (Linked(x) => Linked(z))
  BY <1>1, <1>2 DEF CoreInv, SameCores, SameLoop, Linked
<1>5. Stocked(z) /\ SameStock(x, z) /\ (BothRight(x) => BothRight(z))
  BY <1>1, <1>2, SoundMoves
<1>6. Sound(z)
  BY <1>2, <1>4, <1>5 DEF Sound
<1>7. CASE ~ (tuneBoard.firTune /\ z.fir)
  <2>1. y = z
    BY <1>3, <1>7 DEF TunedForFir
  <2>2. Right("rx", x.rx, x.found["rx"]) => Right("rx", z.rx, z.found["rx"])
    BY <1>2 DEF SameDelays
  <2> QED
    BY <1>2, <1>4, <1>5, <1>6, <2>1, <2>2
<1>8. CASE tuneBoard.firTune /\ z.fir
  <2>1. y = [t EXCEPT !.ok = z.ok]
    BY <1>3, <1>8 DEF TunedForFir
  <2>2. TunedWell(z, t) /\ t.speed = z.speed /\ SameStock(z, t)
    BY <1>6, DigTuneWell
  <2> HIDE DEF t, y
  <2>3. t \in TuneRecs /\ CoreInv(t) /\ Stocked(t) /\ BothRight(t) /\ t.fir = z.fir
        /\ SameLoop(z, t) /\ (Linked(z) => Linked(t))
    BY <2>2 DEF TunedWell, Sound
  <2>4. y \in TuneRecs /\ SameDelays(t, y) /\ SameRate(t, y) /\ SameCores(t, y) /\ y.ok = z.ok
    <3>1. z.ok \in BOOLEAN
      BY <1>2 DEF TuneRecs
    <3> QED
      BY <2>1, <2>3, <3>1, SetOk
  <2>5. Stocked(y) /\ BothRight(y) /\ SameStock(t, y)
    BY <2>3, <2>4, SoundMoves
  <2>6. CoreInv(y) /\ SameLoop(z, y) /\ (Linked(z) => Linked(y))
    BY <2>3, <2>4 DEF CoreInv, SameCores, SameLoop, Linked
  <2>7. SameLoop(x, y) /\ (Linked(x) => Linked(y))
    BY <1>2, <1>4, <2>6 DEF SameLoop, SameCores
  <2>8. SameStock(x, y)
    BY <1>5, <2>2, <2>5 DEF SameStock
  <2>9. y.fir = x.fir /\ y.speed = s /\ y.ok = x.ok
    BY <1>2, <2>2, <2>3, <2>4 DEF SameRate
  <2>10. Sound(y) /\ Right("rx", y.rx, y.found["rx"])
    BY <2>4, <2>5, <2>6 DEF Sound, BothRight
  <2>11. tuneBoard.firTune /\ x.fir
    BY <1>2, <1>8
  <2> QED
    BY <2>5, <2>7, <2>8, <2>9, <2>10, <2>11 DEF y
<1> QED
  BY <1>7, <1>8

\* All the rates, one after the other.
LEMMA AllSpeedsWell ==
  ASSUME NEW x, Sound(x), Linked(x), x.loop # 2, tuneBoard.skip \in 0..2
  PROVE  Between(x, AllSpeeds(x)) /\ AllSpeeds(x).speed = 3
<1> DEFINE a == SetClockChain(x, 1)
           b == SetClockChain(a, 2)
           c == SetClockChain(b, 3)
<1>1. 1 \in Speeds /\ 2 \in Speeds /\ 3 \in Speeds
  BY DEF Speeds
<1>2. /\ Sound(a) /\ a.fir = x.fir /\ SameLoop(x, a) /\ Linked(a) /\ SameStock(x, a) /\ a.ok = x.ok
      /\ Right("rx", x.rx, x.found["rx"]) => Right("rx", a.rx, a.found["rx"])
  BY <1>1, ClockChainWell
<1> HIDE DEF a
<1>3. /\ Sound(b) /\ b.fir = a.fir /\ SameLoop(a, b) /\ Linked(b) /\ SameStock(a, b) /\ b.ok = a.ok
      /\ Right("rx", a.rx, a.found["rx"]) => Right("rx", b.rx, b.found["rx"])
  BY <1>1, <1>2, ClockChainWell
<1> HIDE DEF b
<1>4. /\ Sound(c) /\ c.fir = b.fir /\ SameLoop(b, c) /\ Linked(c) /\ SameStock(b, c) /\ c.ok = b.ok
      /\ Right("rx", b.rx, b.found["rx"]) => Right("rx", c.rx, c.found["rx"])
      /\ c.speed = 3
  BY <1>1, <1>3, ClockChainWell
<1>5. c = AllSpeeds(x)
  BY DEF AllSpeeds, a, b
<1> HIDE DEF c
<1>6. c.dacSource = x.dacSource /\ c.loop = x.loop /\ c.adcControl = x.adcControl
  BY <1>2, <1>3, <1>4 DEF SameLoop
<1>7. c.scratch = x.scratch /\ c.chipLoop = x.chipLoop
  BY <1>4, <1>6 DEF Sound, CoreInv, Linked
<1>8. SameCores(x, c)
  BY <1>6, <1>7 DEF SameCores
<1>9. Midst(x, c)
  BY <1>2, <1>3, <1>4 DEF Midst, SameStock
<1> QED
  BY <1>2, <1>3, <1>4, <1>5, <1>8, <1>9 DEF Between

\* ad9361_dig_tune at all the rates
LEMMA DigTuneAllWell ==
  ASSUME NEW x, Sound(x), tuneBoard.skip \in 0..2
  PROVE  LET y == DigTuneAll(x)
         IN  TunedWell(x, y) /\ AtRest(y) /\ (tuneBoard.skip # 2 => Linked(y))
<1> DEFINE y == DigTuneAll(x)
<1>1. x \in TuneRecs /\ CoreInv(x) /\ Stocked(x)
  BY DEF Sound
<1>2. CASE tuneBoard.skip = 2
  <2>1. y = Concluded([x EXCEPT !.ok = FALSE], TRUE, TRUE)
    BY <1>2 DEF DigTuneAll, Skipped
  <2> QED
    BY <1>2, <2>1, SkipStage
<1>3. CASE tuneBoard.skip # 2
  <2> DEFINE b == Begun(x)
             r == ReadyRx(b)
             a == AllSpeeds(r)
             w == ScanDelay(a, "rx", Speeds)
             s == Sending(ReadyTx(w))
             c == AllSpeeds(s)
             z == SearchAll(x)
             e == Concluded(z, FALSE, TRUE)
  <2>1. Midst(x, b)
    BY <1>1, BeginStage
  <2>2. Midst(x, r) /\ Linked(r) /\ r.loop = 0
    BY <2>1, <1>1, ReadyRxStage
  <2>3. Between(r, a)
    <3>1. Sound(r) /\ r.loop # 2
      BY <2>2 DEF Midst
    <3> HIDE DEF r
    <3> QED
      BY <2>2, <3>1, AllSpeedsWell
  <2>4. Midst(x, a)
    BY <2>2, <2>3 DEF Between, Midst, SameStock
  <2>5. Midst(x, w)
    <3> HIDE DEF a
    <3> QED
      BY <1>1, <2>4, RxStage DEF SameCores
  <2>6. Midst(x, s) /\ Linked(s) /\ s.loop = 1
    <3> HIDE DEF w
    <3> QED
      BY <1>1, <2>5, SendingStage
  <2>7. Between(s, c)
    <3>1. Sound(s) /\ s.loop # 2
      BY <2>6 DEF Midst
    <3> HIDE DEF s
    <3> QED
      BY <2>6, <3>1, AllSpeedsWell
  <2>8. z = Ended(IF TxToo(w) THEN CoresOf(ScanDelay(c, "tx", Speeds), ReadyTx(w)) ELSE w, x)
    BY DEF SearchAll, TxAllToo, TuneTxAll, TuneRxAll
  <2> HIDE DEF z, a, c
  <2>9. Midst(x, z) /\ SameLoop(x, z) /\ Linked(z) /\ (z.ok => BothRight(z))
    BY <1>1, <2>3, <2>7, <2>8, SearchStage
  <2>10. y = e
    BY <1>3 DEF DigTuneAll, Skipped, z
  <2>11. Sound(e) /\ e.fir = x.fir /\ SameLoop(x, e) /\ Linked(e) /\ BothRight(e) /\ AtRest(e)
    BY <1>1, <2>9, ConcludeStage
  <2> HIDE DEF y, e
  <2> QED
    BY <1>3, <2>10, <2>11 DEF TunedWell, y
<1> QED
  BY <1>2, <1>3

\* The FIR filters are switched.
LEMMA SetFir ==
  ASSUME NEW x, Sound(x), NEW on \in BOOLEAN
  PROVE  LET y == [x EXCEPT !.fir = on]
         IN  /\ Sound(y) /\ SameDelays(x, y) /\ SameCores(x, y)
             /\ y.fir = on /\ y.speed = x.speed /\ y.ok = x.ok
<1> DEFINE y == [x EXCEPT !.fir = on]
<1>1. x \in TuneRecs /\ CoreInv(x) /\ Stocked(x)
  BY DEF Sound
<1>2. /\ y \in TuneRecs /\ SameDelays(x, y) /\ SameCores(x, y)
      /\ y.fir = on /\ y.speed = x.speed /\ y.ok = x.ok
  BY <1>1 DEF TuneRecs, SameDelays, SameCores
<1> HIDE DEF y
<1>3. CoreInv(y)
  BY <1>1, <1>2 DEF CoreInv, SameCores
<1>4. Stocked(y)
  BY <1>1, <1>2, SoundMoves
<1> QED
  BY <1>2, <1>3, <1>4 DEF Sound, y

\* When the filters go, the delays of set-up come back.
LEMMA FirEnableWell ==
  ASSUME NEW x, Sound(x), BothRight(x), x.ok, NEW on \in BOOLEAN, tuneBoard.skip \in 0..2
  PROVE  LET y == FirEnable(x, on)
         IN  /\ TunedWell([x EXCEPT !.fir = on], y) /\ y.fir = on /\ y.speed = x.speed /\ y.ok
             /\ SameStock(x, y) /\ SameLoop(x, y) /\ (Linked(x) => Linked(y))
             /\ tuneBoard.firTune /\ ~on => AtRest(y)
<1> DEFINE f == [x EXCEPT !.fir = on]
           c == SetClockChain(f, x.speed)
           d == DigTune(c, TRUE, TRUE)
           y == FirEnable(x, on)
<1>1. /\ Sound(f) /\ SameDelays(x, f) /\ SameCores(x, f)
      /\ f.fir = on /\ f.speed = x.speed /\ f.ok = x.ok
  BY SetFir
<1>2. x.speed \in Speeds
  BY DEF Sound, TuneRecs
<1>3. y = IF tuneBoard.firTune /\ ~on THEN d ELSE c
  BY DEF FirEnable
<1> HIDE DEF f
<1>4. BothRight(f) /\ SameStock(x, f)
  BY <1>1, SoundMoves DEF Sound
<1>5. /\ Sound(c) /\ c.fir = f.fir /\ SameLoop(f, c) /\ (Linked(f) => Linked(c))
      /\ SameStock(f, c) /\ c.ok = f.ok /\ c.speed = x.speed /\ (BothRight(f) => BothRight(c))
  BY <1>1, <1>2, ClockChainWell
<1> HIDE DEF c
<1>6. /\ TunedWell(c, d) /\ d.speed = c.speed /\ AtRest(d) /\ SameStock(c, d) /\ d.ok
  BY <1>5, DigTuneWell DEF Skipped
<1> HIDE DEF d, y
<1>7. TunedWell(f, c) /\ TunedWell(f, d)
  BY <1>4, <1>5, <1>6 DEF TunedWell, SameLoop
<1>8. TunedWell(f, y) /\ y.speed = x.speed /\ y.ok /\ SameStock(f, y)
      /\ (tuneBoard.firTune /\ ~on => AtRest(y))
  <2>1. SameStock(f, d)
    BY <1>5, <1>6 DEF SameStock
  <2>2. CASE tuneBoard.firTune /\ ~on
    <3>1. y = d
      BY <1>3, <2>2
    <3> QED
      BY <1>5, <1>6, <1>7, <2>1, <3>1
  <2>3. CASE ~ (tuneBoard.firTune /\ ~on)
    <3>1. y = c
      BY <1>3, <2>3
    <3> QED
      BY <1>1, <1>5, <1>7, <2>3, <3>1
  <2> QED
    BY <2>2, <2>3
<1>9. y.fir = on /\ SameStock(x, y)
  BY <1>1, <1>4, <1>8 DEF TunedWell, SameStock
<1>10. SameLoop(x, y) /\ (Linked(x) => Linked(y))
  BY <1>1, <1>8 DEF TunedWell, SameLoop, SameCores, Linked
<1> QED
  BY <1>8, <1>9, <1>10 DEF y, f

\* Set-up of a chip that was reset, as far as the interface goes.
LEMMA ChipSetupWell ==
  ASSUME NEW x, Sound(x), tuneBoard.skip \in 0..2
  PROVE  LET y == ChipSetup(x)
         IN  /\ Sound(y) /\ y.fir = x.fir /\ SameLoop(x, y) /\ y.ok = x.ok
             /\ x.loop = 0 /\ x.dacSource = "user" => Linked(y)
<1> DEFINE r == Reset(x)
           c == SetClockChain(r, PdSpeed)
           y == ChipSetup(x)
<1>1. x \in TuneRecs /\ CoreInv(x) /\ Stocked(x)
  BY DEF Sound
<1>2. /\ r \in TuneRecs /\ r.fir = x.fir /\ r.ok = x.ok /\ SameStock(x, r) /\ r.found = x.found
      /\ r.dacSource = x.dacSource /\ r.scratch = x.scratch /\ r.adcControl = x.adcControl
      /\ r.loop = x.loop /\ r.chipLoop = FALSE
  <2>1. <<0, 0>> \in Delays /\ "off" \in Patterns
    BY TuneAssumption DEF Delays, Patterns
  <2> QED
    BY <1>1, <2>1 DEF TuneRecs, Reset, SameStock
<1> HIDE DEF r
<1>3. Sound(r)
  <2>1. CoreInv(r)
    BY <1>1, <1>2 DEF CoreInv
  <2>2. Stocked(r)
    BY <1>1, <1>2 DEF Stocked, SameStock
  <2> QED
    BY <1>2, <2>1, <2>2 DEF Sound
<1>4. PdSpeed \in Speeds
  BY DEF PdSpeed, Speeds
<1>5. Sound(c) /\ c.fir = r.fir /\ SameLoop(r, c) /\ c.ok = r.ok /\ (Linked(r) => Linked(c))
  BY <1>3, <1>4, ClockChainWell
<1> HIDE DEF c
<1>6. c \in TuneRecs /\ CoreInv(c) /\ Stocked(c)
  BY <1>5 DEF Sound
<1>7. /\ y \in TuneRecs /\ y.fir = c.fir /\ y.ok = c.ok /\ SameStock(c, y) /\ y.found = c.found
      /\ SameCores(c, y)
  <2>1. PdAtten \in Nat
    BY DEF PdAtten
  <2>2. y = FromPdata(c)
    BY DEF ChipSetup, c, r
  <2> HIDE DEF y
  <2> QED
    BY <1>6, <2>1, <2>2 DEF TuneRecs, FromPdata, SameStock, SameCores
<1> HIDE DEF y
<1>8. Sound(y)
  <2>1. CoreInv(y)
    BY <1>6, <1>7 DEF CoreInv, SameCores
  <2>2. Stocked(y)
    BY <1>6, <1>7 DEF Stocked, SameStock
  <2> QED
    BY <1>7, <2>1, <2>2 DEF Sound
<1>9. SameLoop(x, y)
  BY <1>2, <1>5, <1>7 DEF SameLoop, SameCores
<1>10. ASSUME x.loop = 0, x.dacSource = "user" PROVE Linked(y)
  <2>1. Linked(r)
    <3>1. r.dacSource = "user" /\ r.loop = 0 /\ ~r.chipLoop
      BY <1>2, <1>10
    <3>2. r.dacSource # "loop" /\ r.loop # 2 /\ r.loop # 1
      BY <3>1
    <3>3. r.chipLoop = (r.loop = 1)
      BY <1>2, <3>2, Zenon
    <3> QED
      BY <3>2, <3>3, Zenon DEF Linked
  <2> QED
    BY <1>5, <1>7, <2>1 DEF Linked, SameCores
<1> QED
  BY <1>2, <1>5, <1>7, <1>8, <1>9, <1>10 DEF y

\* The tuning after set-up.
LEMMA PostSetupWell ==
  ASSUME NEW x, Sound(x), tuneBoard.skip \in 0..2
  PROVE  LET y == PostSetup(x)
         IN  /\ TunedWell(x, y) /\ (tuneBoard.skip # 2 => Linked(y))
             /\ y.ok => y.speed = PdSpeed
             /\ ~x.fir => AtRest(y)
<1> DEFINE d == DigTune(x, FALSE, TRUE)
           p == PostTune(x)
           c == SetClockChain(p, PdSpeed)
           y == PostSetup(x)
<1>1. TunedWell(x, p) /\ AtRest(p) /\ (tuneBoard.skip # 2 => Linked(p))
  <2>1. CASE tuneBoard.slave
    <3>1. TunedWell(x, d) /\ AtRest(d) /\ (tuneBoard.skip # 2 => Linked(d))
      BY DigTuneWell DEF Skipped
    <3>2. p = [d EXCEPT !.ok = TRUE]
      BY <2>1 DEF PostTune
    <3> HIDE DEF d, p
    <3>3. p \in TuneRecs /\ SameDelays(d, p) /\ SameRate(d, p) /\ SameCores(d, p)
      BY <3>1, <3>2, SetOk DEF TunedWell, Sound
    <3>4. Stocked(p) /\ BothRight(p)
      BY <3>1, <3>3, SoundMoves DEF TunedWell, Sound
    <3>5. CoreInv(p) /\ SameLoop(x, p) /\ (Linked(d) => Linked(p)) /\ p.fir = x.fir
      BY <3>1, <3>3 DEF TunedWell, Sound, CoreInv, SameLoop, SameCores, SameRate, Linked
    <3>6. AtRest(p)
      BY <3>1, <3>3 DEF AtRest, SameDelays
    <3> QED
      BY <3>1, <3>3, <3>4, <3>5, <3>6 DEF TunedWell, Sound
  <2>2. CASE ~tuneBoard.slave
    <3>1. p = DigTuneAll(x)
      BY <2>2 DEF PostTune
    <3> QED
      BY <3>1, DigTuneAllWell
  <2> QED
    BY <2>1, <2>2
<1>2. y = IF p.ok THEN c ELSE p
  BY DEF PostSetup, RateIfOk
<1> HIDE DEF p
<1>3. PdSpeed \in Speeds
  BY DEF PdSpeed, Speeds
<1>4. /\ Sound(c) /\ c.fir = p.fir /\ SameLoop(p, c) /\ (Linked(p) => Linked(c))
      /\ c.ok = p.ok /\ c.speed = PdSpeed /\ (BothRight(p) => BothRight(c))
      /\ SameStock(p, c)
      /\ ~ (tuneBoard.firTune /\ p.fir) => SameDelays(p, c)
  BY <1>1, <1>3, ClockChainWell DEF TunedWell
<1> HIDE DEF c, y
<1>5. TunedWell(x, c) /\ (tuneBoard.skip # 2 => Linked(c))
  BY <1>1, <1>4 DEF TunedWell, SameLoop
<1>6. ~x.fir => AtRest(c)
  BY <1>1, <1>4 DEF TunedWell, AtRest, SameDelays
<1>7. CASE p.ok
  BY <1>2, <1>4, <1>5, <1>6, <1>7 DEF y
<1>8. CASE ~p.ok
  BY <1>1, <1>2, <1>8 DEF y
<1> QED
  BY <1>7, <1>8

-----------------------------------------------------------------------------
(***************************************************************************)
(* The calls.                                                              *)
(***************************************************************************)

\* The inductive invariant: the state is one of the interface; the delays in use and
\* those of pdata are right for what they were found for, whatever the filters and
\* the rate are now; the cores are the user's, and linked to the loop unless a second
\* request or a reset broke it; before set-up nothing was done.
TuneInv ==
  /\ tuneBoard \in TuneBoards /\ eye \in Eyes
  /\ Sound(tune) /\ BothRight(tune)
  /\ tune.adcControl = "user" /\ tune.dacSource # "pattern"
  /\ ~loopLost => Linked(tune)
  /\ tune.ok /\ tuneBoard.firTune /\ ~tune.fir => AtRest(tune)
  /\ SpeedAsAsked
  /\ ~tune.ok => tune = Powered /\ speedAsked = PdSpeed /\ ~loopLost

\* What the invariant says of the delays depends on the wiring, which does not change.
LEMMA WiringStays ==
  tuneBoard' = tuneBoard /\ eye' = eye /\ Sound(tune') /\ BothRight(tune') =>
    Sound(tune)' /\ BothRight(tune)'
BY DEF Sound, BothRight, Stocked, Right, Passing

\* The invariant gives the properties.
LEMMA TuneInvGives ==
  TuneInv => FoundDelaysPass /\ DelaysOfSetup /\ CoresRestored /\ SpeedAsAsked
<1> SUFFICES ASSUME TuneInv PROVE FoundDelaysPass /\ DelaysOfSetup /\ CoresRestored /\ SpeedAsAsked
  OBVIOUS
<1>1. tune \in TuneRecs /\ LastDelay \in Nat
  BY TuneAssumption DEF TuneInv, Sound
<1>2. ASSUME NEW side, NEW delays, NEW conditions, NEW fir \in BOOLEAN, Right(side, delays, conditions),
             RatesOf(conditions, fir) # {}, fir = tune.fir
      PROVE  LET speeds == RatesOf(conditions, fir)
                 good == {d \in -LastDelay..LastDelay : \A s \in speeds : Passes(tune, side, s, 0, d)}
             IN  BestOf(delays[2] - delays[1], good)
  <2> DEFINE speeds == RatesOf(conditions, fir)
             good == {d \in -LastDelay..LastDelay : \A s \in speeds : Passes(tune, side, s, 0, d)}
  <2>1. BestOf(delays[2] - delays[1], Passing(side, fir, speeds))
    BY <1>2 DEF Right
  <2>2. \A d \in -LastDelay..LastDelay : d - 0 = d
    BY <1>1
  <2>3. Passing(side, fir, speeds) = good
    BY <1>2, <2>2 DEF Passing, Passes
  <2> QED
    BY <2>1, <2>3
<1>3. ASSUME NEW side \in TuneSides
      PROVE  Right(side, tune[side], tune.found[side])
  BY <1>1 DEF TuneInv, BothRight, TuneSides, TuneRecs
<1>4. FoundDelaysPass
  <2> SUFFICES ASSUME NEW side \in TuneSides, RatesOf(tune.found[side], tune.fir) # {}
               PROVE  LET speeds == RatesOf(tune.found[side], tune.fir)
                          good == {d \in -LastDelay..LastDelay : \A s \in speeds : Passes(tune, side, s, 0, d)}
                          set == tune[side][2] - tune[side][1]
                      IN  /\ set \in good
                          /\ \E ab \in PassingRuns(good) :
                               /\ 2 * set - ab[1] - ab[2] \in -1..1
                               /\ \A other \in PassingRuns(good) : other[2] - other[1] <= ab[2] - ab[1]
    BY DEF FoundDelaysPass, RatesOf, PassingRuns
  <2>1. tune.fir \in BOOLEAN
    BY <1>1 DEF TuneRecs
  <2> QED
    BY <1>2, <1>3, <2>1 DEF BestOf
<1>5. DelaysOfSetup
  BY DEF TuneInv, DelaysOfSetup, AtRest
<1>6. CoresRestored
  <2>1. tune.dacSource \in {"user", "loop"}
    BY <1>1 DEF TuneInv, TuneRecs, Sources
  <2> QED
    BY <2>1 DEF TuneInv, CoresRestored, Linked
<1> QED
  BY <1>4, <1>5, <1>6 DEF TuneInv

\* The chip that was switched on.
LEMMA TuneInit_Inv == TuneInit => TuneInv
<1> SUFFICES ASSUME TuneInit PROVE TuneInv
  OBVIOUS
<1>1. LastDelay \in Nat \ {0}
  BY TuneAssumption
<1>2. Powered \in TuneRecs
  <2>1. <<0, 0>> \in Delays /\ <<0, 1>> \in Delays /\ <<1, 0>> \in Delays
    BY <1>1 DEF Delays
  <2>2. Nothing \in Conditions
    BY DEF Nothing, Conditions
  <2>3. PdSpeed \in Speeds
    BY DEF PdSpeed, Speeds
  <2> HIDE DEF Nothing
  <2> QED
    BY <2>1, <2>2, <2>3 DEF Powered, TuneRecs, Patterns, Sources
<1>3. Powered.found = Nothing /\ Powered.kept = Nothing /\ Nothing["rx"] = {} /\ Nothing["tx"] = {}
  BY DEF Powered, Nothing, TuneSides
<1>4. BothRight(Powered) /\ Stocked(Powered)
  BY <1>3, NothingRight DEF BothRight, Stocked
<1>5. CoreInv(Powered) /\ Linked(Powered) /\ ~Powered.ok
      /\ Powered.adcControl = "user" /\ Powered.dacSource # "pattern" /\ Powered.speed = PdSpeed
  <2>1. /\ Powered.dacSource = "user" /\ Powered.scratch = "user" /\ Powered.loop = 0
        /\ ~Powered.chipLoop /\ ~Powered.ok /\ Powered.adcControl = "user"
        /\ Powered.speed = PdSpeed
    BY DEF Powered
  <2> HIDE DEF Powered
  <2>2. Powered.dacSource # "loop" /\ Powered.loop # 2 /\ Powered.loop # 1
    BY <2>1
  <2>3. Linked(Powered)
    <3>1. Powered.chipLoop = (Powered.loop = 1)
      <4>1. Powered.chipLoop = FALSE
        BY DEF Powered
      <4> QED
        BY <2>2, <4>1, Zenon
    <3> QED
      BY <2>2, <3>1, Zenon DEF Linked
  <2> QED
    BY <2>1, <2>2, <2>3 DEF CoreInv
<1>6. Sound(Powered)
  BY <1>2, <1>4, <1>5 DEF Sound
<1>7. tune = Powered /\ speedAsked = PdSpeed /\ loopLost = FALSE
      /\ tuneBoard \in TuneBoards /\ eye \in Eyes
  BY DEF TuneInit
<1> HIDE DEF Powered
<1> QED
  BY <1>4, <1>5, <1>6, <1>7 DEF TuneInv, SpeedAsAsked

\* What a call has to leave for the invariant to hold after it.
LEMMA TuneKept ==
  ASSUME tuneBoard' = tuneBoard, eye' = eye, TuneInv,
         Sound(tune'), BothRight(tune'), tune'.ok,
         tune'.adcControl = "user", tune'.dacSource # "pattern",
         ~loopLost' => Linked(tune'),
         tuneBoard.firTune /\ ~tune'.fir => AtRest(tune'),
         speedAsked' # 0 => tune'.speed = speedAsked'
  PROVE  TuneInv'
<1>1. Sound(tune)' /\ BothRight(tune)'
  BY WiringStays
<1>2. tuneBoard' \in TuneBoards /\ eye' \in Eyes
  BY DEF TuneInv
<1> QED
  BY <1>1, <1>2 DEF TuneInv, SpeedAsAsked, Linked, AtRest

\* The board, and what the invariant says of a chip that is set up.
LEMMA TuneFacts ==
  ASSUME TuneInv
  PROVE  /\ tuneBoard.skip \in 0..2
         /\ tune \in TuneRecs /\ CoreInv(tune) /\ Stocked(tune) /\ Sound(tune) /\ BothRight(tune)
         /\ tune.adcControl = "user" /\ tune.dacSource \in {"user", "loop"}
         /\ ~loopLost => Linked(tune)
         /\ tune.ok /\ tuneBoard.firTune /\ ~tune.fir => AtRest(tune)
         /\ speedAsked # 0 => tune.speed = speedAsked
<1>1. tuneBoard.skip \in 0..2
  BY TuneAssumption DEF TuneInv
<1>2. tune \in TuneRecs /\ CoreInv(tune) /\ Stocked(tune)
  BY DEF TuneInv, Sound
<1> QED
  BY <1>1, <1>2 DEF TuneInv, TuneRecs, Sources, SpeedAsAsked

\* Set-up and the tuning after it
LEMMA SetUpTuned_Inv ==
  ASSUME TuneInv, SetUpTuned, tuneBoard' = tuneBoard, eye' = eye
  PROVE  TuneInv'
<1> DEFINE o == [tune EXCEPT !.ok = TRUE]
           c == ChipSetup(o)
           p == PostSetup(c)
<1>1. ~tune.ok /\ tune' = p /\ tune'.ok /\ speedAsked' = speedAsked /\ loopLost' = loopLost
  BY DEF SetUpTuned
<1>2. tune = Powered /\ speedAsked = PdSpeed /\ ~loopLost
  BY <1>1 DEF TuneInv
<1>3. tune.loop = 0 /\ tune.dacSource = "user"
  BY <1>2 DEF Powered
<1>4. /\ tuneBoard.skip \in 0..2 /\ tune \in TuneRecs /\ CoreInv(tune) /\ Stocked(tune)
      /\ tune.adcControl = "user"
  BY TuneFacts
<1>5. o \in TuneRecs /\ SameDelays(tune, o) /\ SameCores(tune, o)
  BY <1>4, SetOk
<1> HIDE DEF o
<1>6. Sound(o) /\ o.loop = 0 /\ o.dacSource = "user" /\ o.adcControl = "user"
  <2>1. CoreInv(o)
    BY <1>4, <1>5 DEF CoreInv, SameCores
  <2>2. Stocked(o)
    BY <1>4, <1>5, SoundMoves
  <2> QED
    BY <1>3, <1>4, <1>5, <2>1, <2>2 DEF Sound, SameCores
<1>7. Sound(c) /\ SameLoop(o, c) /\ Linked(c)
  BY <1>4, <1>6, ChipSetupWell
<1> HIDE DEF c
<1>8. TunedWell(c, p) /\ (p.ok => p.speed = PdSpeed) /\ (~c.fir => AtRest(p))
  BY <1>4, <1>7, PostSetupWell
<1> HIDE DEF p
<1>9. /\ Sound(p) /\ BothRight(p) /\ Linked(p) /\ p.adcControl = "user" /\ p.dacSource # "pattern"
      /\ (~p.fir => AtRest(p))
  BY <1>6, <1>7, <1>8 DEF TunedWell, SameLoop
<1> QED
  BY <1>1, <1>2, <1>8, <1>9, TuneKept

\* The chip is reset and set up again.
LEMMA SetNoChMode_Inv ==
  ASSUME TuneInv, tune.ok, SetNoChMode, tuneBoard' = tuneBoard, eye' = eye
  PROVE  TuneInv'
<1> DEFINE o == [tune EXCEPT !.dacSource = "user", !.adcControl = "user", !.ok = TRUE]
           c == ChipSetup(o)
           p == PostSetup(c)
           y == [p EXCEPT !.ok = TRUE]
<1>1. /\ tune' = y /\ loopLost' = (tuneBoard.skip = 2)
      /\ speedAsked' = IF p.ok THEN PdSpeed ELSE 0
  BY DEF SetNoChMode
<1>2. tuneBoard.skip \in 0..2 /\ tune \in TuneRecs /\ CoreInv(tune) /\ Stocked(tune)
  BY TuneFacts
<1>3. /\ o \in TuneRecs /\ SameDelays(tune, o) /\ o.dacSource = "user" /\ o.adcControl = "user"
      /\ o.scratch = tune.scratch
  BY <1>2 DEF TuneRecs, SameDelays, Sources
<1> HIDE DEF o
<1>4. Sound(o)
  <2>1. CoreInv(o)
    BY <1>2, <1>3 DEF CoreInv
  <2>2. Stocked(o)
    BY <1>2, <1>3, SoundMoves
  <2> QED
    BY <1>3, <2>1, <2>2 DEF Sound
<1>5. Sound(c) /\ SameLoop(o, c)
  BY <1>2, <1>4, ChipSetupWell
<1> HIDE DEF c
<1>6. /\ TunedWell(c, p) /\ (tuneBoard.skip # 2 => Linked(p)) /\ (p.ok => p.speed = PdSpeed)
      /\ (~c.fir => AtRest(p))
  BY <1>2, <1>5, PostSetupWell
<1> HIDE DEF p
<1>7. /\ y \in TuneRecs /\ SameDelays(p, y) /\ SameRate(p, y) /\ SameCores(p, y) /\ y.ok
  BY <1>6, SetOk DEF TunedWell, Sound
<1> HIDE DEF y
<1>8. Sound(y) /\ BothRight(y)
  <2>1. Stocked(y) /\ BothRight(y)
    BY <1>6, <1>7, SoundMoves DEF TunedWell, Sound
  <2>2. CoreInv(y)
    BY <1>6, <1>7 DEF TunedWell, Sound, CoreInv, SameCores
  <2> QED
    BY <1>7, <2>1, <2>2 DEF Sound
<1>9. y.adcControl = "user" /\ y.dacSource # "pattern"
  BY <1>3, <1>5, <1>6, <1>7 DEF TunedWell, SameLoop, SameCores
<1>10. tuneBoard.skip # 2 => Linked(y)
  BY <1>6, <1>7 DEF Linked, SameCores
<1>11. ~y.fir => AtRest(y)
  BY <1>6, <1>7 DEF TunedWell, AtRest, SameDelays, SameRate
<1>12. ~loopLost' => Linked(y)
  BY <1>1, <1>10
<1>13. speedAsked' # 0 => y.speed = speedAsked'
  BY <1>1, <1>6, <1>7 DEF SameRate
<1> QED
  BY <1>1, <1>7, <1>8, <1>9, <1>11, <1>12, <1>13, TuneKept

\* A rate is set.
LEMMA SetSpeed_Inv ==
  ASSUME TuneInv, tune.ok, SetSpeed, tuneBoard' = tuneBoard, eye' = eye
  PROVE  TuneInv' /\ tune'.kept = tune.kept
<1>1. PICK s \in Speeds : tune' = SetClockChain(tune, s) /\ speedAsked' = s /\ loopLost' = loopLost
  BY DEF SetSpeed
<1> DEFINE y == SetClockChain(tune, s)
<1>2. /\ tuneBoard.skip \in 0..2 /\ Sound(tune) /\ BothRight(tune)
      /\ tune.adcControl = "user" /\ tune.dacSource \in {"user", "loop"}
      /\ ~loopLost => Linked(tune)
      /\ tuneBoard.firTune /\ ~tune.fir => AtRest(tune)
  BY TuneFacts
<1>3. /\ Sound(y) /\ y.fir = tune.fir /\ SameLoop(tune, y) /\ (Linked(tune) => Linked(y))
      /\ SameStock(tune, y) /\ y.ok = tune.ok /\ y.speed = s
      /\ (BothRight(tune) => BothRight(y))
      /\ ~ (tuneBoard.firTune /\ tune.fir) => SameDelays(tune, y)
  BY <1>2, ClockChainWell
<1> HIDE DEF y
<1>4. tuneBoard.firTune /\ ~y.fir => AtRest(y)
  BY <1>2, <1>3 DEF AtRest, SameDelays
<1>5. y.adcControl = "user" /\ y.dacSource # "pattern"
  BY <1>2, <1>3 DEF SameLoop
<1>6. tune' = y
  BY <1>1 DEF y
<1>7. y.ok /\ BothRight(y) /\ (~loopLost' => Linked(y)) /\ y.speed = speedAsked'
  BY <1>1, <1>2, <1>3
<1>8. y.kept = tune.kept
  BY <1>3 DEF SameStock
<1> QED
  BY <1>3, <1>4, <1>5, <1>6, <1>7, <1>8, TuneKept

\* The filters are switched on or off.
LEMMA SetFirOn_Inv ==
  ASSUME TuneInv, tune.ok, SetFirOn, tuneBoard' = tuneBoard, eye' = eye
  PROVE  TuneInv' /\ tune'.kept = tune.kept
<1>1. PICK on \in BOOLEAN : /\ tune' = FirEnable(tune, on)
                            /\ speedAsked' = speedAsked /\ loopLost' = loopLost
  BY DEF SetFirOn
<1> DEFINE y == FirEnable(tune, on)
           f == [tune EXCEPT !.fir = on]
<1>2. /\ tuneBoard.skip \in 0..2 /\ Sound(tune) /\ BothRight(tune)
      /\ tune.adcControl = "user" /\ tune.dacSource \in {"user", "loop"}
      /\ ~loopLost => Linked(tune)
      /\ speedAsked # 0 => tune.speed = speedAsked
  BY TuneFacts
<1>3. /\ TunedWell(f, y) /\ y.fir = on /\ y.speed = tune.speed /\ y.ok
      /\ SameStock(tune, y) /\ SameLoop(tune, y) /\ (Linked(tune) => Linked(y))
      /\ tuneBoard.firTune /\ ~on => AtRest(y)
  BY <1>2, FirEnableWell
<1> HIDE DEF y, f
<1>4. Sound(y) /\ BothRight(y) /\ y.kept = tune.kept
  BY <1>3 DEF TunedWell, SameStock
<1>5. y.adcControl = "user" /\ y.dacSource # "pattern"
  BY <1>2, <1>3 DEF SameLoop
<1>6. tune' = y
  BY <1>1 DEF y
<1>7. /\ (~loopLost' => Linked(y)) /\ (speedAsked' # 0 => y.speed = speedAsked')
      /\ (tuneBoard.firTune /\ ~y.fir => AtRest(y))
  BY <1>1, <1>2, <1>3
<1> QED
  BY <1>3, <1>4, <1>5, <1>6, <1>7, TuneKept

\* A call that moves no delays.
LEMMA Untuned_Inv ==
  ASSUME TuneInv, tune.ok, tuneBoard' = tuneBoard, eye' = eye, speedAsked' = speedAsked,
         tune' \in TuneRecs, SameDelays(tune, tune'), SameRate(tune, tune'), tune'.ok = tune.ok,
         CoreInv(tune'), tune'.adcControl = tune.adcControl, tune'.dacSource # "pattern",
         ~loopLost' => Linked(tune')
  PROVE  TuneInv' /\ tune'.kept = tune.kept
<1>1. /\ Stocked(tune) /\ BothRight(tune) /\ tune.adcControl = "user"
      /\ tuneBoard.firTune /\ ~tune.fir => AtRest(tune)
      /\ speedAsked # 0 => tune.speed = speedAsked
  BY TuneFacts
<1>2. Sound(tune') /\ BothRight(tune')
  BY <1>1, SoundMoves DEF Sound
<1>3. /\ tuneBoard.firTune /\ ~tune'.fir => AtRest(tune')
      /\ speedAsked' # 0 => tune'.speed = speedAsked'
  BY <1>1 DEF SameDelays, SameRate, AtRest
<1>4. tune'.kept = tune.kept
  BY DEF SameDelays
<1> QED
  BY <1>1, <1>2, <1>3, <1>4, TuneKept

LEMMA SetAtten_Inv ==
  ASSUME TuneInv, tune.ok, SetAtten, tuneBoard' = tuneBoard, eye' = eye
  PROVE  TuneInv' /\ tune'.kept = tune.kept
<1>1. PICK a \in {40, 120} : /\ tune' = [tune EXCEPT !.atten = a]
                             /\ speedAsked' = speedAsked /\ loopLost' = loopLost
  BY DEF SetAtten
<1> DEFINE y == [tune EXCEPT !.atten = a]
<1>2. /\ tune \in TuneRecs /\ CoreInv(tune) /\ tune.dacSource \in {"user", "loop"}
      /\ ~loopLost => Linked(tune)
  BY TuneFacts
<1>3. y \in TuneRecs /\ SameDelays(tune, y) /\ SameRate(tune, y) /\ SameCores(tune, y) /\ y.ok = tune.ok
  <2>1. a \in Nat
    BY SMT
  <2> QED
    BY <1>2, <2>1 DEF TuneRecs, SameDelays, SameRate, SameCores
<1> HIDE DEF y
<1>4. /\ CoreInv(y) /\ y.adcControl = tune.adcControl /\ y.dacSource # "pattern"
      /\ (Linked(tune) => Linked(y))
  BY <1>2, <1>3 DEF CoreInv, SameCores, Linked
<1>5. tune' = y
  BY <1>1 DEF y
<1> QED
  BY <1>1, <1>2, <1>3, <1>4, <1>5, Untuned_Inv

LEMMA SetPrbs_Inv ==
  ASSUME TuneInv, tune.ok, SetPrbs, tuneBoard' = tuneBoard, eye' = eye
  PROVE  TuneInv' /\ tune'.kept = tune.kept
<1>1. PICK p \in Patterns : /\ tune' = Prbs(tune, p)
                            /\ speedAsked' = speedAsked /\ loopLost' = loopLost
  BY DEF SetPrbs, Patterns
<1> DEFINE y == Prbs(tune, p)
<1>2. /\ tune \in TuneRecs /\ CoreInv(tune) /\ tune.dacSource \in {"user", "loop"}
      /\ ~loopLost => Linked(tune)
  BY TuneFacts
<1>3. y \in TuneRecs /\ SameDelays(tune, y) /\ SameRate(tune, y) /\ SameCores(tune, y) /\ y.ok = tune.ok
  BY <1>2, QuietSteps
<1> HIDE DEF y
<1>4. /\ CoreInv(y) /\ y.adcControl = tune.adcControl /\ y.dacSource # "pattern"
      /\ (Linked(tune) => Linked(y))
  BY <1>2, <1>3 DEF CoreInv, SameCores, Linked
<1>5. tune' = y
  BY <1>1 DEF y
<1> QED
  BY <1>1, <1>2, <1>3, <1>4, <1>5, Untuned_Inv

\* The loop is linked again, unless it was there and asked for of a new core.
LEMMA SetLoop_Inv ==
  ASSUME TuneInv, tune.ok, SetLoop, tuneBoard' = tuneBoard, eye' = eye
  PROVE  TuneInv' /\ tune'.kept = tune.kept
<1>1. PICK mode \in 0..2 :
        /\ tune' = LoopMode(tune, mode)
        /\ loopLost' = (tuneBoard.newCore /\ mode = 2 /\ tune.loop = 2)
        /\ speedAsked' = speedAsked
  BY DEF SetLoop
<1> DEFINE y == LoopMode(tune, mode)
<1>2. tune \in TuneRecs /\ CoreInv(tune) /\ tune.dacSource \in {"user", "loop"}
  BY TuneFacts
<1>3. /\ SameButCores(tune, y) /\ CoreInv(y) /\ y.loop = mode
      /\ mode # 2 => y.dacSource = (IF tune.dacSource = "loop" THEN "user" ELSE tune.dacSource)
      /\ mode # 2 \/ tune.dacSource # "loop" \/ ~tuneBoard.newCore => Linked(y)
  <2>1. tune.dacSource # "pattern"
    BY <1>2
  <2> QED
    BY <1>2, <2>1, LoopModes
<1> HIDE DEF y
<1>4. y.dacSource # "pattern"
  BY <1>2, <1>3 DEF CoreInv
<1>5. ~loopLost' => Linked(y)
  BY <1>1, <1>2, <1>3 DEF CoreInv
<1>6. tune' = y
  BY <1>1 DEF y
<1> QED
  BY <1>1, <1>3, <1>4, <1>5, <1>6, Untuned_Inv DEF SameButCores

\* The analysis of the timing goes through no loop, and back to the one there was.
LEMMA TimingScan_Inv ==
  ASSUME TuneInv, tune.ok, TimingScan, tuneBoard' = tuneBoard, eye' = eye
  PROVE  TuneInv' /\ tune'.kept = tune.kept
<1> DEFINE a == Mute(tune)
           b == LoopMode(a, 0)
           c == Prbs(b, "rx")
           d == LoopMode(c, tune.loop)
           e == [d EXCEPT !.chipBist = tune.bist]
           y == Unmute(e)
<1>1. tune' = y /\ loopLost' = loopLost /\ speedAsked' = speedAsked
  BY DEF TimingScan
<1>2. tune \in TuneRecs /\ CoreInv(tune) /\ tune.dacSource \in {"user", "loop"}
  BY TuneFacts
<1>3. tune.loop \in 0..2 /\ tune.bist \in Patterns /\ "rx" \in Patterns /\ 0 \in 0..2
  BY <1>2 DEF TuneRecs, Patterns
<1>4. a \in TuneRecs /\ SameDelays(tune, a) /\ SameRate(tune, a) /\ SameCores(tune, a) /\ a.ok = tune.ok
  BY <1>2, <1>3, QuietSteps
<1> HIDE DEF a
<1>5. CoreInv(a) /\ a.dacSource # "pattern"
  BY <1>2, <1>4 DEF CoreInv, SameCores
<1>6. /\ SameButCores(a, b) /\ CoreInv(b)
      /\ b.dacSource = (IF a.dacSource = "loop" THEN "user" ELSE a.dacSource)
  <2>1. 0 # 2
    OBVIOUS
  <2> QED
    BY <1>3, <1>4, <1>5, <2>1, LoopModes
<1> HIDE DEF b
<1>7. c \in TuneRecs /\ SameDelays(b, c) /\ SameRate(b, c) /\ SameCores(b, c) /\ c.ok = b.ok
  BY <1>3, <1>6, QuietSteps DEF SameButCores
<1> HIDE DEF c
<1>8. CoreInv(c) /\ c.dacSource = "user"
  <2>1. a.dacSource \in {"user", "loop"}
    BY <1>2, <1>4 DEF SameCores
  <2> QED
    BY <1>6, <1>7, <2>1 DEF CoreInv, SameCores
<1>9. /\ SameButCores(c, d) /\ CoreInv(d) /\ Linked(d) /\ d.loop = tune.loop
      /\ tune.loop # 2 => d.dacSource = "user"
  <2>1. c.dacSource # "loop" /\ c.dacSource # "pattern"
    BY <1>8
  <2> QED
    BY <1>3, <1>7, <1>8, <2>1, LoopModes
<1> HIDE DEF d
<1>10. e \in TuneRecs /\ SameDelays(d, e) /\ SameRate(d, e) /\ SameCores(d, e) /\ e.ok = d.ok
  BY <1>3, <1>9, QuietSteps DEF SameButCores
<1> HIDE DEF e
<1>11. y \in TuneRecs /\ SameDelays(e, y) /\ SameRate(e, y) /\ SameCores(e, y) /\ y.ok = e.ok
  BY <1>3, <1>10, QuietSteps
<1> HIDE DEF y
<1>12. SameDelays(tune, y) /\ SameRate(tune, y) /\ y.ok = tune.ok /\ y.adcControl = tune.adcControl
  BY <1>4, <1>6, <1>7, <1>9, <1>10, <1>11 DEF SameDelays, SameRate, SameCores, SameButCores
<1>13. CoreInv(y) /\ Linked(y) /\ y.dacSource # "pattern"
  <2>1. SameCores(d, y)
    BY <1>10, <1>11 DEF SameCores
  <2> QED
    BY <1>9, <2>1 DEF CoreInv, Linked, SameCores
<1> QED
  BY <1>1, <1>11, <1>12, <1>13, Untuned_Inv

\* Every step keeps the invariant, and what is kept of set-up unless the chip is set up.
LEMMA TuneNext_Inv ==
  TuneInv /\ [TuneNext]_tuneVars =>
    /\ TuneInv'
    /\ [\A side \in TuneSides : tune.kept'[side] = tune.kept[side] \/ ~tune.ok \/ SetNoChMode]_tuneVars
<1> SUFFICES ASSUME TuneInv, [TuneNext]_tuneVars
             PROVE  /\ TuneInv'
                    /\ [\A side \in TuneSides :
                          tune.kept'[side] = tune.kept[side] \/ ~tune.ok \/ SetNoChMode]_tuneVars
  OBVIOUS
<1>1. CASE UNCHANGED tuneVars
  <2>1. /\ tune' = tune /\ tuneBoard' = tuneBoard /\ eye' = eye
        /\ loopLost' = loopLost /\ speedAsked' = speedAsked
    BY <1>1 DEF tuneVars
  <2>2. Sound(tune)' /\ BothRight(tune)'
    BY <2>1, WiringStays DEF TuneInv
  <2>3. TuneInv'
    BY <2>1, <2>2 DEF TuneInv, SpeedAsAsked, Linked, AtRest
  <2> QED
    BY <1>1, <2>3
<1>2. CASE TuneNext
  <2>1. tuneBoard' = tuneBoard /\ eye' = eye
    BY <1>2 DEF TuneNext
  <2>2. CASE SetUpTuned
    <3>1. ~tune.ok
      BY <2>2 DEF SetUpTuned
    <3> QED
      BY <2>1, <2>2, <3>1, SetUpTuned_Inv
  <2>3. CASE tune.ok /\ SetNoChMode
    BY <2>1, <2>3, SetNoChMode_Inv
  <2>4. CASE tune.ok /\ (SetSpeed \/ SetFirOn \/ SetAtten \/ SetPrbs \/ SetLoop \/ TimingScan)
    <3>1. TuneInv' /\ tune'.kept = tune.kept
      BY <2>1, <2>4, SetSpeed_Inv, SetFirOn_Inv, SetAtten_Inv, SetPrbs_Inv, SetLoop_Inv, TimingScan_Inv
    <3> QED
      BY <3>1
  <2> QED
    BY <1>2, <2>2, <2>3, <2>4 DEF TuneNext
<1> QED
  BY <1>1, <1>2

\* The delays of the data interface that were found for the filters in use are the
\* middle of a run of delays that pass at every rate they were found for, and no run is
\* longer (ad9361_dig_tune_delay, ad9361_find_opt), whatever rate is set and however the
\* tunings since ended.
THEOREM DelaysPass == TuneSpec => []FoundDelaysPass
<1>1. TuneInv => FoundDelaysPass
  BY TuneInvGives
<1> QED
  BY TuneInit_Inv, TuneNext_Inv, <1>1, PTL DEF TuneSpec

\* Of what a tuning changes for its own use, the delays of the filters go with the
\* filters, the cores and loops work for the user again and the rate is the user's
\* (ad9361_dig_tune, ad9361_validate_enable_fir, ad9361_post_setup).
THEOREM NoTraceOfTuning == TuneSpec => TuningLeavesNoTrace
<1>1. TuneInv => DelaysOfSetup /\ CoresRestored /\ SpeedAsAsked
  BY TuneInvGives
<1> QED
  BY TuneInit_Inv, TuneNext_Inv, <1>1, PTL DEF TuneSpec, TuningLeavesNoTrace, KeptOfSetup

-----------------------------------------------------------------------------
(* Words and numbers.                                                      *)

\* A word of a line, or one that is printed.
TypedWords == [neg : BOOLEAN, hex : BOOLEAN, digits : Seq(0 .. 16)]

\* The base a word is read in.
BaseOf(w) == IF w.hex THEN 16 ELSE 10

\* The value of a word, character by character.
Valued(w, v) ==
  /\ v \in [0 .. Len(w.digits) -> Int] /\ v[0] = 0
  /\ \A i \in 1 .. Len(w.digits) :
       v[i] = IF Over(w, i) THEN v[i - 1] ELSE BaseOf(w) * v[i - 1] + w.digits[i]

\* ReadWord is the last of these values, with its sign.
LEMMA ReadWordValue ==
  ASSUME NEW w \in TypedWords
  PROVE  \E v : Valued(w, v) /\ ReadWord(w) = IF w.neg THEN -v[Len(w.digits)] ELSE v[Len(w.digits)]
<1> DEFINE n == Len(w.digits)
           base == IF w.hex THEN 16 ELSE 10
           F == [i \in 0 .. n |-> [x \in Int |->
                   IF i = 0 THEN x ELSE IF Over(w, i) THEN x ELSE base * x + w.digits[i]]]
           value == CHOOSE g : g = [i \in 0 .. n |->
                      IF i = 0 THEN 0 ELSE IF Over(w, i) THEN g[i - 1] ELSE base * g[i - 1] + w.digits[i]]
<1>1. w.digits \in Seq(0 .. 16) /\ n \in Nat
  BY DEF TypedWords
<1>0. \A i \in 1 .. n : w.digits[i] \in Int
  BY <1>1
<1>2. F \in [0 .. n -> [Int -> Int]]
  <2>1. ASSUME NEW i \in 0 .. n, NEW x \in Int, i # 0
        PROVE  base * x + w.digits[i] \in Int
    <3>1. i \in 1 .. n
      BY <2>1, <1>1
    <3>2. w.digits[i] \in Int
      BY <3>1, <1>0
    <3>3. base * x \in Int
      OBVIOUS
    <3> QED
      BY <3>2, <3>3
  <2> HIDE DEF base, n
  <2> QED
    BY <2>1
<1>3. \E g \in [0 .. n -> Int] : UpFrom(g, 0, n, 0, F)
  <2>1. n \in Int /\ 0 \in Int /\ 0 <= n
    BY <1>1
  <2> HIDE DEF F, n, value
  <2> QED
    BY <2>1, <1>2, RecursionUp
<1>4. PICK g \in [0 .. n -> Int] : UpFrom(g, 0, n, 0, F)
  BY <1>3
<1>5. g = [i \in 0 .. n |->
             IF i = 0 THEN 0 ELSE IF Over(w, i) THEN g[i - 1] ELSE base * g[i - 1] + w.digits[i]]
  <2>1. ASSUME NEW i \in 0 .. n
        PROVE  g[i] = IF i = 0 THEN 0
                      ELSE IF Over(w, i) THEN g[i - 1] ELSE base * g[i - 1] + w.digits[i]
    <3>1. CASE i = 0
      BY <3>1, <1>4 DEF UpFrom
    <3>2. CASE i # 0
      <4>1. i \in 0 + 1 .. n /\ i - 1 \in 0 .. n
        BY <3>2, <1>1
      <4>2. g[i] = F[i][g[i - 1]] /\ g[i - 1] \in Int
        BY <4>1, <1>4 DEF UpFrom
      <4> HIDE DEF n, base
      <4> QED
        BY <4>2, <3>2
    <3> QED
      BY <3>1, <3>2
  <2> HIDE DEF n, base
  <2> QED
    BY <2>1
<1>6. value = [i \in 0 .. n |->
             IF i = 0 THEN 0 ELSE IF Over(w, i) THEN value[i - 1] ELSE base * value[i - 1] + w.digits[i]]
  <2> HIDE DEF n, base
  <2> QED
    BY <1>5
<1>7. ReadWord(w) = IF w.neg THEN -value[n] ELSE value[n]
  BY DEF ReadWord
<1>8. value[0] = 0 /\ \A i \in 1 .. n :
        value[i] = IF Over(w, i) THEN value[i - 1] ELSE base * value[i - 1] + w.digits[i]
  <2> HIDE DEF value, base, n
  <2>1. 0 \in 0 .. n /\ \A i \in 1 .. n : i \in 0 .. n /\ i # 0
    BY <1>1
  <2> QED
    BY <1>6, <2>1
<1> HIDE DEF value
<1>9. value \in [0 .. n -> Int]
  <2> DEFINE T == {i \in 0 .. n : value[i] \in Int}
  <2>1. 0 \in T
    BY <1>1, <1>8
  <2>2. ASSUME NEW i \in 0 .. n - 1, i \in T PROVE i + 1 \in T
    <3>1. i + 1 \in 1 .. n /\ (i + 1) - 1 = i /\ i + 1 \in 0 .. n /\ value[i] \in Int
      BY <2>2, <1>1
    <3>2. base * value[i] + w.digits[i + 1] \in Int
      <4>1. w.digits[i + 1] \in Int
        BY <3>1, <1>0
      <4>2. base * value[i] \in Int
        BY <3>1
      <4> QED
        BY <4>1, <4>2
    <3> HIDE DEF n, base
    <3> QED
      BY <3>1, <3>2, <1>8
  <2>3. n \in Int /\ 0 \in Int
    BY <1>1
  <2> HIDE DEF T, n
  <2>4. \A i \in 0 .. n : i \in T
    BY <2>1, <2>2, <2>3, InductionUp
  <2> QED
    BY <2>4, <1>6 DEF T
<1>10. Valued(w, value)
  BY <1>8, <1>9 DEF Valued, BaseOf
<1> QED
  BY <1>7, <1>10

\* A word is read as a number.
LEMMA ReadWordInt ==
  ASSUME NEW w \in TypedWords
  PROVE  ReadWord(w) \in Int
<1>1. PICK v : Valued(w, v) /\ ReadWord(w) = IF w.neg THEN -v[Len(w.digits)] ELSE v[Len(w.digits)]
  BY ReadWordValue
<1>2. Len(w.digits) \in 0 .. Len(w.digits)
  BY DEF TypedWords
<1>3. v[Len(w.digits)] \in Int
  BY <1>1, <1>2 DEF Valued
<1> QED
  BY <1>1, <1>3

\* Each round takes a digit, and after the last nothing is left.
-----------------------------------------------------------------------------
(* The words of the cores.                                                 *)

\* An increment is in tune with its frequency, below the rate.
LEMMA IncrInTune ==
  ASSUME NEW rate \in Positive, NEW f \in Int
  PROVE  /\ IncrWord(f, rate) \in Int
         /\ f \in 0 .. rate - 1 =>
              f * 65536 - IncrWord(f, rate) * rate \in (f - rate) .. (f + rate - 1)
<1> DEFINE n == f * 65535
           q == n \div rate
           r == n % rate
           word == q % 65536
<1>1. rate \in Int /\ rate >= 1
  BY DEF Positive
<1>2. q \in Int /\ r \in 0 .. rate - 1 /\ n = q * rate + r /\ (n >= 0 => q >= 0)
  <2>1. n \in Int
    OBVIOUS
  <2> HIDE DEF n
  <2> QED
    BY <2>1, Division
<1>3. IncrWord(f, rate) = IF word % 2 = 0 THEN word + 1 ELSE word
  BY DEF IncrWord
<1>4. word \in Int
  <2> HIDE DEF q
  <2> QED
    BY <1>2
<1>5. IncrWord(f, rate) \in Int
  <2> HIDE DEF word
  <2> QED
    BY <1>3, <1>4
<1>6. ASSUME f \in 0 .. rate - 1
      PROVE  f * 65536 - IncrWord(f, rate) * rate \in (f - rate) .. (f + rate - 1)
  <2>1. n >= 0 /\ n <= rate * 65535 - 65535 /\ n \in Int
    BY <1>6, <1>1
  <2>2. q < 65535
    <3>1. SUFFICES ASSUME q >= 65535 PROVE FALSE
      <4> HIDE DEF q
      <4> QED
        BY <1>2
    <3> HIDE DEF q, n, r
    <3>2. 65535 * rate <= q * rate
      BY <3>1, <1>1, <1>2, ProductOrder
    <3>3. q * rate \in Int
      BY <1>1, <1>2
    <3> QED
      BY <3>2, <3>3, <2>1, <1>1, <1>2
  <2>3. word = q
    <3> HIDE DEF q, n, r
    <3> QED
      BY <2>1, <2>2, <1>2
  <2>4. f * 65536 = n + f /\ f \in Int
    BY <1>6
  <2> HIDE DEF q, n, r, word
  <2> DEFINE p == q * rate
  <2>5. p \in Int /\ (q + 1) * rate = p + rate /\ n = p + r
    BY <1>1, <1>2
  <2>6. IncrWord(f, rate) = q \/ IncrWord(f, rate) = q + 1
    BY <1>3, <2>3
  <2>7. IncrWord(f, rate) * rate = p \/ IncrWord(f, rate) * rate = p + rate
    BY <2>5, <2>6
  <2> HIDE DEF p
  <2> DEFINE z == IncrWord(f, rate) * rate
             y == f * 65536
  <2> HIDE DEF z, y
  <2>8. (z = p \/ z = p + rate) /\ y = n + f
    BY <2>7, <2>4 DEF z, y
  <2>9. y - z \in (f - rate) .. (f + rate - 1)
    BY <2>8, <2>5, <1>2, <1>1
  <2> QED
    BY <2>9 DEF z, y
<1> QED
  BY <1>5, <1>6

\* The words of phases a quarter period apart are.
LEMMA QuarterPeriod ==
  ASSUME NEW p \in Int
  PROVE  /\ PhaseWord(p) \in Int
         /\ (PhaseWord(p + 90000) - PhaseWord(p)) % 65536 = 16384
         /\ (PhaseWord(p) - PhaseWord(p + 270000)) % 65536 = 16384
<1> DEFINE q == (p * 2048 + 5625) \div 11250
           r == (p * 2048 + 5625) % 11250
<1>1. q \in Int /\ r \in Int /\ 0 <= r /\ r < 11250 /\ p * 2048 + 5625 = q * 11250 + r
  OBVIOUS
<1>2. ((p + 90000) * 2048 + 5625) \div 11250 = q + 16384
  <2>1. (p + 90000) * 2048 + 5625 = (q + 16384) * 11250 + r
    BY <1>1
  <2> HIDE DEF q, r
  <2> DEFINE n == (p + 90000) * 2048 + 5625
  <2>2. n = (q + 16384) * 11250 + r
    BY <2>1
  <2> HIDE DEF n
  <2>3. n \div 11250 = q + 16384
    BY <2>2, <1>1
  <2> QED
    BY <2>3 DEF n
<1>3. ((p + 270000) * 2048 + 5625) \div 11250 = q + 49152
  <2>1. (p + 270000) * 2048 + 5625 = (q + 49152) * 11250 + r
    BY <1>1
  <2> HIDE DEF q, r
  <2> DEFINE n == (p + 270000) * 2048 + 5625
  <2>2. n = (q + 49152) * 11250 + r
    BY <2>1
  <2> HIDE DEF n
  <2>3. n \div 11250 = q + 49152
    BY <2>2, <1>1
  <2> QED
    BY <2>3 DEF n
<1>4. /\ PhaseWord(p) = q % 65536 /\ PhaseWord(p + 90000) = (q + 16384) % 65536
      /\ PhaseWord(p + 270000) = (q + 49152) % 65536
  <2>1. PhaseWord(p) = q % 65536
    BY DEF PhaseWord
  <2> HIDE DEF q
  <2>2. PhaseWord(p + 90000) = (q + 16384) % 65536
    BY <1>2 DEF PhaseWord
  <2>3. PhaseWord(p + 270000) = (q + 49152) % 65536
    BY <1>3 DEF PhaseWord
  <2> QED
    BY <2>1, <2>2, <2>3
<1> HIDE DEF q, r
<1>5. /\ q % 65536 \in Int
      /\ (((q + 16384) % 65536) - (q % 65536)) % 65536 = 16384
      /\ ((q % 65536) - ((q + 49152) % 65536)) % 65536 = 16384
  BY <1>1
<1> QED
  BY <1>4, <1>5

\* A scale and its word: sign and magnitude, or a divisor.
ScaleHolds(s, m) ==
  IF dacBoard.version > 6
  THEN LET lost == Magnitude(s) * 256 - (m % 32768) * 15625
       IN lost >= 0 /\ lost < 15625 /\ (s < 0 <=> m >= 32768)
  ELSE s >= 8 => 500000 - m * s \in 0 .. (s - 1)

\* The scale that is kept, of any, is the one its word stands for.
LEMMA ScaleWordHolds ==
  ASSUME NEW t \in Int, dacBoard.version \in Nat
  PROVE  /\ ScaleKept(t) \in Int /\ ScaleKept(ScaleKept(t)) = ScaleKept(t)
         /\ dacBoard.version > 6 \/ ScaleKept(t) # 0 =>
              ScaleWord(ScaleKept(t)) \in Int /\ ScaleHolds(ScaleKept(t), ScaleWord(ScaleKept(t)))
<1> DEFINE s == ScaleKept(t)
<1>1. CASE dacBoard.version > 6
  <2>1. s \in Int /\ -1000000 <= s /\ s <= 1000000 /\ ScaleKept(s) = s
    BY <1>1 DEF ScaleKept
  <2> HIDE DEF s
  <2> DEFINE a == Magnitude(s)
             k == (a * 256) \div 15625
             sign == IF s < 0 THEN 32768 ELSE 0
  <2>2. a \in Int /\ 0 <= a /\ a <= 1000000
    BY <2>1 DEF Magnitude
  <2>3. ScaleWord(s) = sign + k
    BY <1>1 DEF ScaleWord
  <2> HIDE DEF a
  <2>4. k \in Int /\ 0 <= k /\ k <= 16384 /\ 0 <= a * 256 - k * 15625 /\ a * 256 - k * 15625 < 15625
    BY <2>2
  <2> HIDE DEF k
  <2>5. (sign + k) % 32768 = k /\ sign + k \in Int /\ (s < 0 <=> sign + k >= 32768)
    BY <2>4, <2>1
  <2>6. ScaleHolds(s, ScaleWord(s))
    <3> DEFINE m == ScaleWord(s)
    <3> HIDE DEF m
    <3>1. m % 32768 = k /\ (s < 0 <=> m >= 32768)
      BY <2>3, <2>5 DEF m
    <3>2. ScaleHolds(s, m)
      BY <3>1, <2>4, <1>1 DEF ScaleHolds, a
    <3> QED
      BY <3>2 DEF m
  <2>7. s \in Int /\ ScaleKept(s) = s /\ ScaleWord(s) \in Int /\ ScaleHolds(s, ScaleWord(s))
    BY <2>1, <2>3, <2>5, <2>6
  <2> QED
    BY <2>7 DEF s
<1>2. CASE ~(dacBoard.version > 6)
  <2>1. s \in Int /\ 0 <= s /\ s <= 1000000 /\ ScaleKept(s) = s
    BY <1>2 DEF ScaleKept
  <2> HIDE DEF s
  <2>2. ASSUME s # 0 PROVE ScaleWord(s) \in Int /\ ScaleHolds(s, ScaleWord(s))
    <3> DEFINE k == 500000 \div s
               top == 500000
    <3>1. ScaleWord(s) = k % 65536
      BY <1>2 DEF ScaleWord
    <3>2. s \in Positive /\ s >= 1 /\ top \in Int
      BY <2>1, <2>2 DEF Positive
    <3>3. k \in Int /\ k >= 0 /\ top % s \in 0 .. s - 1 /\ top = k * s + (top % s)
      <4>1. top >= 0
        OBVIOUS
      <4> HIDE DEF top
      <4>2. top \div s \in Int /\ top \div s >= 0 /\ top % s \in 0 .. s - 1 /\ top = (top \div s) * s + (top % s)
        BY <4>1, <3>2, Division
      <4> QED
        BY <4>2 DEF top
    <3> DEFINE rest == top % s
    <3> HIDE DEF k, rest
    <3>4. rest \in 0 .. s - 1 /\ 500000 = k * s + rest
      BY <3>3 DEF rest
    <3>5. ScaleWord(s) \in Int
      BY <3>1, <3>3
    <3>6. ASSUME s >= 8 PROVE 500000 - ScaleWord(s) * s \in 0 .. (s - 1)
      <4>1. k < 65536
        <5>1. SUFFICES ASSUME k >= 65536 PROVE FALSE
          BY <3>3
        <5>2. k * 8 <= k * s
          BY <3>3, <3>6, <2>1
        <5>3. k * s \in Int
          BY <3>3, <2>1
        <5> QED
          BY <5>1, <5>2, <5>3, <3>4, <3>3, <2>1
      <4>2. ScaleWord(s) = k
        BY <4>1, <3>1, <3>3
      <4>3. k * s \in Int
        BY <3>3, <2>1
      <4> QED
        BY <4>2, <4>3, <3>4, <2>1
    <3> QED
      BY <3>5, <3>6, <1>2 DEF ScaleHolds
  <2> QED
    BY <2>1, <2>2, <1>2 DEF s
<1> QED
  BY <1>1, <1>2

\* What a correction reads back as, and how far this is from it.
ReadsAs(x, word) ==
  LET got == FromSignedMag(word)
  IN x[1] = 0 \/ x[2] < 999970 =>
       Magnitude((got[1] - x[1]) * 1000000 + got[2] - x[2]) <= 31

\* The word of a correction reads back as the correction.
LEMMA CorrectionWord ==
  ASSUME NEW val \in {-1, 0, 1}, NEW val2 \in Int, Magnitude(val2) < 1000000,
         val # 0 => val2 >= 0
  PROVE  ToSignedMag(val, val2) \in Int /\ ReadsAs(<<val, val2>>, ToSignedMag(val, val2))
<1> DEFINE a == Magnitude(val2)
           fract == (a * 512 + 15625) \div 31250
           head == CASE val = 1 -> 16384 [] val = -1 -> 49152
                     [] OTHER -> IF val2 < 0 THEN 32768 ELSE 0
           word == ToSignedMag(val, val2)
           got == FromSignedMag(word)
           back(k) == ((k * 15625) + 128) \div 256
<1>1. a \in Int /\ 0 <= a /\ a < 1000000 /\ (val2 < 0 => val2 = -a) /\ (val2 >= 0 => val2 = a)
  BY DEF Magnitude
<1> HIDE DEF a
<1>2. fract \in Int /\ 0 <= fract /\ fract <= 16384 /\ (a < 999970 => fract < 16384)
  BY <1>1
<1>3. /\ back(fract) - a <= 31 /\ a - back(fract) <= 31 /\ back(fract) \in Int
      /\ fract = 16384 => 1000000 - a <= 31
  BY <1>1
<1>4. word = IF val # 0 /\ fract = 16384 THEN head ELSE head + fract
  BY DEF ToSignedMag, a
<1> HIDE DEF word
<1> DEFINE sign == IF word >= 32768 THEN -1 ELSE 1
           first == IF (word \div 16384) % 2 = 1 THEN sign ELSE 0
           second == ((word % 16384) * 15625 + 128) \div 256
<1>5. got = <<first, IF first = 0 THEN sign * second ELSE second>>
  BY DEF FromSignedMag
<1> HIDE DEF fract
<1>6. ASSUME val = 0 \/ val2 < 999970
      PROVE  /\ word \in Int
             /\ Magnitude((got[1] - val) * 1000000 + got[2] - val2) <= 31
  <2>1. CASE val # 0
    <3>1. a < 999970 /\ fract < 16384 /\ val2 = a
      BY <2>1, <1>6, <1>1, <1>2
    <3>2. word = head + fract /\ head = (IF val = 1 THEN 16384 ELSE 49152)
      BY <2>1, <3>1, <1>4
    <3> HIDE DEF head
    <3>3. first = val /\ word % 16384 = fract /\ word \in Int
      BY <3>2, <3>1, <1>2, <2>1
    <3> HIDE DEF first, sign
    <3>4. second = back(fract)
      BY <3>3
    <3> HIDE DEF second, back
    <3>5. got[1] = val /\ got[2] = back(fract)
      BY <1>5, <3>3, <3>4, <2>1
    <3> HIDE DEF got
    <3> QED
      BY <3>5, <3>3, <3>1, <1>3, <1>1 DEF Magnitude
  <2>2. CASE val = 0 /\ fract < 16384
    <3>1. word = (IF val2 < 0 THEN 32768 ELSE 0) + fract
      BY <2>2, <1>4
    <3>2. first = 0 /\ word % 16384 = fract /\ word \in Int /\ sign = (IF val2 < 0 THEN -1 ELSE 1)
      BY <3>1, <2>2, <1>2
    <3> HIDE DEF first, sign
    <3>4. second = back(fract)
      BY <3>2
    <3> HIDE DEF second, back
    <3>5. got[1] = 0 /\ got[2] = (IF val2 < 0 THEN -back(fract) ELSE back(fract))
      BY <1>5, <3>2, <3>4, <1>3
    <3> HIDE DEF got
    <3> QED
      BY <3>5, <3>2, <2>2, <1>3, <1>1 DEF Magnitude
  <2>3. CASE val = 0 /\ fract = 16384
    <3>1. word = IF val2 < 0 THEN 49152 ELSE 16384
      BY <2>3, <1>4
    <3>2. first = (IF val2 < 0 THEN -1 ELSE 1) /\ second = 0 /\ word \in Int
      BY <3>1
    <3> HIDE DEF first, sign, second
    <3>3. got[1] = first /\ got[2] = 0
      BY <1>5, <3>2
    <3> HIDE DEF got
    <3> QED
      BY <3>2, <3>3, <2>3, <1>3, <1>1 DEF Magnitude
  <2> QED
    BY <2>1, <2>2, <2>3, <1>2
<1>7. word \in Int
  BY <1>4, <1>2
<1> QED
  BY <1>6, <1>7 DEF ReadsAs, word, got

-----------------------------------------------------------------------------
(* The tone generators.                                                    *)

\* The states of the cores.
ToneWords == [0 .. 7 -> Int]
Playable == {<<>>, Played(TRUE), Played(FALSE)}
DacStates ==
  [rate : Positive, two : BOOLEAN, freq : ToneWords, phase : ToneWords, scale : ToneWords,
   incr : ToneWords, init : ToneWords, mag : ToneWords, enable : BOOLEAN, on : BOOLEAN,
   sel : [0 .. 7 -> {"none", "dds", "dma"}], r1 : BOOLEAN, pace : Int, played : Playable,
   coeff : [0 .. 3 -> [1 .. 2 -> Int]], adc : SUBSET (0 .. 3), dead : BOOLEAN]

\* All but the tones, and whether they run, is as it was; they run on if they ran and
\* are enabled.
SameCore(d, e) ==
  /\ e \in DacStates
  /\ e.rate = d.rate /\ e.two = d.two /\ e.enable = d.enable /\ e.sel = d.sel /\ e.r1 = d.r1
  /\ e.pace = d.pace /\ e.played = d.played /\ e.coeff = d.coeff /\ e.adc = d.adc
  /\ d.enable /\ d.on => e.on
\* The tone of c is as it was.
SameTone(d, e, c) ==
  /\ e.freq[c] = d.freq[c] /\ e.incr[c] = d.incr[c] /\ e.phase[c] = d.phase[c]
  /\ e.init[c] = d.init[c] /\ e.scale[c] = d.scale[c] /\ e.mag[c] = d.mag[c]
\* Only the tone of c may differ.
OneTone(d, e, c) == SameCore(d, e) /\ \A k \in 0 .. 7 : k # c => SameTone(d, e, k)

\* The generators are restarted as they are.
LEMMA RestartedSame ==
  ASSUME NEW d \in DacStates
  PROVE  LET e == Restarted(d)
         IN  /\ SameCore(d, e) /\ (d.enable => e.on) /\ e.dead = d.dead
             /\ e.freq = d.freq /\ e.incr = d.incr /\ e.phase = d.phase /\ e.init = d.init
             /\ e.scale = d.scale /\ e.mag = d.mag
<1> DEFINE b == IF OldCore THEN d.enable ELSE TRUE
<1>1. b \in BOOLEAN /\ (d.enable => b)
  BY DEF DacStates
<1>2. Restarted(d) = [d EXCEPT !.on = b]
  BY DEF Restarted
<1> HIDE DEF b
<1> DEFINE e == [d EXCEPT !.on = b]
<1>3. e \in DacStates
  BY <1>1 DEF DacStates
<1>4. /\ e.rate = d.rate /\ e.two = d.two /\ e.enable = d.enable /\ e.sel = d.sel /\ e.r1 = d.r1
      /\ e.pace = d.pace /\ e.played = d.played /\ e.coeff = d.coeff /\ e.adc = d.adc
      /\ e.dead = d.dead
      /\ e.freq = d.freq /\ e.incr = d.incr /\ e.phase = d.phase /\ e.init = d.init
      /\ e.scale = d.scale /\ e.mag = d.mag /\ e.on = b
  BY DEF DacStates
<1> HIDE DEF e
<1> QED
  BY <1>1, <1>2, <1>3, <1>4 DEF SameCore, e

\* dds_set_frequency
LEMMA ToneFrequencySets ==
  ASSUME NEW d \in DacStates, NEW c \in 0 .. 7, NEW f \in Int
  PROVE  LET e == ToneFrequency(d, c, f)
         IN  /\ OneTone(d, e, c) /\ e.dead = d.dead
             /\ e.freq[c] = f /\ e.incr[c] = IncrWord(f, d.rate)
             /\ e.phase[c] = d.phase[c] /\ e.init[c] = d.init[c]
             /\ e.scale[c] = d.scale[c] /\ e.mag[c] = d.mag[c]
<1> DEFINE w == IncrWord(f, d.rate)
           g == [d EXCEPT !.freq[c] = f, !.incr[c] = w]
           e == ToneFrequency(d, c, f)
<1>1. w \in Int
  BY IncrInTune DEF DacStates
<1>2. e = Restarted(g)
  BY DEF ToneFrequency
<1> HIDE DEF w, e
<1>3. /\ g \in DacStates /\ g.dead = d.dead
      /\ g.rate = d.rate /\ g.two = d.two /\ g.enable = d.enable /\ g.sel = d.sel /\ g.r1 = d.r1
      /\ g.pace = d.pace /\ g.played = d.played /\ g.coeff = d.coeff /\ g.adc = d.adc /\ g.on = d.on
      /\ g.freq = [d.freq EXCEPT ![c] = f] /\ g.incr = [d.incr EXCEPT ![c] = w]
      /\ g.phase = d.phase /\ g.init = d.init /\ g.scale = d.scale /\ g.mag = d.mag
  BY <1>1 DEF DacStates, ToneWords
<1>4. d.freq \in ToneWords /\ d.incr \in ToneWords
  BY DEF DacStates
<1> HIDE DEF g
<1>5. /\ SameCore(g, e) /\ e.dead = g.dead
      /\ e.freq = g.freq /\ e.incr = g.incr /\ e.phase = g.phase /\ e.init = g.init
      /\ e.scale = g.scale /\ e.mag = g.mag
  BY <1>2, <1>3, RestartedSame
<1>6. SameCore(d, e)
  BY <1>3, <1>5 DEF SameCore
<1>7. \A k \in 0 .. 7 : k # c => SameTone(d, e, k)
  BY <1>3, <1>4, <1>5 DEF SameTone, ToneWords
<1> QED
  BY <1>3, <1>4, <1>5, <1>6, <1>7 DEF OneTone, ToneWords, w, e

\* dds_set_phase
LEMMA TonePhaseSets ==
  ASSUME NEW d \in DacStates, NEW c \in 0 .. 7, NEW p \in Int
  PROVE  LET e == TonePhase(d, c, p)
         IN  /\ OneTone(d, e, c) /\ e.dead = d.dead
             /\ e.phase[c] = p /\ e.init[c] = PhaseWord(p)
             /\ e.freq[c] = d.freq[c] /\ e.incr[c] = d.incr[c]
             /\ e.scale[c] = d.scale[c] /\ e.mag[c] = d.mag[c]
<1> DEFINE w == PhaseWord(p)
           g == [d EXCEPT !.phase[c] = p, !.init[c] = w]
           e == TonePhase(d, c, p)
<1>1. w \in Int
  BY QuarterPeriod
<1>2. e = Restarted(g)
  BY DEF TonePhase
<1> HIDE DEF w, e
<1>3. /\ g \in DacStates /\ g.dead = d.dead
      /\ g.rate = d.rate /\ g.two = d.two /\ g.enable = d.enable /\ g.sel = d.sel /\ g.r1 = d.r1
      /\ g.pace = d.pace /\ g.played = d.played /\ g.coeff = d.coeff /\ g.adc = d.adc /\ g.on = d.on
      /\ g.phase = [d.phase EXCEPT ![c] = p] /\ g.init = [d.init EXCEPT ![c] = w]
      /\ g.freq = d.freq /\ g.incr = d.incr /\ g.scale = d.scale /\ g.mag = d.mag
  BY <1>1 DEF DacStates, ToneWords
<1>4. d.phase \in ToneWords /\ d.init \in ToneWords
  BY DEF DacStates
<1> HIDE DEF g
<1>5. /\ SameCore(g, e) /\ e.dead = g.dead
      /\ e.freq = g.freq /\ e.incr = g.incr /\ e.phase = g.phase /\ e.init = g.init
      /\ e.scale = g.scale /\ e.mag = g.mag
  BY <1>2, <1>3, RestartedSame
<1>6. SameCore(d, e)
  BY <1>3, <1>5 DEF SameCore
<1>7. \A k \in 0 .. 7 : k # c => SameTone(d, e, k)
  BY <1>3, <1>4, <1>5 DEF SameTone, ToneWords
<1> QED
  BY <1>3, <1>4, <1>5, <1>6, <1>7 DEF OneTone, ToneWords, w, e

\* dds_set_scale: the scale and its word agree, or the driver stopped.
LEMMA ToneScaleSets ==
  ASSUME NEW d \in DacStates, NEW c \in 0 .. 7, NEW s \in Int, dacBoard.version \in Nat
  PROVE  LET e == ToneScale(d, c, s)  kept == ScaleKept(s)
         IN  /\ OneTone(d, e, c)
             /\ e.phase[c] = d.phase[c] /\ e.init[c] = d.init[c]
             /\ e.freq[c] = d.freq[c] /\ e.incr[c] = d.incr[c]
             /\ e.scale[c] = kept
             /\ IF dacBoard.version <= 6 /\ kept = 0 THEN e.dead
                ELSE /\ e.dead = d.dead /\ e.mag[c] = ScaleWord(kept)
                     /\ ScaleHolds(kept, ScaleWord(kept))
<1> DEFINE kept == ScaleKept(s)
           w == ScaleWord(kept)
           e == ToneScale(d, c, s)
<1>1. kept \in Int /\ (~(dacBoard.version <= 6 /\ kept = 0) => w \in Int /\ ScaleHolds(kept, w))
  BY ScaleWordHolds
<1>2. d.scale \in ToneWords /\ d.mag \in ToneWords
  BY DEF DacStates
<1>3. CASE dacBoard.version <= 6 /\ kept = 0
  <2> DEFINE yes == TRUE
             no == 0
             g == [d EXCEPT !.scale[c] = no, !.dead = yes]
  <2>1. e = g
    BY <1>3 DEF ToneScale
  <2>2. yes \in BOOLEAN /\ yes /\ no \in Int /\ no = kept
    BY <1>3
  <2> HIDE DEF kept, w, e, yes, no
  <2>3. /\ g \in DacStates /\ g.dead
        /\ g.rate = d.rate /\ g.two = d.two /\ g.enable = d.enable /\ g.sel = d.sel /\ g.r1 = d.r1
        /\ g.pace = d.pace /\ g.played = d.played /\ g.coeff = d.coeff /\ g.adc = d.adc /\ g.on = d.on
        /\ g.scale = [d.scale EXCEPT ![c] = no] /\ g.mag = d.mag
        /\ g.freq = d.freq /\ g.incr = d.incr /\ g.phase = d.phase /\ g.init = d.init
    BY <2>2 DEF DacStates, ToneWords
  <2> HIDE DEF g
  <2>5. OneTone(d, e, c)
    BY <2>1, <2>3, <1>2 DEF OneTone, SameCore, SameTone, ToneWords
  <2> QED
    BY <2>1, <2>2, <2>3, <2>5, <1>2, <1>3 DEF ToneWords, kept, w, e
<1>4. CASE ~(dacBoard.version <= 6 /\ kept = 0)
  <2> DEFINE g == [d EXCEPT !.scale[c] = kept, !.mag[c] = w]
  <2>1. e = Restarted(g)
    BY <1>4 DEF ToneScale
  <2>2. w \in Int /\ ScaleHolds(kept, w)
    BY <1>1, <1>4
  <2> HIDE DEF kept, w, e
  <2>3. /\ g \in DacStates /\ g.dead = d.dead
        /\ g.rate = d.rate /\ g.two = d.two /\ g.enable = d.enable /\ g.sel = d.sel /\ g.r1 = d.r1
        /\ g.pace = d.pace /\ g.played = d.played /\ g.coeff = d.coeff /\ g.adc = d.adc /\ g.on = d.on
        /\ g.scale = [d.scale EXCEPT ![c] = kept] /\ g.mag = [d.mag EXCEPT ![c] = w]
        /\ g.freq = d.freq /\ g.incr = d.incr /\ g.phase = d.phase /\ g.init = d.init
    BY <1>1, <2>2 DEF DacStates, ToneWords
  <2> HIDE DEF g
  <2>4. /\ SameCore(g, e) /\ e.dead = g.dead
        /\ e.freq = g.freq /\ e.incr = g.incr /\ e.phase = g.phase /\ e.init = g.init
        /\ e.scale = g.scale /\ e.mag = g.mag
    BY <2>1, <2>3, RestartedSame
  <2>5. SameCore(d, e)
    BY <2>3, <2>4 DEF SameCore
  <2>6. \A k \in 0 .. 7 : k # c => SameTone(d, e, k)
    BY <2>3, <2>4, <1>2 DEF SameTone, ToneWords
  <2>7. OneTone(d, e, c)
    BY <2>5, <2>6 DEF OneTone
  <2> QED
    BY <2>2, <2>3, <2>4, <2>7, <1>2, <1>4 DEF ToneWords, kept, w, e
<1> QED
  BY <1>3, <1>4

\* What is kept over two steps.
LEMMA SameCoreTwice ==
  ASSUME NEW d, NEW e, NEW g, SameCore(d, e), SameCore(e, g)
  PROVE  SameCore(d, g)
BY DEF SameCore

LEMMA OneToneTwice ==
  ASSUME NEW d, NEW e, NEW g, NEW c, OneTone(d, e, c), OneTone(e, g, c)
  PROVE  OneTone(d, g, c)
BY SameCoreTwice DEF OneTone, SameTone

\* The tone of c in e is the one d remembers, set anew.
Renewed(d, e, c) ==
  /\ e.freq[c] = d.freq[c] /\ e.incr[c] = IncrWord(d.freq[c], d.rate)
  /\ e.phase[c] = d.phase[c] /\ e.init[c] = PhaseWord(d.phase[c])
  /\ e.scale[c] = ScaleKept(d.scale[c]) /\ e.mag[c] = ScaleWord(e.scale[c])
  /\ ScaleHolds(e.scale[c], e.mag[c])

\* A channel of dds_update
LEMMA UpdatedSets ==
  ASSUME NEW d \in DacStates, NEW c \in 0 .. 7, dacBoard.version \in Nat, ~d.dead
  PROVE  LET e == Updated(d, c)
         IN  OneTone(d, e, c) /\ (~e.dead => Renewed(d, e, c))
<1> DEFINE f == ToneFrequency(d, c, d.freq[c])
           p == TonePhase(f, c, d.phase[c])
           e == ToneScale(p, c, d.scale[c])
<1>1. Updated(d, c) = e
  BY DEF Updated
<1>2. d.freq[c] \in Int /\ d.phase[c] \in Int /\ d.scale[c] \in Int
  BY DEF DacStates, ToneWords
<1>3. /\ OneTone(d, f, c) /\ f.dead = d.dead
      /\ f.freq[c] = d.freq[c] /\ f.incr[c] = IncrWord(d.freq[c], d.rate)
  BY <1>2, ToneFrequencySets
<1> HIDE DEF f
<1>8. f \in DacStates
  BY <1>3 DEF OneTone, SameCore
<1>4. /\ OneTone(f, p, c) /\ p.dead = f.dead
      /\ p.phase[c] = d.phase[c] /\ p.init[c] = PhaseWord(d.phase[c])
      /\ p.freq[c] = f.freq[c] /\ p.incr[c] = f.incr[c]
  BY <1>2, <1>8, TonePhaseSets
<1> HIDE DEF p
<1>9. p \in DacStates
  BY <1>4 DEF OneTone, SameCore
<1> DEFINE kept == ScaleKept(d.scale[c])
<1>5. /\ OneTone(p, e, c)
      /\ e.phase[c] = p.phase[c] /\ e.init[c] = p.init[c]
      /\ e.freq[c] = p.freq[c] /\ e.incr[c] = p.incr[c]
      /\ e.scale[c] = kept
      /\ IF dacBoard.version <= 6 /\ kept = 0 THEN e.dead
         ELSE /\ e.dead = p.dead /\ e.mag[c] = ScaleWord(kept)
              /\ ScaleHolds(kept, ScaleWord(kept))
  BY <1>2, <1>9, ToneScaleSets
<1> HIDE DEF e, kept
<1>6. OneTone(d, e, c)
  BY <1>3, <1>4, <1>5, OneToneTwice
<1>7. ~e.dead => Renewed(d, e, c)
  BY <1>3, <1>4, <1>5 DEF Renewed, kept
<1> QED
  BY <1>1, <1>6, <1>7

\* The first n channels are renewed, the others are as they were.
UpdatedTo(d, e, n) ==
  /\ SameCore(d, e)
  /\ ~e.dead => \A k \in 0 .. 7 : IF k < n THEN Renewed(d, e, k) ELSE SameTone(d, e, k)

LEMMA UpdatedNext ==
  ASSUME NEW d \in DacStates, NEW e, NEW n \in 0 .. 7, dacBoard.version \in Nat, UpdatedTo(d, e, n)
  PROVE  UpdatedTo(d, Updated(e, n), n + 1)
<1> DEFINE g == Updated(e, n)
<1>1. e \in DacStates /\ SameCore(d, e)
  BY DEF UpdatedTo, SameCore
<1>2. CASE e.dead
  <2>1. g = e
    BY <1>2 DEF Updated
  <2> QED
    BY <1>1, <1>2, <2>1 DEF UpdatedTo
<1>3. CASE ~e.dead
  <2>1. OneTone(e, g, n) /\ (~g.dead => Renewed(e, g, n))
    BY <1>1, <1>3, UpdatedSets
  <2> HIDE DEF g
  <2>2. SameCore(d, g)
    BY <1>1, <2>1, SameCoreTwice DEF OneTone
  <2>3. \A k \in 0 .. 7 : IF k < n THEN Renewed(d, e, k) ELSE SameTone(d, e, k)
    BY <1>3 DEF UpdatedTo
  <2>4. ASSUME ~g.dead, NEW k \in 0 .. 7
        PROVE  IF k < n + 1 THEN Renewed(d, g, k) ELSE SameTone(d, g, k)
    <3>1. CASE k = n
      <4>1. Renewed(e, g, n) /\ SameTone(d, e, n) /\ e.rate = d.rate
        BY <2>1, <2>3, <2>4, <1>1 DEF SameCore
      <4>2. Renewed(d, g, n)
        BY <4>1 DEF Renewed, SameTone
      <4> QED
        BY <3>1, <4>2
    <3>2. CASE k # n
      <4>1. SameTone(e, g, k)
        BY <2>1, <3>2 DEF OneTone
      <4>2. IF k < n THEN Renewed(d, e, k) ELSE SameTone(d, e, k)
        BY <2>3
      <4>3. IF k < n THEN Renewed(d, g, k) ELSE SameTone(d, g, k)
        BY <4>1, <4>2 DEF Renewed, SameTone
      <4> QED
        BY <4>3, <3>2
    <3> QED
      BY <3>1, <3>2
  <2>5. UpdatedTo(d, g, n + 1)
    BY <2>2, <2>4 DEF UpdatedTo
  <2> QED
    BY <2>5 DEF g
<1> QED
  BY <1>2, <1>3

\* dds_update renews every tone, unless it stops the driver.
LEMMA UpdateTonesSets ==
  ASSUME NEW d \in DacStates, dacBoard.version \in Nat
  PROVE  UpdatedTo(d, UpdateTones(d), 8)
<1> DEFINE a0 == Updated(d, 0)
           a1 == Updated(a0, 1)
           a2 == Updated(a1, 2)
           a3 == Updated(a2, 3)
           a4 == Updated(a3, 4)
           a5 == Updated(a4, 5)
           a6 == Updated(a5, 6)
           a7 == Updated(a6, 7)
<1>1. UpdateTones(d) = a7
  BY DEF UpdateTones, EachTone
<1>2. UpdatedTo(d, d, 0)
  BY DEF UpdatedTo, SameCore, SameTone
<1>3. UpdatedTo(d, a0, 1)
  BY <1>2, UpdatedNext
<1> HIDE DEF a0
<1>4. UpdatedTo(d, a1, 2)
  BY <1>3, UpdatedNext
<1> HIDE DEF a1
<1>5. UpdatedTo(d, a2, 3)
  BY <1>4, UpdatedNext
<1> HIDE DEF a2
<1>6. UpdatedTo(d, a3, 4)
  BY <1>5, UpdatedNext
<1> HIDE DEF a3
<1>7. UpdatedTo(d, a4, 5)
  BY <1>6, UpdatedNext
<1> HIDE DEF a4
<1>8. UpdatedTo(d, a5, 6)
  BY <1>7, UpdatedNext
<1> HIDE DEF a5
<1>9. UpdatedTo(d, a6, 7)
  BY <1>8, UpdatedNext
<1> HIDE DEF a6
<1>10. UpdatedTo(d, a7, 8)
  BY <1>9, UpdatedNext
<1> QED
  BY <1>1, <1>10

\* The tone of c is the default one, I a quarter period before Q.
DefaultPhase(c) == IF c \in {0, 1, 4, 5} THEN 90000 ELSE 0
Default(e, c, rate) ==
  /\ e.freq[c] = 1000 /\ e.incr[c] = IncrWord(1000, rate)
  /\ e.phase[c] = DefaultPhase(c) /\ e.init[c] = PhaseWord(DefaultPhase(c))
  /\ e.scale[c] = 250000 /\ e.mag[c] = ScaleWord(250000)
  /\ ScaleKept(250000) = 250000 /\ ScaleHolds(e.scale[c], e.mag[c])

\* A phase, a frequency and a scale for a channel, one after the other
LEMMA ToneSets ==
  ASSUME NEW d \in DacStates, NEW c \in 0 .. 7, dacBoard.version \in Nat,
         NEW phase \in Int, NEW freq \in Int, NEW s \in Int,
         ScaleKept(s) = s, s # 0
  PROVE  LET e == ToneScale(ToneFrequency(TonePhase(d, c, phase), c, freq), c, s)
         IN  /\ OneTone(d, e, c) /\ e.dead = d.dead
             /\ e.freq[c] = freq /\ e.incr[c] = IncrWord(freq, d.rate)
             /\ e.phase[c] = phase /\ e.init[c] = PhaseWord(phase)
             /\ e.scale[c] = s /\ e.mag[c] = ScaleWord(s) /\ ScaleHolds(s, ScaleWord(s))
<1> DEFINE p == TonePhase(d, c, phase)
           f == ToneFrequency(p, c, freq)
           e == ToneScale(f, c, s)
<1>1. /\ OneTone(d, p, c) /\ p.dead = d.dead
      /\ p.phase[c] = phase /\ p.init[c] = PhaseWord(phase)
  BY TonePhaseSets
<1> HIDE DEF p
<1>2. p \in DacStates /\ p.rate = d.rate
  BY <1>1 DEF OneTone, SameCore
<1>3. /\ OneTone(p, f, c) /\ f.dead = p.dead
      /\ f.freq[c] = freq /\ f.incr[c] = IncrWord(freq, p.rate)
      /\ f.phase[c] = p.phase[c] /\ f.init[c] = p.init[c]
  BY <1>2, ToneFrequencySets
<1> HIDE DEF f
<1>4. f \in DacStates
  BY <1>3 DEF OneTone, SameCore
<1>5. /\ OneTone(f, e, c)
      /\ e.phase[c] = f.phase[c] /\ e.init[c] = f.init[c]
      /\ e.freq[c] = f.freq[c] /\ e.incr[c] = f.incr[c]
      /\ e.scale[c] = ScaleKept(s)
      /\ IF dacBoard.version <= 6 /\ ScaleKept(s) = 0 THEN e.dead
         ELSE /\ e.dead = f.dead /\ e.mag[c] = ScaleWord(ScaleKept(s))
              /\ ScaleHolds(ScaleKept(s), ScaleWord(ScaleKept(s)))
  BY <1>4, ToneScaleSets
<1> HIDE DEF e
<1>6. OneTone(d, e, c)
  BY <1>1, <1>3, <1>5, OneToneTwice
<1>7. /\ e.dead = d.dead
      /\ e.freq[c] = freq /\ e.incr[c] = IncrWord(freq, d.rate)
      /\ e.phase[c] = phase /\ e.init[c] = PhaseWord(phase)
      /\ e.scale[c] = s /\ e.mag[c] = ScaleWord(s) /\ ScaleHolds(s, ScaleWord(s))
  BY <1>1, <1>2, <1>3, <1>5
<1> QED
  BY <1>6, <1>7 DEF e, f, p

\* dds_default_setup
LEMMA DefaultToneSets ==
  ASSUME NEW d \in DacStates, NEW c \in 0 .. 7, dacBoard.version \in Nat
  PROVE  LET e == DefaultTone(d, c)
         IN  OneTone(d, e, c) /\ e.dead = d.dead /\ Default(e, c, d.rate)
<1> DEFINE phase == DefaultPhase(c)
           freq == 1000
           s == 250000
           e == ToneScale(ToneFrequency(TonePhase(d, c, phase), c, freq), c, s)
<1>1. DefaultTone(d, c) = e
  BY DEF DefaultTone, DefaultPhase
<1>2. phase \in Int /\ freq \in Int /\ s \in Int /\ s # 0
  BY DEF DefaultPhase
<1>3. ScaleKept(s) = s
  BY DEF ScaleKept
<1> HIDE DEF phase, freq, s
<1>4. /\ OneTone(d, e, c) /\ e.dead = d.dead
      /\ e.freq[c] = freq /\ e.incr[c] = IncrWord(freq, d.rate)
      /\ e.phase[c] = phase /\ e.init[c] = PhaseWord(phase)
      /\ e.scale[c] = s /\ e.mag[c] = ScaleWord(s) /\ ScaleHolds(s, ScaleWord(s))
  BY <1>2, <1>3, ToneSets
<1> HIDE DEF e
<1>5. Default(e, c, d.rate)
  BY <1>3, <1>4 DEF Default, phase, freq, s
<1> QED
  BY <1>1, <1>4, <1>5

\* The first n channels are set to their default, the others are as they were.
DefaultsTo(d, e, n) ==
  /\ SameCore(d, e) /\ e.dead = d.dead
  /\ \A k \in 0 .. 7 : IF k < n THEN Default(e, k, d.rate) ELSE SameTone(d, e, k)

LEMMA DefaultsNext ==
  ASSUME NEW d \in DacStates, NEW e, NEW n \in 0 .. 7, dacBoard.version \in Nat, DefaultsTo(d, e, n)
  PROVE  DefaultsTo(d, DefaultTone(e, n), n + 1)
<1> DEFINE g == DefaultTone(e, n)
<1>1. e \in DacStates /\ SameCore(d, e) /\ e.rate = d.rate /\ e.dead = d.dead
  BY DEF DefaultsTo, SameCore
<1>2. OneTone(e, g, n) /\ g.dead = e.dead /\ Default(g, n, d.rate)
  BY <1>1, DefaultToneSets
<1> HIDE DEF g
<1>3. SameCore(d, g)
  BY <1>1, <1>2, SameCoreTwice DEF OneTone
<1>4. ASSUME NEW k \in 0 .. 7
      PROVE  IF k < n + 1 THEN Default(g, k, d.rate) ELSE SameTone(d, g, k)
  <2>1. CASE k = n
    BY <2>1, <1>2
  <2>2. CASE k # n
    <3>1. SameTone(e, g, k)
      BY <1>2, <2>2 DEF OneTone
    <3>2. IF k < n THEN Default(e, k, d.rate) ELSE SameTone(d, e, k)
      BY DEF DefaultsTo
    <3>3. IF k < n THEN Default(g, k, d.rate) ELSE SameTone(d, g, k)
      BY <3>1, <3>2 DEF Default, SameTone
    <3> QED
      BY <3>3, <2>2
  <2> QED
    BY <2>1, <2>2
<1>5. DefaultsTo(d, g, n + 1)
  BY <1>1, <1>2, <1>3, <1>4 DEF DefaultsTo
<1> QED
  BY <1>5 DEF g

\* The tones of dac_init, of one transmitter or two
LEMMA DefaultsSet ==
  ASSUME NEW d \in DacStates, dacBoard.version \in Nat
  PROVE  LET first == EachTone(DefaultTone, d, 1)
         IN  DefaultsTo(d, first, 4) /\ DefaultsTo(d, EachTone(DefaultTone, first, 2), 8)
<1> DEFINE a0 == DefaultTone(d, 0)
           a1 == DefaultTone(a0, 1)
           a2 == DefaultTone(a1, 2)
           a3 == DefaultTone(a2, 3)
           a4 == DefaultTone(a3, 4)
           a5 == DefaultTone(a4, 5)
           a6 == DefaultTone(a5, 6)
           a7 == DefaultTone(a6, 7)
<1>1. EachTone(DefaultTone, d, 1) = a3 /\ EachTone(DefaultTone, a3, 2) = a7
  BY DEF EachTone
<1>2. DefaultsTo(d, d, 0)
  BY DEF DefaultsTo, SameCore, SameTone
<1>3. DefaultsTo(d, a0, 1)
  BY <1>2, DefaultsNext
<1> HIDE DEF a0
<1>4. DefaultsTo(d, a1, 2)
  BY <1>3, DefaultsNext
<1> HIDE DEF a1
<1>5. DefaultsTo(d, a2, 3)
  BY <1>4, DefaultsNext
<1> HIDE DEF a2
<1>6. DefaultsTo(d, a3, 4)
  BY <1>5, DefaultsNext
<1> HIDE DEF a3
<1>7. DefaultsTo(d, a4, 5)
  BY <1>6, DefaultsNext
<1> HIDE DEF a4
<1>8. DefaultsTo(d, a5, 6)
  BY <1>7, DefaultsNext
<1> HIDE DEF a5
<1>9. DefaultsTo(d, a6, 7)
  BY <1>8, DefaultsNext
<1> HIDE DEF a6
<1>10. DefaultsTo(d, a7, 8)
  BY <1>9, DefaultsNext
<1> QED
  BY <1>1, <1>6, <1>10


-----------------------------------------------------------------------------
(* The cores.                                                              *)

\* The channels of I, each before that of Q by two; those in use.
First == {0, 1, 4, 5}
Used(d) == IF d.two THEN 0 .. 7 ELSE 0 .. 3
Quarter(a, b) == a = b + 90000 \/ b = a + 270000
\* I and Q of a tone are one, a quarter period apart.
PairHolds(d, i) ==
  /\ d.freq[i] = d.freq[i + 2] /\ d.incr[i] = d.incr[i + 2]
  /\ d.scale[i] = d.scale[i + 2] /\ d.mag[i] = d.mag[i + 2]
  /\ Quarter(d.phase[i], d.phase[i + 2])
  /\ d.init[i] = PhaseWord(d.phase[i]) /\ d.init[i + 2] = PhaseWord(d.phase[i + 2])
  /\ ScaleKept(d.scale[i]) = d.scale[i] /\ ScaleHolds(d.scale[i], d.mag[i])
PairTuned(d, i) == d.incr[i] = IncrWord(d.freq[i], d.rate)
TonesHold(d) == \A i \in First : i \in Used(d) => PairHolds(d, i)
Tuned(d) == \A i \in First : i \in Used(d) => PairTuned(d, i)

\* The sources, the mode and the receive channels follow the number of channels.
SourcesHold(d) ==
  \E source \in {"dds", "dma"} : \A c \in 0 .. (IF d.two THEN 3 ELSE 1) : d.sel[c] = source
ModeHolds(d) ==
  /\ d.r1 = ~d.two /\ d.enable /\ d.on /\ SourcesHold(d)
  /\ (IF d.two THEN 0 .. 3 ELSE 0 .. 1) \subseteq d.adc
  /\ dacBoard.port # "linux" => d.adc = IF d.two THEN 0 .. 3 ELSE 0 .. 1

\* The corrections asked for are the ones in the registers.
Asked == Corrections \cup {<<0, 0>>}
CorrHolds(d, co) ==
  /\ co \in [0 .. 3 -> [{0, 1} -> Asked]]
  /\ \A c \in 0 .. 3, phase \in {0, 1} : ReadsAs(co[c][phase], d.coeff[c][Coefficient(c, phase)])

\* The invariant, of the cores, the ghost of a changed rate and the corrections
DacOk(d, st, co) ==
  /\ d \in DacStates /\ ModeHolds(d) /\ CorrHolds(d, co)
  /\ ~d.dead => TonesHold(d) /\ (~st => Tuned(d))

\* A board of the assumption
Boarded == dacBoard \in DacBoards

LEMMA BoardFacts ==
  ASSUME Boarded
  PROVE  /\ dacBoard.version \in Nat /\ dacBoard.port \in {"linux", "xilinx", "altera"}
         /\ dacBoard.two \in BOOLEAN
BY DacAssumption DEF DacAssumption, Boarded

\* What a change of tones leaves.
LEMMA CoreKept ==
  ASSUME NEW d, NEW e, NEW co, SameCore(d, e), ModeHolds(d), CorrHolds(d, co)
  PROVE  e \in DacStates /\ ModeHolds(e) /\ CorrHolds(e, co) /\ Used(e) = Used(d)
<1>1. ModeHolds(e)
  BY DEF SameCore, ModeHolds, SourcesHold
<1>2. CorrHolds(e, co)
  BY DEF SameCore, CorrHolds
<1> QED
  BY <1>1, <1>2 DEF SameCore, Used

\* A tone that is not touched stays.
LEMMA PairKept ==
  ASSUME NEW d, NEW e, NEW i \in First, SameTone(d, e, i), SameTone(d, e, i + 2), e.rate = d.rate
  PROVE  (PairHolds(d, i) => PairHolds(e, i)) /\ (PairTuned(d, i) => PairTuned(e, i))
BY DEF SameTone, PairHolds, PairTuned

\* I and Q of one tone change, the others stay.
LEMMA PairChanged ==
  ASSUME NEW d, NEW e, NEW g, NEW i \in First, OneTone(d, e, i), OneTone(e, g, i + 2),
         NEW j \in First, j # i
  PROVE  SameTone(d, g, j) /\ SameTone(d, g, j + 2) /\ g.rate = d.rate
<1>1. j \in 0 .. 7 /\ j + 2 \in 0 .. 7 /\ j # i + 2 /\ j + 2 # i /\ j + 2 # i + 2
  BY DEF First
<1>2. SameTone(d, e, j) /\ SameTone(d, e, j + 2)
  BY <1>1 DEF OneTone
<1>3. SameTone(e, g, j) /\ SameTone(e, g, j + 2)
  BY <1>1 DEF OneTone
<1>4. e.rate = d.rate /\ g.rate = e.rate
  BY DEF OneTone, SameCore
<1> QED
  BY <1>2, <1>3, <1>4 DEF SameTone

\* After a change of one tone that holds and is in tune, all do and are.
LEMMA PairSet ==
  ASSUME NEW d, NEW st, NEW co, DacOk(d, st, co), NEW e, NEW g, NEW i \in First,
         OneTone(d, e, i), OneTone(e, g, i + 2), ~d.dead,
         ~g.dead => (PairHolds(d, i) => PairHolds(g, i)) /\ (PairTuned(d, i) => PairTuned(g, i))
  PROVE  DacOk(g, st, co)
<1>1. SameCore(d, e) /\ SameCore(e, g)
  BY DEF OneTone
<1>2. SameCore(d, g)
  BY <1>1, SameCoreTwice
<1>3. g \in DacStates /\ ModeHolds(g) /\ CorrHolds(g, co) /\ Used(g) = Used(d)
  BY <1>2, CoreKept DEF DacOk
<1>4. ASSUME ~g.dead, NEW j \in First
      PROVE  (PairHolds(d, j) => PairHolds(g, j)) /\ (PairTuned(d, j) => PairTuned(g, j))
  <2>1. CASE j = i
    BY <1>4, <2>1
  <2>2. CASE j # i
    BY <2>2, PairChanged, PairKept
  <2> QED
    BY <2>1, <2>2
<1>5. TonesHold(d) /\ (~st => Tuned(d))
  BY DEF DacOk
<1>6. ~g.dead => TonesHold(g) /\ (~st => Tuned(g))
  BY <1>3, <1>4, <1>5 DEF TonesHold, Tuned
<1> QED
  BY <1>3, <1>6 DEF DacOk

\* set_dds_tx1_tone1_freq ..
LEMMA PairFrequency ==
  ASSUME NEW d, NEW st, NEW co, DacOk(d, st, co), ~d.dead, Boarded, NEW i \in First, NEW f \in Int
  PROVE  DacOk(ToneFrequency(ToneFrequency(d, i, f), i + 2, f), st, co)
<1> DEFINE e == ToneFrequency(d, i, f)
           g == ToneFrequency(e, i + 2, f)
<1>0. i \in 0 .. 7 /\ i + 2 \in 0 .. 7 /\ i # i + 2 /\ d \in DacStates
  BY DEF First, DacOk
<1>1. /\ OneTone(d, e, i) /\ e.freq[i] = f /\ e.incr[i] = IncrWord(f, d.rate)
      /\ e.phase[i] = d.phase[i] /\ e.init[i] = d.init[i]
      /\ e.scale[i] = d.scale[i] /\ e.mag[i] = d.mag[i]
  BY <1>0, ToneFrequencySets
<1> HIDE DEF e
<1>2. e \in DacStates /\ e.rate = d.rate /\ SameTone(d, e, i + 2)
  BY <1>0, <1>1 DEF OneTone, SameCore
<1>3. /\ OneTone(e, g, i + 2) /\ g.freq[i + 2] = f /\ g.incr[i + 2] = IncrWord(f, e.rate)
      /\ g.phase[i + 2] = e.phase[i + 2] /\ g.init[i + 2] = e.init[i + 2]
      /\ g.scale[i + 2] = e.scale[i + 2] /\ g.mag[i + 2] = e.mag[i + 2]
  BY <1>0, <1>2, ToneFrequencySets
<1> HIDE DEF g
<1>4. SameTone(e, g, i) /\ g.rate = e.rate
  BY <1>0, <1>3 DEF OneTone, SameCore
<1>5. (PairHolds(d, i) => PairHolds(g, i)) /\ PairTuned(g, i)
  BY <1>1, <1>2, <1>3, <1>4 DEF SameTone, PairHolds, PairTuned
<1>6. DacOk(g, st, co)
  BY <1>1, <1>3, <1>5, PairSet
<1> QED
  BY <1>6 DEF g, e

\* set_dds_tx1_tone1_phase ..
LEMMA PairPhase ==
  ASSUME NEW d, NEW st, NEW co, DacOk(d, st, co), ~d.dead, Boarded, NEW i \in First,
         NEW p \in Int, NEW q \in Int, Quarter(p, q)
  PROVE  DacOk(TonePhase(TonePhase(d, i, p), i + 2, q), st, co)
<1> DEFINE e == TonePhase(d, i, p)
           g == TonePhase(e, i + 2, q)
<1>0. i \in 0 .. 7 /\ i + 2 \in 0 .. 7 /\ i # i + 2 /\ d \in DacStates
  BY DEF First, DacOk
<1>1. /\ OneTone(d, e, i) /\ e.phase[i] = p /\ e.init[i] = PhaseWord(p)
      /\ e.freq[i] = d.freq[i] /\ e.incr[i] = d.incr[i]
      /\ e.scale[i] = d.scale[i] /\ e.mag[i] = d.mag[i]
  BY <1>0, TonePhaseSets
<1> HIDE DEF e
<1>2. e \in DacStates /\ e.rate = d.rate /\ SameTone(d, e, i + 2)
  BY <1>0, <1>1 DEF OneTone, SameCore
<1>3. /\ OneTone(e, g, i + 2) /\ g.phase[i + 2] = q /\ g.init[i + 2] = PhaseWord(q)
      /\ g.freq[i + 2] = e.freq[i + 2] /\ g.incr[i + 2] = e.incr[i + 2]
      /\ g.scale[i + 2] = e.scale[i + 2] /\ g.mag[i + 2] = e.mag[i + 2]
  BY <1>0, <1>2, TonePhaseSets
<1> HIDE DEF g
<1>4. SameTone(e, g, i) /\ g.rate = e.rate
  BY <1>0, <1>3 DEF OneTone, SameCore
<1>5. (PairHolds(d, i) => PairHolds(g, i)) /\ (PairTuned(d, i) => PairTuned(g, i))
  BY <1>1, <1>2, <1>3, <1>4 DEF SameTone, PairHolds, PairTuned
<1>6. DacOk(g, st, co)
  BY <1>1, <1>3, <1>5, PairSet
<1> QED
  BY <1>6 DEF g, e

\* set_dds_tx1_tone1_scale ..: a scale of zero stops the driver at I, before version 7.
LEMMA PairScale ==
  ASSUME NEW d, NEW st, NEW co, DacOk(d, st, co), ~d.dead, Boarded, NEW i \in First, NEW s \in Int
  PROVE  LET e == ToneScale(d, i, s)
         IN  DacOk(IF e.dead THEN e ELSE ToneScale(e, i + 2, s), st, co)
<1> DEFINE e == ToneScale(d, i, s)
           g == ToneScale(e, i + 2, s)
           kept == ScaleKept(s)
<1>0. i \in 0 .. 7 /\ i + 2 \in 0 .. 7 /\ i # i + 2 /\ d \in DacStates /\ dacBoard.version \in Nat
  BY BoardFacts DEF First, DacOk
<1>1. kept \in Int /\ ScaleKept(kept) = kept
  BY <1>0, ScaleWordHolds
<1>2. /\ OneTone(d, e, i)
      /\ e.phase[i] = d.phase[i] /\ e.init[i] = d.init[i]
      /\ e.freq[i] = d.freq[i] /\ e.incr[i] = d.incr[i]
      /\ e.scale[i] = kept
      /\ IF dacBoard.version <= 6 /\ kept = 0 THEN e.dead
         ELSE /\ e.dead = d.dead /\ e.mag[i] = ScaleWord(kept)
              /\ ScaleHolds(kept, ScaleWord(kept))
  BY <1>0, ToneScaleSets
<1> HIDE DEF e
<1>3. e \in DacStates /\ SameCore(d, e) /\ e.rate = d.rate /\ SameTone(d, e, i + 2)
  BY <1>0, <1>2 DEF OneTone, SameCore
<1>4. CASE e.dead
  <2>1. ModeHolds(e) /\ CorrHolds(e, co)
    BY <1>3, CoreKept DEF DacOk
  <2> QED
    BY <2>1, <1>3, <1>4 DEF DacOk, e
<1>5. CASE ~e.dead
  <2>1. /\ OneTone(e, g, i + 2)
        /\ g.phase[i + 2] = e.phase[i + 2] /\ g.init[i + 2] = e.init[i + 2]
        /\ g.freq[i + 2] = e.freq[i + 2] /\ g.incr[i + 2] = e.incr[i + 2]
        /\ g.scale[i + 2] = kept
        /\ IF dacBoard.version <= 6 /\ kept = 0 THEN g.dead
           ELSE /\ g.dead = e.dead /\ g.mag[i + 2] = ScaleWord(kept)
                /\ ScaleHolds(kept, ScaleWord(kept))
    BY <1>0, <1>3, ToneScaleSets
  <2> HIDE DEF g, kept
  <2>2. SameTone(e, g, i) /\ g.rate = e.rate
    BY <1>0, <2>1 DEF OneTone, SameCore
  <2>3. ~g.dead => (PairHolds(d, i) => PairHolds(g, i)) /\ (PairTuned(d, i) => PairTuned(g, i))
    BY <1>1, <1>2, <1>3, <2>1, <2>2 DEF SameTone, PairHolds, PairTuned
  <2>4. DacOk(g, st, co)
    BY <1>2, <2>1, <2>3, PairSet
  <2> QED
    BY <2>4, <1>5 DEF g, e
<1> QED
  BY <1>4, <1>5

\* A change of rate leaves the tones; they are not set for it.
AtRate(d, rate) == [d EXCEPT !.rate = rate]
LEMMA RateChanged ==
  ASSUME NEW d, NEW st, NEW co, DacOk(d, st, co), NEW rate \in Positive
  PROVE  /\ DacOk(AtRate(d, rate), TRUE, co)
         /\ AtRate(d, rate).dead = d.dead
         /\ rate = d.rate => DacOk(AtRate(d, rate), st, co)
<1> DEFINE e == [d EXCEPT !.rate = rate]
<1>0. d \in DacStates
  BY DEF DacOk
<1>1. /\ e \in DacStates /\ e.rate = rate
      /\ e.two = d.two /\ e.enable = d.enable /\ e.sel = d.sel /\ e.r1 = d.r1
      /\ e.pace = d.pace /\ e.played = d.played /\ e.coeff = d.coeff /\ e.adc = d.adc /\ e.on = d.on
      /\ e.dead = d.dead
      /\ e.freq = d.freq /\ e.incr = d.incr /\ e.phase = d.phase /\ e.init = d.init
      /\ e.scale = d.scale /\ e.mag = d.mag
  BY <1>0 DEF DacStates
<1> HIDE DEF e
<1>2. ModeHolds(e) /\ CorrHolds(e, co) /\ Used(e) = Used(d)
  BY <1>1 DEF DacOk, ModeHolds, SourcesHold, CorrHolds, Used
<1>3. TonesHold(d) => TonesHold(e)
  BY <1>1, <1>2 DEF TonesHold, PairHolds
<1>4. rate = d.rate /\ Tuned(d) => Tuned(e)
  BY <1>1, <1>2 DEF Tuned, PairTuned
<1>5. DacOk(e, TRUE, co)
  BY <1>1, <1>2, <1>3 DEF DacOk
<1>6. rate = d.rate => DacOk(e, st, co)
  BY <1>1, <1>2, <1>3, <1>4 DEF DacOk
<1> QED
  BY <1>1, <1>5, <1>6 DEF e, AtRate

\* dds_update, after a change of rate or none
LEMMA TonesUpdated ==
  ASSUME NEW d, NEW co, DacOk(d, TRUE, co), ~d.dead, Boarded
  PROVE  DacOk(UpdateTones(d), FALSE, co)
<1> DEFINE e == UpdateTones(d)
<1>1. UpdatedTo(d, e, 8)
  BY UpdateTonesSets, BoardFacts DEF DacOk
<1> HIDE DEF e
<1>2. SameCore(d, e)
  BY <1>1 DEF UpdatedTo
<1>3. e \in DacStates /\ ModeHolds(e) /\ CorrHolds(e, co) /\ Used(e) = Used(d)
  BY <1>2, CoreKept DEF DacOk
<1>4. ASSUME ~e.dead, NEW i \in First, PairHolds(d, i)
      PROVE  PairHolds(e, i) /\ PairTuned(e, i)
  <2>1. i \in 0 .. 7 /\ i + 2 \in 0 .. 7
    BY DEF First
  <2>2. Renewed(d, e, i) /\ Renewed(d, e, i + 2)
    BY <1>1, <1>4, <2>1 DEF UpdatedTo
  <2>3. e.rate = d.rate
    BY <1>2 DEF SameCore
  <2> QED
    BY <2>2, <2>3, <1>4 DEF Renewed, PairHolds, PairTuned
<1>5. ~e.dead => TonesHold(e) /\ Tuned(e)
  BY <1>3, <1>4 DEF DacOk, TonesHold, Tuned
<1>6. DacOk(e, FALSE, co)
  BY <1>3, <1>5 DEF DacOk
<1> QED
  BY <1>6 DEF e

\* A pair of default tones holds and is in tune.
LEMMA DefaultPair ==
  ASSUME NEW e, NEW rate, NEW i \in First, Default(e, i, rate), Default(e, i + 2, rate), e.rate = rate
  PROVE  PairHolds(e, i) /\ PairTuned(e, i)
<1>1. DefaultPhase(i) = 90000 /\ DefaultPhase(i + 2) = 0
  BY DEF First, DefaultPhase
<1>2. Quarter(DefaultPhase(i), DefaultPhase(i + 2))
  BY <1>1 DEF Quarter
<1> QED
  BY <1>2 DEF Default, PairHolds, PairTuned

\* dac_datasel chooses a source for every channel in use.
LEMMA SelectedSets ==
  ASSUME NEW d \in DacStates, NEW sel \in {"dds", "dma"}, Boarded
  PROVE  LET e == Selected(d, sel)
         IN  /\ e \in DacStates /\ SourcesHold(e)
             /\ e.rate = d.rate /\ e.two = d.two /\ e.enable = d.enable /\ e.r1 = d.r1
             /\ e.pace = d.pace /\ e.played = d.played /\ e.coeff = d.coeff /\ e.adc = d.adc
             /\ e.on = d.on /\ e.dead = d.dead
             /\ e.freq = d.freq /\ e.incr = d.incr /\ e.phase = d.phase /\ e.init = d.init
             /\ e.scale = d.scale /\ e.mag = d.mag
<1> DEFINE new == [c \in DOMAIN d.sel |->
                     IF OldCore \/ c < (IF dacBoard.port = "linux" THEN 8 ELSE 4) \div (IF d.two THEN 1 ELSE 2)
                     THEN sel ELSE d.sel[c]]
           e == [d EXCEPT !.sel = new]
<1>1. Selected(d, sel) = e
  BY DEF Selected
<1>2. d.sel \in [0 .. 7 -> {"none", "dds", "dma"}] /\ d.two \in BOOLEAN
  BY DEF DacStates
<1>3. new \in [0 .. 7 -> {"none", "dds", "dma"}]
  BY <1>2
<1>4. \A c \in 0 .. (IF d.two THEN 3 ELSE 1) : new[c] = sel
  <2> SUFFICES ASSUME NEW c \in 0 .. (IF d.two THEN 3 ELSE 1) PROVE new[c] = sel
    OBVIOUS
  <2>1. c \in 0 .. 7 /\ c <= (IF d.two THEN 3 ELSE 1)
    BY <1>2
  <2>2. c < (IF dacBoard.port = "linux" THEN 8 ELSE 4) \div (IF d.two THEN 1 ELSE 2)
    BY <2>1, <1>2
  <2> QED
    BY <2>1, <2>2, <1>2
<1> HIDE DEF new
<1>5. /\ e \in DacStates /\ e.sel = new
      /\ e.rate = d.rate /\ e.two = d.two /\ e.enable = d.enable /\ e.r1 = d.r1
      /\ e.pace = d.pace /\ e.played = d.played /\ e.coeff = d.coeff /\ e.adc = d.adc
      /\ e.on = d.on /\ e.dead = d.dead
      /\ e.freq = d.freq /\ e.incr = d.incr /\ e.phase = d.phase /\ e.init = d.init
      /\ e.scale = d.scale /\ e.mag = d.mag
  BY <1>3 DEF DacStates
<1> HIDE DEF e
<1>6. SourcesHold(e)
  BY <1>4, <1>5 DEF SourcesHold
<1> QED
  BY <1>1, <1>5, <1>6

\* The board, the channels and the mode of a core being set up
Ready(d, two, pace, adc) ==
  [d EXCEPT !.two = two, !.r1 = ~two, !.on = FALSE, !.pace = pace, !.adc = adc]
LEMMA ReadySets ==
  ASSUME NEW d \in DacStates, NEW two \in BOOLEAN, NEW pace \in Int, NEW adc \in SUBSET (0 .. 3)
  PROVE  LET e == Ready(d, two, pace, adc)
         IN  /\ e \in DacStates /\ e.two = two /\ e.r1 = ~two /\ e.adc = adc
             /\ e.rate = d.rate /\ e.enable = d.enable /\ e.sel = d.sel
             /\ e.played = d.played /\ e.coeff = d.coeff /\ e.dead = d.dead
             /\ e.freq = d.freq /\ e.incr = d.incr /\ e.phase = d.phase /\ e.init = d.init
             /\ e.scale = d.scale /\ e.mag = d.mag
<1> DEFINE r1 == ~two
           off == FALSE
           e == [d EXCEPT !.two = two, !.r1 = r1, !.on = off, !.pace = pace, !.adc = adc]
<1>1. r1 \in BOOLEAN /\ off \in BOOLEAN
  OBVIOUS
<1> HIDE DEF r1, off
<1>2. /\ e \in DacStates /\ e.two = two /\ e.r1 = r1 /\ e.adc = adc
      /\ e.rate = d.rate /\ e.enable = d.enable /\ e.sel = d.sel
      /\ e.played = d.played /\ e.coeff = d.coeff /\ e.dead = d.dead
      /\ e.freq = d.freq /\ e.incr = d.incr /\ e.phase = d.phase /\ e.init = d.init
      /\ e.scale = d.scale /\ e.mag = d.mag
  BY <1>1 DEF DacStates
<1> HIDE DEF e
<1> QED
  BY <1>2 DEF e, r1, off, Ready

\* The last steps of a set-up: the cores run.
LEMMA CoresRun ==
  ASSUME NEW d \in DacStates, Boarded
  PROVE  LET e == Restarted([d EXCEPT !.enable = TRUE])
         IN  /\ e \in DacStates /\ e.enable /\ e.on
             /\ e.rate = d.rate /\ e.two = d.two /\ e.sel = d.sel /\ e.r1 = d.r1
             /\ e.pace = d.pace /\ e.played = d.played /\ e.coeff = d.coeff /\ e.adc = d.adc
             /\ e.dead = d.dead
             /\ e.freq = d.freq /\ e.incr = d.incr /\ e.phase = d.phase /\ e.init = d.init
             /\ e.scale = d.scale /\ e.mag = d.mag
<1> DEFINE yes == TRUE
           g == [d EXCEPT !.enable = yes]
           e == Restarted(g)
<1>1. yes \in BOOLEAN /\ yes
  OBVIOUS
<1> HIDE DEF yes
<1>2. /\ g \in DacStates /\ g.enable = yes
      /\ g.rate = d.rate /\ g.two = d.two /\ g.sel = d.sel /\ g.r1 = d.r1
      /\ g.pace = d.pace /\ g.played = d.played /\ g.coeff = d.coeff /\ g.adc = d.adc
      /\ g.dead = d.dead
      /\ g.freq = d.freq /\ g.incr = d.incr /\ g.phase = d.phase /\ g.init = d.init
      /\ g.scale = d.scale /\ g.mag = d.mag
  BY <1>1 DEF DacStates
<1> HIDE DEF g
<1>3. /\ SameCore(g, e) /\ (g.enable => e.on) /\ e.dead = g.dead
      /\ e.freq = g.freq /\ e.incr = g.incr /\ e.phase = g.phase /\ e.init = g.init
      /\ e.scale = g.scale /\ e.mag = g.mag
  BY <1>2, RestartedSame
<1> HIDE DEF e
<1>4. /\ e \in DacStates /\ e.enable /\ e.on
      /\ e.rate = d.rate /\ e.two = d.two /\ e.sel = d.sel /\ e.r1 = d.r1
      /\ e.pace = d.pace /\ e.played = d.played /\ e.coeff = d.coeff /\ e.adc = d.adc
      /\ e.dead = d.dead
      /\ e.freq = d.freq /\ e.incr = d.incr /\ e.phase = d.phase /\ e.init = d.init
      /\ e.scale = d.scale /\ e.mag = d.mag
  BY <1>1, <1>2, <1>3 DEF SameCore
<1> QED
  BY <1>4 DEF e, g, yes

\* What is kept of the receive channels and what is set
AdcOk(two, adc) ==
  /\ adc \in SUBSET (0 .. 3) /\ (IF two THEN 0 .. 3 ELSE 0 .. 1) \subseteq adc
  /\ dacBoard.port # "linux" => adc = IF two THEN 0 .. 3 ELSE 0 .. 1

\* axiadc_init: whatever the tones were, they are the default ones.
LEMMA SetUpFresh ==
  ASSUME NEW d \in DacStates, NEW two \in BOOLEAN, Boarded, NEW co, CorrHolds(d, co)
  PROVE  DacOk(CoresInit(d, two, "dds"), FALSE, co) /\ CoresInit(d, two, "dds").rate = d.rate
         /\ CoresInit(d, two, "dds").dead = d.dead
<1> DEFINE pace == IF dacBoard.port = "altera" THEN PaceAltera(two) ELSE Pace(two, dacBoard.lvds)
           adc == IF dacBoard.port = "linux" THEN AdcEnabledLinux(two, d.adc)
                  ELSE AdcEnabledBare(two, d.adc)
           ready == Ready(d, two, pace, adc)
           first == EachTone(DefaultTone, ready, 1)
           both == EachTone(DefaultTone, first, 2)
           tones == IF two THEN both ELSE first
           chosen == Selected(tones, "dds")
           e == Restarted([chosen EXCEPT !.enable = TRUE])
<1>0. pace \in Int
  BY DEF PaceAltera, Pace
<1>1. AdcOk(two, adc)
  <2>1. d.adc \in SUBSET (0 .. 3)
    BY DEF DacStates
  <2> QED
    BY <2>1 DEF AdcOk, AdcEnabledLinux, AdcEnabledBare
<1>2. CoresInit(d, two, "dds") = e
  BY DEF CoresInit, Ready
<1> HIDE DEF pace, adc
<1>3. /\ ready \in DacStates /\ ready.two = two /\ ready.r1 = ~two /\ ready.adc = adc
      /\ ready.rate = d.rate /\ ready.coeff = d.coeff /\ ready.dead = d.dead
  <2>1. adc \in SUBSET (0 .. 3)
    BY <1>1 DEF AdcOk
  <2> HIDE DEF ready
  <2> QED
    BY <2>1, <1>0, ReadySets DEF ready
<1> HIDE DEF ready
<1>4. DefaultsTo(ready, first, 4) /\ DefaultsTo(ready, both, 8)
  BY <1>3, DefaultsSet, BoardFacts
<1> HIDE DEF first, both
<1>5. /\ SameCore(ready, tones) /\ tones.dead = ready.dead
      /\ \A k \in 0 .. (IF two THEN 7 ELSE 3) : Default(tones, k, ready.rate)
  <2>1. CASE two
    BY <2>1, <1>4 DEF DefaultsTo
  <2>2. CASE ~two
    BY <2>2, <1>4 DEF DefaultsTo
  <2> QED
    BY <2>1, <2>2
<1> HIDE DEF tones
<1>6. /\ tones \in DacStates /\ tones.two = two /\ tones.r1 = ~two /\ tones.adc = adc
      /\ tones.rate = d.rate /\ tones.coeff = d.coeff /\ tones.dead = d.dead
  BY <1>3, <1>5 DEF SameCore
<1>7. /\ chosen \in DacStates /\ SourcesHold(chosen)
      /\ chosen.rate = tones.rate /\ chosen.two = tones.two /\ chosen.r1 = tones.r1
      /\ chosen.coeff = tones.coeff /\ chosen.adc = tones.adc
      /\ chosen.dead = tones.dead
      /\ chosen.freq = tones.freq /\ chosen.incr = tones.incr /\ chosen.phase = tones.phase
      /\ chosen.init = tones.init
      /\ chosen.scale = tones.scale /\ chosen.mag = tones.mag
  BY <1>6, SelectedSets
<1> HIDE DEF chosen
<1>8. /\ e \in DacStates /\ e.enable /\ e.on
      /\ e.rate = chosen.rate /\ e.two = chosen.two /\ e.sel = chosen.sel /\ e.r1 = chosen.r1
      /\ e.coeff = chosen.coeff /\ e.adc = chosen.adc /\ e.dead = chosen.dead
      /\ e.freq = chosen.freq /\ e.incr = chosen.incr /\ e.phase = chosen.phase
      /\ e.init = chosen.init
      /\ e.scale = chosen.scale /\ e.mag = chosen.mag
  BY <1>7, CoresRun
<1> HIDE DEF e
<1>9. SourcesHold(e)
  BY <1>7, <1>8 DEF SourcesHold
<1>10. ModeHolds(e)
  BY <1>1, <1>6, <1>7, <1>8, <1>9 DEF ModeHolds, AdcOk
<1>11. e.coeff = d.coeff
  BY <1>6, <1>7, <1>8
<1>12. CorrHolds(e, co)
  BY <1>11 DEF CorrHolds
<1>13. \A k \in 0 .. (IF two THEN 7 ELSE 3) : Default(e, k, e.rate)
  BY <1>3, <1>5, <1>6, <1>7, <1>8 DEF Default
<1>14. \A i \in First : i \in Used(e) => PairHolds(e, i) /\ PairTuned(e, i)
  <2> SUFFICES ASSUME NEW i \in First, i \in Used(e) PROVE PairHolds(e, i) /\ PairTuned(e, i)
    OBVIOUS
  <2>1. e.two = two
    BY <1>6, <1>7, <1>8
  <2>2. i \in 0 .. (IF two THEN 7 ELSE 3) /\ i + 2 \in 0 .. (IF two THEN 7 ELSE 3)
    BY <2>1 DEF First, Used
  <2> QED
    BY <2>2, <1>13, DefaultPair
<1>15. DacOk(e, FALSE, co)
  BY <1>8, <1>10, <1>12, <1>14 DEF DacOk, TonesHold, Tuned
<1> QED
  BY <1>2, <1>6, <1>7, <1>8, <1>15

\* ad9361_init, ad9361_set_no_ch_mode
LEMMA SetUpHolds ==
  ASSUME NEW d, NEW two \in BOOLEAN, NEW rate \in Positive, Boarded, NEW co,
         AtRate(d, ResetRate) \in DacStates, CorrHolds(AtRate(d, ResetRate), co)
  PROVE  DacOk(SetUpCores(d, two, rate), TRUE, co)
<1> DEFINE r == AtRate(d, ResetRate)
           e == CoresInit(r, two, "dds")
<1>1. DacOk(e, FALSE, co)
  BY SetUpFresh
<1> HIDE DEF e, r
<1>2. DacOk(AtRate(e, rate), TRUE, co)
  BY <1>1, RateChanged
<1> QED
  BY <1>2 DEF SetUpCores, AtRate, e, r

\* dac_init with DATA_SEL_DMA: the tones are left.
LEMMA SinePlays ==
  ASSUME NEW d, NEW st, NEW co, DacOk(d, st, co), Boarded
  PROVE  DacOk(CoresInit(d, d.two, "dma"), st, co)
<1> DEFINE two == d.two
           pace == IF dacBoard.port = "altera" THEN PaceAltera(two) ELSE Pace(two, dacBoard.lvds)
           adc == d.adc
           ready == Ready(d, two, pace, adc)
           played == Played(two)
           plays == [ready EXCEPT !.played = played]
           chosen == Selected(plays, "dma")
           e == Restarted([chosen EXCEPT !.enable = TRUE])
<1>0. d \in DacStates
  BY DEF DacOk
<1>1. pace \in Int /\ two \in BOOLEAN /\ adc \in SUBSET (0 .. 3)
  BY <1>0 DEF PaceAltera, Pace, DacStates
<1>2. CoresInit(d, d.two, "dma") = e
  <2>1. "dma" # "dds"
    OBVIOUS
  <2>2. [d EXCEPT !.two = d.two, !.r1 = ~d.two, !.on = FALSE,
                  !.pace = IF dacBoard.port = "altera" THEN PaceAltera(d.two)
                           ELSE Pace(d.two, dacBoard.lvds),
                  !.adc = IF "dma" = "dma" THEN @
                          ELSE IF dacBoard.port = "linux" THEN AdcEnabledLinux(d.two, @)
                          ELSE AdcEnabledBare(d.two, @)] = ready
    BY DEF Ready
  <2> QED
    BY <2>1, <2>2 DEF CoresInit
<1>3. played \in Playable
  BY <1>1 DEF Playable
<1> HIDE DEF pace, played
<1>4. /\ ready \in DacStates /\ ready.two = d.two /\ ready.r1 = ~d.two /\ ready.adc = d.adc
      /\ ready.rate = d.rate /\ ready.enable = d.enable /\ ready.sel = d.sel
      /\ ready.coeff = d.coeff /\ ready.dead = d.dead
      /\ ready.freq = d.freq /\ ready.incr = d.incr /\ ready.phase = d.phase
      /\ ready.init = d.init /\ ready.scale = d.scale /\ ready.mag = d.mag
  <2> HIDE DEF ready
  <2> QED
    BY <1>0, <1>1, ReadySets DEF ready
<1> HIDE DEF ready
<1>5. /\ plays \in DacStates /\ plays.two = d.two /\ plays.r1 = ~d.two /\ plays.adc = d.adc
      /\ plays.rate = d.rate
      /\ plays.coeff = d.coeff /\ plays.dead = d.dead
      /\ plays.freq = d.freq /\ plays.incr = d.incr /\ plays.phase = d.phase
      /\ plays.init = d.init /\ plays.scale = d.scale /\ plays.mag = d.mag
  BY <1>3, <1>4 DEF DacStates
<1> HIDE DEF plays
<1>6. /\ chosen \in DacStates /\ SourcesHold(chosen)
      /\ chosen.rate = plays.rate /\ chosen.two = plays.two /\ chosen.r1 = plays.r1
      /\ chosen.coeff = plays.coeff /\ chosen.adc = plays.adc
      /\ chosen.dead = plays.dead
      /\ chosen.freq = plays.freq /\ chosen.incr = plays.incr /\ chosen.phase = plays.phase
      /\ chosen.init = plays.init
      /\ chosen.scale = plays.scale /\ chosen.mag = plays.mag
  BY <1>5, SelectedSets
<1> HIDE DEF chosen
<1>7. /\ e \in DacStates /\ e.enable /\ e.on
      /\ e.rate = chosen.rate /\ e.two = chosen.two /\ e.sel = chosen.sel /\ e.r1 = chosen.r1
      /\ e.coeff = chosen.coeff /\ e.adc = chosen.adc /\ e.dead = chosen.dead
      /\ e.freq = chosen.freq /\ e.incr = chosen.incr /\ e.phase = chosen.phase
      /\ e.init = chosen.init
      /\ e.scale = chosen.scale /\ e.mag = chosen.mag
  BY <1>6, CoresRun
<1> HIDE DEF e
<1>8. SourcesHold(e)
  BY <1>6, <1>7 DEF SourcesHold
<1>9. /\ e.two = d.two /\ e.r1 = ~d.two /\ e.adc = d.adc /\ e.rate = d.rate
      /\ e.coeff = d.coeff /\ e.dead = d.dead
      /\ e.freq = d.freq /\ e.incr = d.incr /\ e.phase = d.phase
      /\ e.init = d.init /\ e.scale = d.scale /\ e.mag = d.mag
  BY <1>5, <1>6, <1>7
<1>10. ModeHolds(e)
  BY <1>7, <1>8, <1>9 DEF ModeHolds, DacOk
<1>11. CorrHolds(e, co)
  BY <1>9 DEF CorrHolds, DacOk
<1>12. (TonesHold(d) => TonesHold(e)) /\ (Tuned(d) => Tuned(e))
  BY <1>9 DEF TonesHold, Tuned, PairHolds, PairTuned, Used
<1>13. DacOk(e, st, co)
  BY <1>7, <1>9, <1>10, <1>11, <1>12 DEF DacOk
<1> QED
  BY <1>2, <1>13

\* dds_set_calib_scale and its like: the other correction of the channel is in the
\* other register.
LEMMA Corrects ==
  ASSUME NEW d, NEW st, NEW co, DacOk(d, st, co), NEW c \in 0 .. 3, NEW phase \in {0, 1},
         NEW x \in Corrections
  PROVE  DacOk([d EXCEPT !.coeff[c][Coefficient(c, phase)] = ToSignedMag(x[1], x[2])], st,
               [co EXCEPT ![c][phase] = x])
<1> DEFINE word == ToSignedMag(x[1], x[2])
           k == Coefficient(c, phase)
           coeff == [d.coeff EXCEPT ![c][k] = word]
           e == [d EXCEPT !.coeff = coeff]
           new == [co EXCEPT ![c][phase] = x]
<1>1. x[1] \in {-1, 0, 1} /\ x[2] \in Int /\ Magnitude(x[2]) < 1000000 /\ (x[1] # 0 => x[2] >= 0)
  BY DacAssumption DEF DacAssumption
<1>2. word \in Int /\ ReadsAs(<<x[1], x[2]>>, word)
  BY <1>1, CorrectionWord
<1>3. ReadsAs(x, word)
  BY <1>2 DEF ReadsAs
<1>4. k \in 1 .. 2
  BY DEF Coefficient
<1>5. \A b \in 0 .. 3, p \in {0, 1} :
        Coefficient(b, p) \in 1 .. 2 /\ (p # phase => Coefficient(c, p) # k)
  BY DEF Coefficient
<1>6. d \in DacStates /\ d.coeff \in [0 .. 3 -> [1 .. 2 -> Int]]
  BY DEF DacOk, DacStates
<1> HIDE DEF word, k
<1>7. coeff \in [0 .. 3 -> [1 .. 2 -> Int]]
  BY <1>2, <1>4, <1>6
<1>8. co \in [0 .. 3 -> [{0, 1} -> Asked]] /\ new \in [0 .. 3 -> [{0, 1} -> Asked]]
  BY DEF DacOk, CorrHolds, Asked
<1>9. \A b \in 0 .. 3, p \in {0, 1} : ReadsAs(new[b][p], coeff[b][Coefficient(b, p)])
  <2> SUFFICES ASSUME NEW b \in 0 .. 3, NEW p \in {0, 1}
               PROVE  ReadsAs(new[b][p], coeff[b][Coefficient(b, p)])
    OBVIOUS
  <2>1. ReadsAs(co[b][p], d.coeff[b][Coefficient(b, p)])
    BY DEF DacOk, CorrHolds
  <2>2. CASE b = c /\ p = phase
    <3>1. new[b][p] = x
      BY <2>2, <1>8
    <3>2. Coefficient(b, p) = k
      BY <2>2 DEF k
    <3>3. coeff[b][k] = word
      BY <2>2, <1>4, <1>6
    <3> QED
      BY <3>1, <3>2, <3>3, <1>3
  <2>3. CASE ~(b = c /\ p = phase)
    <3>1. new[b][p] = co[b][p]
      BY <2>3, <1>8
    <3>2. Coefficient(b, p) \in 1 .. 2 /\ (b = c => Coefficient(b, p) # k)
      BY <2>3, <1>5
    <3> DEFINE m == Coefficient(b, p)
    <3> HIDE DEF m
    <3>3. m \in 1 .. 2 /\ (b = c => m # k)
      BY <3>2 DEF m
    <3>4. coeff[b][m] = d.coeff[b][m]
      BY <3>3, <1>4, <1>6
    <3> QED
      BY <3>1, <3>4, <2>1 DEF m
  <2> QED
    BY <2>2, <2>3
<1> HIDE DEF coeff, new
<1>10. /\ e \in DacStates /\ e.coeff = coeff
       /\ e.rate = d.rate /\ e.two = d.two /\ e.enable = d.enable /\ e.sel = d.sel /\ e.r1 = d.r1
       /\ e.on = d.on /\ e.adc = d.adc /\ e.dead = d.dead
       /\ e.freq = d.freq /\ e.incr = d.incr /\ e.phase = d.phase /\ e.init = d.init
       /\ e.scale = d.scale /\ e.mag = d.mag
  BY <1>6, <1>7 DEF DacStates
<1> HIDE DEF e
<1>11. ModeHolds(e)
  BY <1>10 DEF DacOk, ModeHolds, SourcesHold
<1>12. CorrHolds(e, new)
  BY <1>8, <1>9, <1>10 DEF CorrHolds
<1>13. (TonesHold(d) => TonesHold(e)) /\ (Tuned(d) => Tuned(e))
  BY <1>10 DEF TonesHold, Tuned, PairHolds, PairTuned, Used
<1>14. DacOk(e, st, new)
  BY <1>10, <1>11, <1>12, <1>13 DEF DacOk
<1>15. [d EXCEPT !.coeff[c][k] = word] = e
  BY DEF e, coeff
<1> QED
  BY <1>14, <1>15 DEF new, k, word
-----------------------------------------------------------------------------
(* The console.                                                            *)

\* A variable of the console has no fields but these.
OwnFields(c) ==
  [param |-> c.param, no |-> c.no, line |-> c.line, asked |-> c.asked, used |-> c.used,
   told |-> c.told, shown |-> c.shown]
Acts(c) ==
  c.used # <<>> =>
    /\ c.line.words # <<>>
    /\ c.line.words[1] # Empty => c.used[1] = ReadWord(c.line.words[1])
ConOk(c) == c = OwnFields(c) /\ c.param \in [1 .. 5 -> Int] /\ Acts(c)
\* A line was taken in, and no handler acted yet.
Taken(c) ==
  /\ c = OwnFields(c) /\ c.param \in [1 .. 5 -> Int] /\ c.used = <<>>
  /\ c.no >= 1 => c.line.words # <<>> /\ c.param[1] = ReadWord(c.line.words[1])

\* The parameters of a line, and their number
LEMMA ParamsTyped ==
  ASSUME NEW before \in [1 .. 5 -> Int], NEW words \in Seq(TypedWords), Len(words) <= 5
  PROVE  /\ Params(before, words) \in [1 .. 5 -> Int]
         /\ ParamNo(before, words) >= 1 =>
              words # <<>> /\ Params(before, words)[1] = ReadWord(words[1])
<1> DEFINE read == Words(words)
<1>1. /\ read \in Seq(TypedWords)
      /\ Len(read) >= 1 => words # <<>> /\ read[1] = words[1]
  <2>1. CASE words # <<>> /\ Last(words) = Empty
    <3>1. read = SubSeq(words, 1, Len(words) - 1)
      BY <2>1 DEF Words, Front
    <3> QED
      BY <3>1, <2>1
  <2>2. CASE ~(words # <<>> /\ Last(words) = Empty)
    <3>1. read = words
      BY <2>2 DEF Words
    <3> QED
      BY <3>1
  <2> QED
    BY <2>1, <2>2
<1> HIDE DEF read
<1>2. Len(read) \in Nat /\ \A i \in 1 .. 5 : i <= Len(read) => read[i] \in TypedWords
  BY <1>1
<1>3. \A i \in 1 .. 5 : i <= Len(read) => ReadWord(read[i]) \in Int
  BY <1>2, ReadWordInt
<1>4. Params(before, words) = [i \in 1 .. 5 |-> IF i <= Len(read) THEN ReadWord(read[i]) ELSE before[i]]
  BY DEF Params, read
<1>5. ParamNo(before, words) = Len(read)
  BY DEF ParamNo, read
<1>6. Params(before, words) \in [1 .. 5 -> Int]
  BY <1>3, <1>4
<1>7. Len(read) >= 1 => Params(before, words)[1] = ReadWord(read[1])
  BY <1>2, <1>4
<1> QED
  BY <1>1, <1>5, <1>6, <1>7

\* What is held of a parameter in a variable of 32 bits
LEMMA HeldInt ==
  ASSUME NEW what, Bits(what) = 32, NEW p \in Int, NEW q \in Held(what, p)
  PROVE  q \in Int
BY DEF Held

\* What the handlers change of it.
Shown(c, told, shown) == [c EXCEPT !.told = told, !.shown = shown]
LEMMA ShownIs ==
  ASSUME NEW P, NEW N, NEW L, NEW A, NEW U, NEW T, NEW S,
         NEW c \in [param : P, no : N, line : L, asked : A, used : U, told : T, shown : S],
         NEW told \in T, NEW shown \in S
  PROVE  Shown(c, told, shown) =
           [param |-> c.param, no |-> c.no, line |-> c.line, asked |-> c.asked, used |-> c.used,
            told |-> told, shown |-> shown]
<1> DEFINE e1 == [c EXCEPT !.told = told]
<1>1. e1 =
            [param |-> c.param, no |-> c.no, line |-> c.line, asked |-> c.asked, used |-> c.used,
             told |-> told, shown |-> c.shown]
  OBVIOUS
<1> HIDE DEF e1
<1> DEFINE e2 == [e1 EXCEPT !.shown = shown]
<1>2. e2 =
            [param |-> c.param, no |-> c.no, line |-> c.line, asked |-> c.asked, used |-> c.used,
             told |-> told, shown |-> shown]
  BY <1>1
<1>3. Shown(c, told, shown) = e2
  BY DEF Shown, e1, e2
<1> QED
  BY <1>2, <1>3
LEMMA ShownHas ==
  ASSUME NEW c, c = OwnFields(c), NEW told, NEW shown
  PROVE  LET e == Shown(c, told, shown)
         IN  e = OwnFields(e) /\ e.param = c.param /\ e.line = c.line /\ e.used = c.used
<1> DEFINE P == {c.param}  N == {c.no}  L == {c.line}  A == {c.asked}  U == {c.used}
           T == {c.told, told}  S == {c.shown, shown}
<1>1. c \in [param : P, no : N, line : L, asked : A, used : U, told : T, shown : S]
  BY DEF OwnFields
<1>2. told \in T /\ shown \in S
  OBVIOUS
<1> HIDE DEF P, N, L, A, U, T, S
<1>3. Shown(c, told, shown) =
        [param |-> c.param, no |-> c.no, line |-> c.line, asked |-> c.asked, used |-> c.used,
         told |-> told, shown |-> shown]
  BY <1>1, <1>2, ShownIs
<1> QED
  BY <1>3 DEF OwnFields

AskedShown(c, asked, told, shown) == [c EXCEPT !.asked = asked, !.told = told, !.shown = shown]
LEMMA AskedShownIs ==
  ASSUME NEW P, NEW N, NEW L, NEW A, NEW U, NEW T, NEW S,
         NEW c \in [param : P, no : N, line : L, asked : A, used : U, told : T, shown : S],
         NEW asked \in A, NEW told \in T, NEW shown \in S
  PROVE  AskedShown(c, asked, told, shown) =
           [param |-> c.param, no |-> c.no, line |-> c.line, asked |-> asked, used |-> c.used,
            told |-> told, shown |-> shown]
<1> DEFINE e1 == [c EXCEPT !.asked = asked]
<1>1. e1 =
            [param |-> c.param, no |-> c.no, line |-> c.line, asked |-> asked, used |-> c.used,
             told |-> c.told, shown |-> c.shown]
  OBVIOUS
<1> HIDE DEF e1
<1> DEFINE e2 == [e1 EXCEPT !.told = told]
<1>2. e2 =
            [param |-> c.param, no |-> c.no, line |-> c.line, asked |-> asked, used |-> c.used,
             told |-> told, shown |-> c.shown]
  BY <1>1
<1> HIDE DEF e2
<1> DEFINE e3 == [e2 EXCEPT !.shown = shown]
<1>3. e3 =
            [param |-> c.param, no |-> c.no, line |-> c.line, asked |-> asked, used |-> c.used,
             told |-> told, shown |-> shown]
  BY <1>2
<1>4. AskedShown(c, asked, told, shown) = e3
  BY DEF AskedShown, e1, e2, e3
<1> QED
  BY <1>3, <1>4
LEMMA AskedShownHas ==
  ASSUME NEW c, c = OwnFields(c), NEW asked, NEW told, NEW shown
  PROVE  LET e == AskedShown(c, asked, told, shown)
         IN  e = OwnFields(e) /\ e.param = c.param /\ e.line = c.line /\ e.used = c.used
<1> DEFINE P == {c.param}  N == {c.no}  L == {c.line}  A == {c.asked, asked}  U == {c.used}
           T == {c.told, told}  S == {c.shown, shown}
<1>1. c \in [param : P, no : N, line : L, asked : A, used : U, told : T, shown : S]
  BY DEF OwnFields
<1>2. told \in T /\ shown \in S /\ asked \in A
  OBVIOUS
<1> HIDE DEF P, N, L, A, U, T, S
<1>3. AskedShown(c, asked, told, shown) =
        [param |-> c.param, no |-> c.no, line |-> c.line, asked |-> asked, used |-> c.used,
         told |-> told, shown |-> shown]
  BY <1>1, <1>2, AskedShownIs
<1> QED
  BY <1>3 DEF OwnFields

UsedShown(c, used, told, shown) == [c EXCEPT !.used = used, !.told = told, !.shown = shown]
LEMMA UsedShownIs ==
  ASSUME NEW P, NEW N, NEW L, NEW A, NEW U, NEW T, NEW S,
         NEW c \in [param : P, no : N, line : L, asked : A, used : U, told : T, shown : S],
         NEW used \in U, NEW told \in T, NEW shown \in S
  PROVE  UsedShown(c, used, told, shown) =
           [param |-> c.param, no |-> c.no, line |-> c.line, asked |-> c.asked, used |-> used,
            told |-> told, shown |-> shown]
<1> DEFINE e1 == [c EXCEPT !.used = used]
<1>1. e1 =
            [param |-> c.param, no |-> c.no, line |-> c.line, asked |-> c.asked, used |-> used,
             told |-> c.told, shown |-> c.shown]
  OBVIOUS
<1> HIDE DEF e1
<1> DEFINE e2 == [e1 EXCEPT !.told = told]
<1>2. e2 =
            [param |-> c.param, no |-> c.no, line |-> c.line, asked |-> c.asked, used |-> used,
             told |-> told, shown |-> c.shown]
  BY <1>1
<1> HIDE DEF e2
<1> DEFINE e3 == [e2 EXCEPT !.shown = shown]
<1>3. e3 =
            [param |-> c.param, no |-> c.no, line |-> c.line, asked |-> c.asked, used |-> used,
             told |-> told, shown |-> shown]
  BY <1>2
<1>4. UsedShown(c, used, told, shown) = e3
  BY DEF UsedShown, e1, e2, e3
<1> QED
  BY <1>3, <1>4
LEMMA UsedShownHas ==
  ASSUME NEW c, c = OwnFields(c), NEW used, NEW told, NEW shown
  PROVE  LET e == UsedShown(c, used, told, shown)
         IN  e = OwnFields(e) /\ e.param = c.param /\ e.line = c.line /\ e.used = used
<1> DEFINE P == {c.param}  N == {c.no}  L == {c.line}  A == {c.asked}  U == {c.used, used}
           T == {c.told, told}  S == {c.shown, shown}
<1>1. c \in [param : P, no : N, line : L, asked : A, used : U, told : T, shown : S]
  BY DEF OwnFields
<1>2. told \in T /\ shown \in S /\ used \in U
  OBVIOUS
<1> HIDE DEF P, N, L, A, U, T, S
<1>3. UsedShown(c, used, told, shown) =
        [param |-> c.param, no |-> c.no, line |-> c.line, asked |-> c.asked, used |-> used,
         told |-> told, shown |-> shown]
  BY <1>1, <1>2, UsedShownIs
<1> QED
  BY <1>3 DEF OwnFields

UsedAskedShown(c, used, asked, told, shown) == [c EXCEPT !.used = used, !.asked = asked, !.told = told, !.shown = shown]
LEMMA UsedAskedShownIs ==
  ASSUME NEW P, NEW N, NEW L, NEW A, NEW U, NEW T, NEW S,
         NEW c \in [param : P, no : N, line : L, asked : A, used : U, told : T, shown : S],
         NEW used \in U, NEW asked \in A, NEW told \in T, NEW shown \in S
  PROVE  UsedAskedShown(c, used, asked, told, shown) =
           [param |-> c.param, no |-> c.no, line |-> c.line, asked |-> asked, used |-> used,
            told |-> told, shown |-> shown]
<1> DEFINE e1 == [c EXCEPT !.used = used]
<1>1. e1 =
            [param |-> c.param, no |-> c.no, line |-> c.line, asked |-> c.asked, used |-> used,
             told |-> c.told, shown |-> c.shown]
  OBVIOUS
<1> HIDE DEF e1
<1> DEFINE e2 == [e1 EXCEPT !.asked = asked]
<1>2. e2 =
            [param |-> c.param, no |-> c.no, line |-> c.line, asked |-> asked, used |-> used,
             told |-> c.told, shown |-> c.shown]
  BY <1>1
<1> HIDE DEF e2
<1> DEFINE e3 == [e2 EXCEPT !.told = told]
<1>3. e3 =
            [param |-> c.param, no |-> c.no, line |-> c.line, asked |-> asked, used |-> used,
             told |-> told, shown |-> c.shown]
  BY <1>2
<1> HIDE DEF e3
<1> DEFINE e4 == [e3 EXCEPT !.shown = shown]
<1>4. e4 =
            [param |-> c.param, no |-> c.no, line |-> c.line, asked |-> asked, used |-> used,
             told |-> told, shown |-> shown]
  BY <1>3
<1>5. UsedAskedShown(c, used, asked, told, shown) = e4
  BY DEF UsedAskedShown, e1, e2, e3, e4
<1> QED
  BY <1>4, <1>5
LEMMA UsedAskedShownHas ==
  ASSUME NEW c, c = OwnFields(c), NEW used, NEW asked, NEW told, NEW shown
  PROVE  LET e == UsedAskedShown(c, used, asked, told, shown)
         IN  e = OwnFields(e) /\ e.param = c.param /\ e.line = c.line /\ e.used = used
<1> DEFINE P == {c.param}  N == {c.no}  L == {c.line}  A == {c.asked, asked}  U == {c.used, used}
           T == {c.told, told}  S == {c.shown, shown}
<1>1. c \in [param : P, no : N, line : L, asked : A, used : U, told : T, shown : S]
  BY DEF OwnFields
<1>2. told \in T /\ shown \in S /\ asked \in A /\ used \in U
  OBVIOUS
<1> HIDE DEF P, N, L, A, U, T, S
<1>3. UsedAskedShown(c, used, asked, told, shown) =
        [param |-> c.param, no |-> c.no, line |-> c.line, asked |-> asked, used |-> used,
         told |-> told, shown |-> shown]
  BY <1>1, <1>2, UsedAskedShownIs
<1> QED
  BY <1>3 DEF OwnFields

\* A handler acted on the first parameter of its line.
LEMMA ActedOn ==
  ASSUME NEW c, Taken(c), NEW told, NEW shown, NEW asked
  PROVE  /\ ConOk(c)
         /\ ConOk(Shown(c, told, shown))
         /\ ConOk(AskedShown(c, asked, told, shown))
         /\ c.no >= 1 =>
              /\ ConOk(UsedShown(c, <<c.param[1]>>, told, shown))
              /\ ConOk(UsedAskedShown(c, <<c.param[1]>>, asked, told, shown))
<1>1. c = OwnFields(c) /\ c.param \in [1 .. 5 -> Int] /\ c.used = <<>>
  BY DEF Taken
<1>2. ASSUME NEW e, e = OwnFields(e), e.param = c.param, e.line = c.line, e.used = <<>>
      PROVE  ConOk(e)
  BY <1>1, <1>2 DEF ConOk, Acts
<1>3. ASSUME NEW e, c.no >= 1, e = OwnFields(e), e.param = c.param, e.line = c.line,
             e.used = <<c.param[1]>>
      PROVE  ConOk(e)
  <2>1. e.used[1] = c.param[1]
    BY <1>3
  <2>2. c.line.words # <<>> /\ c.param[1] = ReadWord(c.line.words[1])
    BY <1>3 DEF Taken
  <2> QED
    BY <1>1, <1>3, <2>1, <2>2 DEF ConOk, Acts
<1>4. ConOk(c)
  BY <1>1, <1>2
<1>5. ConOk(Shown(c, told, shown))
  BY <1>1, <1>2, ShownHas
<1>6. ConOk(AskedShown(c, asked, told, shown))
  BY <1>1, <1>2, AskedShownHas
<1>7. c.no >= 1 => ConOk(UsedShown(c, <<c.param[1]>>, told, shown))
  BY <1>1, <1>3, UsedShownHas
<1>8. c.no >= 1 => ConOk(UsedAskedShown(c, <<c.param[1]>>, asked, told, shown))
  BY <1>1, <1>3, UsedAskedShownHas
<1> QED
  BY <1>4, <1>5, <1>6, <1>7, <1>8

\* The invariant of the cores and the console
ConInv == Boarded /\ DacOk(dac, stale, corrected) /\ ConOk(con)

\* What holds of the next cores on the same board holds in the next state.
LEMMA BoardKept ==
  ASSUME dacBoard' = dacBoard, DacOk(dac', stale', corrected')
  PROVE  DacOk(dac, stale, corrected)'
<1>1. dac' \in DacStates /\ (dac \in DacStates)'
  BY DEF DacOk, DacStates, Playable, Played
<1>2. CorrHolds(dac, corrected)'
  BY DEF DacOk, CorrHolds, ReadsAs
<1>3. ModeHolds(dac)'
  BY DEF DacOk, ModeHolds, SourcesHold
<1>4. TonesHold(dac') => TonesHold(dac)'
  BY DEF TonesHold, PairHolds, Used, ScaleKept, ScaleHolds
<1>5. Tuned(dac') => Tuned(dac)'
  BY DEF Tuned, PairTuned, Used
<1> QED
  BY <1>1, <1>2, <1>3, <1>4, <1>5 DEF DacOk

\* A line is taken in with its own parameters.
LEMMA LineTaken ==
  ASSUME NEW k, ConOk(k), NEW line \in ConsoleLines, NEW known \in BOOLEAN
  PROVE  Taken([k EXCEPT !.line = line, !.asked = <<>>, !.used = <<>>, !.told = 0, !.shown = Empty,
                         !.param = IF known THEN Params(@, line.words) ELSE @,
                         !.no = IF known THEN ParamNo(@, line.words) ELSE 0])
<1> DEFINE param == IF known THEN Params(k.param, line.words) ELSE k.param
           no == IF known THEN ParamNo(k.no, line.words) ELSE 0
           e1 == [k EXCEPT !.line = line]
           none == <<>>
<1>1. line.words \in Seq(TypedWords) /\ Len(line.words) <= 5
  BY ConsoleAssumption DEF ConsoleAssumption, TypedWords
<1>2. k = OwnFields(k) /\ k.param \in [1 .. 5 -> Int]
  BY DEF ConOk
<1>3. /\ param \in [1 .. 5 -> Int]
      /\ no >= 1 => line.words # <<>> /\ param[1] = ReadWord(line.words[1])
  <2>1. CASE known
    <3>1. ParamNo(k.no, line.words) = ParamNo(k.param, line.words)
      BY DEF ParamNo
    <3> QED
      BY <2>1, <3>1, <1>1, <1>2, ParamsTyped
  <2>2. CASE ~known
    BY <2>2, <1>2
  <2> QED
    BY <2>1, <2>2
<1> HIDE DEF param, no, none
<1>4. e1 = [param |-> k.param, no |-> k.no, line |-> line, asked |-> k.asked, used |-> k.used,
            told |-> k.told, shown |-> k.shown]
  BY <1>2 DEF OwnFields
<1> HIDE DEF e1
<1> DEFINE e2 == [e1 EXCEPT !.asked = none]
<1>5. e2 = [param |-> k.param, no |-> k.no, line |-> line, asked |-> none, used |-> k.used,
            told |-> k.told, shown |-> k.shown]
  BY <1>4
<1> HIDE DEF e2
<1> DEFINE e3 == [e2 EXCEPT !.used = none]
<1>6. e3 = [param |-> k.param, no |-> k.no, line |-> line, asked |-> none, used |-> none,
            told |-> k.told, shown |-> k.shown]
  BY <1>5
<1> HIDE DEF e3
<1> DEFINE e4 == [e3 EXCEPT !.told = 0]
<1>7. e4 = [param |-> k.param, no |-> k.no, line |-> line, asked |-> none, used |-> none,
            told |-> 0, shown |-> k.shown]
  BY <1>6
<1> HIDE DEF e4
<1> DEFINE e5 == [e4 EXCEPT !.shown = Empty]
<1>8. e5 = [param |-> k.param, no |-> k.no, line |-> line, asked |-> none, used |-> none,
            told |-> 0, shown |-> Empty]
  BY <1>7
<1> HIDE DEF e5
<1> DEFINE e6 == [e5 EXCEPT !.param = param]
<1>9. e6 = [param |-> param, no |-> k.no, line |-> line, asked |-> none, used |-> none,
            told |-> 0, shown |-> Empty]
  BY <1>8
<1> HIDE DEF e6
<1> DEFINE e7 == [e6 EXCEPT !.no = no]
<1>10. e7 = [param |-> param, no |-> no, line |-> line, asked |-> none, used |-> none,
             told |-> 0, shown |-> Empty]
  BY <1>9
<1> HIDE DEF e7
<1>11. Taken(e7)
  BY <1>3, <1>10 DEF Taken, OwnFields, none
<1>12. [k EXCEPT !.line = line, !.asked = <<>>, !.used = <<>>, !.told = 0, !.shown = Empty,
                 !.param = param, !.no = no] = e7
  BY DEF e1, e2, e3, e4, e5, e6, e7, none
<1>13. [k EXCEPT !.line = line, !.asked = <<>>, !.used = <<>>, !.told = 0, !.shown = Empty,
                 !.param = IF known THEN Params(@, line.words) ELSE @,
                 !.no = IF known THEN ParamNo(@, line.words) ELSE 0] = e7
  BY <1>12, <1>4, <1>5, <1>6, <1>7, <1>8, <1>9 DEF e1, e2, e3, e4, e5, e6, e7, none, param, no
<1> QED
  BY <1>11, <1>13

\* The rates are positive.
LEMMA RatesPositive == DacRates \subseteq Positive /\ ResetRate \in Positive
BY DacAssumption DEF DacAssumption, Positive

\* get_dds_tx1_tone1_freq and its like, set_dds_tx1_tone1_freq and its like
LEMMA ToneCommand_Inv ==
  ASSUME ConInv, ~dac.dead, NEW c, Taken(c), NEW x \in ToneNames, NEW op, ToneCommand(c, x, op),
         corrected' = corrected
  PROVE  DacOk(dac', stale', corrected') /\ ConOk(con')
<1> DEFINE set(p) == CASE x.what = "freq" -> SetToneFreq(dac, x, p)
                       [] x.what = "phase" -> SetTonePhase(dac, x, p)
                       [] x.what = "scale" -> SetToneScale(dac, x, p)
           i == Tone(x, "I")
<1>1. /\ i \in First /\ Tone(x, "Q") = i + 2 /\ x.what \in {"freq", "phase", "scale"}
      /\ Bits(x.what) = 32 /\ c.param[1] \in Int
  BY DEF ToneNames, Tone, ToneChannel, First, Bits, Taken
<1>2. DacOk(dac, stale, corrected) /\ Boarded
  BY DEF ConInv
<1>3. ASSUME NEW p \in Int PROVE DacOk(set(p), stale, corrected)
  <2>1. CASE x.what = "freq"
    <3> DEFINE f == p \div 1000
    <3>1. f \in Int
      OBVIOUS
    <3> HIDE DEF f, i
    <3>2. DacOk(ToneFrequency(ToneFrequency(dac, i, f), i + 2, f), stale, corrected)
      BY <3>1, <1>1, <1>2, PairFrequency
    <3>3. SetToneFreq(dac, x, p) = ToneFrequency(ToneFrequency(dac, i, f), i + 2, f)
      BY <1>1 DEF SetToneFreq, f, i
    <3> QED
      BY <3>2, <3>3, <2>1
  <2>2. CASE x.what = "phase"
    <3> DEFINE a == p * 1000
               b == (IF p < 90 THEN p + 270 ELSE p - 90) * 1000
    <3>1. a \in Int /\ b \in Int /\ Quarter(a, b)
      BY DEF Quarter
    <3> HIDE DEF a, b, i
    <3>2. DacOk(TonePhase(TonePhase(dac, i, a), i + 2, b), stale, corrected)
      BY <3>1, <1>1, <1>2, PairPhase
    <3>3. SetTonePhase(dac, x, p) = TonePhase(TonePhase(dac, i, a), i + 2, b)
      BY <1>1 DEF SetTonePhase, a, b, i
    <3> QED
      BY <3>2, <3>3, <2>2
  <2>3. CASE x.what = "scale"
    <3> HIDE DEF i
    <3> DEFINE e == ToneScale(dac, i, p)
    <3>1. DacOk(IF e.dead THEN e ELSE ToneScale(e, i + 2, p), stale, corrected)
      BY <1>1, <1>2, PairScale
    <3>2. SetToneScale(dac, x, p) = IF e.dead THEN e ELSE ToneScale(e, i + 2, p)
      BY <1>1 DEF SetToneScale, i
    <3> QED
      BY <3>1, <3>2, <2>3
  <2> HIDE DEF i
  <2> QED
    BY <2>1, <2>2, <2>3, <1>1
<1>4. CASE op = "?"
  <2>1. PICK word : con' = Shown(c, ToneTold(dac, x), word) /\ UNCHANGED <<dac, stale>>
    BY <1>4, Zenon DEF ToneCommand, Shown
  <2>2. ConOk(con')
    BY <2>1, ActedOn
  <2> QED
    BY <2>1, <2>2, <1>2
<1>5. CASE op # "?"
  <2>1. PICK p, word :
          /\ p \in Held(x.what, c.param[1])
          /\ c.no >= 1 /\ dac' = set(p)
          /\ con' = UsedShown(c, <<c.param[1]>>, ToneTold(set(p), x), word)
          /\ stale' = stale
    BY <1>5, Zenon DEF ToneCommand, UsedShown
  <2>2. p \in Int
    BY <1>1, <2>1, HeldInt
  <2> HIDE DEF set
  <2>3. DacOk(dac', stale', corrected')
    BY <2>1, <2>2, <1>3
  <2>4. ConOk(con')
    BY <2>1, ActedOn
  <2> QED
    BY <2>3, <2>4
<1> QED
  BY <1>4, <1>5

\* set_tx_samp_freq, set_rx_samp_freq
LEMMA SampFreqCommand_Inv ==
  ASSUME ConInv, ~dac.dead, NEW c, Taken(c), NEW x, SampFreqCommand(c, x), corrected' = corrected
  PROVE  DacOk(dac', stale', corrected') /\ ConOk(con')
<1> DEFINE Taking(p, rate, word) ==
             /\ c.no >= 1
             /\ dac' = UpdateTones(AtRate(dac, rate)) /\ stale' = FALSE
             /\ con' = UsedAskedShown(c, <<c.param[1]>>, <<x.what, p>>, rate * 1000, word)
<1>0. \E p \in Held(x.what, c.param[1]) : \E rate \in {dac.rate} \cup ({p \div 1000} \cap DacRates) :
        \E word \in PrintedDec(rate * 1000) : Taking(p, rate, word)
  BY Zenon DEF SampFreqCommand, AtRate, UsedAskedShown
<1> HIDE DEF Taking
<1>1. PICK p, rate, word : rate \in {dac.rate} \cup DacRates /\ Taking(p, rate, word)
  BY <1>0
<1>2. rate \in Positive
  BY <1>1, RatesPositive DEF ConInv, DacOk, DacStates
<1> DEFINE d == AtRate(dac, rate)
<1>3. DacOk(d, TRUE, corrected) /\ Boarded
  BY <1>2, RateChanged DEF ConInv
<1>4. d.dead = dac.dead
  BY <1>2, RateChanged DEF ConInv
<1> HIDE DEF d
<1>5. DacOk(UpdateTones(d), FALSE, corrected)
  BY <1>3, <1>4, TonesUpdated
<1>6. ConOk(con')
  BY <1>1, ActedOn DEF Taking
<1> QED
  BY <1>1, <1>5, <1>6 DEF d, Taking

\* set_tx_fir_en, set_rx_fir_en
LEMMA FirCommand_Inv ==
  ASSUME ConInv, NEW c, Taken(c), NEW x, FirCommand(c, x), corrected' = corrected
  PROVE  DacOk(dac', stale', corrected') /\ ConOk(con')
<1> DEFINE Taking(p, rate, word) ==
             /\ c.no >= 1 /\ dac' = AtRate(dac, rate) /\ stale' = (stale \/ rate # dac.rate)
             /\ con' = UsedAskedShown(c, <<c.param[1]>>, <<x.what, p>>, p, word)
<1>0. \E p \in Held(x.what, c.param[1]) : \E word \in PrintedDec(p) :
        \E rate \in IF dacBoard.firFile THEN DacRates ELSE {dac.rate} : Taking(p, rate, word)
  BY Zenon DEF FirCommand, AtRate, UsedAskedShown
<1> HIDE DEF Taking
<1>1. PICK p, rate, word : rate \in {dac.rate} \cup DacRates /\ Taking(p, rate, word)
  BY <1>0
<1>2. rate \in Positive
  BY <1>1, RatesPositive DEF ConInv, DacOk, DacStates
<1> DEFINE d == AtRate(dac, rate)
<1>3. DacOk(d, TRUE, corrected) /\ (rate = dac.rate => DacOk(d, stale, corrected))
  BY <1>2, RateChanged DEF ConInv
<1> HIDE DEF d
<1>4. DacOk(d, stale', corrected)
  <2>1. CASE rate = dac.rate
    BY <2>1, <1>1, <1>3 DEF DacOk, Taking
  <2>2. CASE rate # dac.rate
    BY <2>2, <1>1, <1>3 DEF DacOk, Taking
  <2> QED
    BY <2>1, <2>2
<1>5. ConOk(con')
  BY <1>1, ActedOn DEF Taking
<1> QED
  BY <1>1, <1>4, <1>5 DEF d, Taking

\* The commands that leave the cores
LEMMA Commands_Inv ==
  ASSUME ConInv, NEW c, Taken(c), NEW x, NEW op, corrected' = corrected,
         SetRadio(c, x) \/ GetRadio(c, x) \/ GetRegister(c) \/ NothingDone(c, x, op)
  PROVE  DacOk(dac', stale', corrected') /\ ConOk(con')
<1>1. CASE SetRadio(c, x)
  <2>1. PICK p, word, told :
          /\ c.no >= 1 /\ con' = UsedAskedShown(c, <<c.param[1]>>, <<x.what, p>>, told, word)
          /\ UNCHANGED <<dac, stale>>
    BY <1>1, Zenon DEF SetRadio, UsedAskedShown
  <2>2. ConOk(con')
    BY <2>1, ActedOn
  <2> QED
    BY <2>1, <2>2 DEF ConInv
<1>2. CASE GetRadio(c, x)
  <2> DEFINE Taking(answer, word) ==
               con' = AskedShown(c, <<x.what>>, answer, word) /\ UNCHANGED <<dac, stale>>
  <2>0. \E answer \in IF x.what \in {"tx_samp_freq", "rx_samp_freq"} THEN {dac.rate * 1000} ELSE {0, 71} :
          \E word \in PrintedDec(answer) : Taking(answer, word)
    BY <1>2, Zenon DEF GetRadio, AskedShown
  <2> HIDE DEF Taking
  <2>1. PICK answer, word : Taking(answer, word)
    BY <2>0
  <2>2. ConOk(con')
    BY <2>1, ActedOn DEF Taking
  <2> QED
    BY <2>1, <2>2 DEF ConInv, Taking
<1>3. CASE GetRegister(c)
  <2>1. PICK addr, word :
          /\ c.no >= 1 /\ con' = UsedAskedShown(c, <<c.param[1]>>, <<"register", addr>>, addr, word)
          /\ UNCHANGED <<dac, stale>>
    BY <1>3, Zenon DEF GetRegister, UsedAskedShown
  <2>2. ConOk(con')
    BY <2>1, ActedOn
  <2> QED
    BY <2>1, <2>2 DEF ConInv
<1>4. CASE NothingDone(c, x, op)
  BY <1>4, ActedOn DEF NothingDone, ConInv
<1> QED
  BY <1>1, <1>2, <1>3, <1>4

\* A line
LEMMA ConsoleLine_Inv ==
  ASSUME ConInv, ~dac.dead, ConsoleLine
  PROVE  DacOk(dac', stale', corrected') /\ ConOk(con')
<1>1. PICK line \in ConsoleLines :
        LET known == <<line.name, line.op>> \in Commands
            c == [con EXCEPT !.line = line, !.asked = <<>>, !.used = <<>>, !.told = 0, !.shown = Empty,
                             !.param = IF known THEN Params(@, line.words) ELSE @,
                             !.no = IF known THEN ParamNo(@, line.words) ELSE 0]
        IN /\ \/ NothingDone(c, line.name, line.op)
              \/ line.name \in ToneNames /\ ToneCommand(c, line.name, line.op)
              \/ GetRadio(c, line.name) \/ SampFreqCommand(c, line.name)
              \/ FirCommand(c, line.name) \/ SetRadio(c, line.name) \/ GetRegister(c)
           /\ UNCHANGED corrected
  BY Zenon DEF ConsoleLine
<1> DEFINE known == <<line.name, line.op>> \in Commands
           c == [con EXCEPT !.line = line, !.asked = <<>>, !.used = <<>>, !.told = 0, !.shown = Empty,
                            !.param = IF known THEN Params(@, line.words) ELSE @,
                            !.no = IF known THEN ParamNo(@, line.words) ELSE 0]
<1>2. known \in BOOLEAN
  OBVIOUS
<1> HIDE DEF known
<1>3. Taken(c)
  BY <1>2, LineTaken DEF ConInv
<1>4. /\ \/ NothingDone(c, line.name, line.op)
         \/ line.name \in ToneNames /\ ToneCommand(c, line.name, line.op)
         \/ GetRadio(c, line.name) \/ SampFreqCommand(c, line.name)
         \/ FirCommand(c, line.name) \/ SetRadio(c, line.name) \/ GetRegister(c)
      /\ corrected' = corrected
  BY <1>1, Zenon DEF known
<1> HIDE DEF c
<1> QED
  BY <1>3, <1>4, ToneCommand_Inv, SampFreqCommand_Inv, FirCommand_Inv, Commands_Inv

\* The calls of a program
LEMMA DacCalls_Inv ==
  ASSUME ConInv, ~dac.dead, DacCalls
  PROVE  DacOk(dac', stale', corrected')
<1>0. DacOk(dac, stale, corrected) /\ Boarded /\ dac \in DacStates
  BY DEF ConInv, DacOk
<1>1. CASE SetCoresMode
  <2>1. PICK two \in BOOLEAN, rate \in DacRates :
          dac' = SetUpCores(dac, two, rate) /\ stale' = TRUE /\ corrected' = corrected
    BY <1>1 DEF SetCoresMode
  <2>2. rate \in Positive /\ ResetRate \in Positive
    BY RatesPositive
  <2> DEFINE r == AtRate(dac, ResetRate)
  <2>3. DacOk(r, TRUE, corrected)
    BY <1>0, <2>2, RateChanged
  <2>4. r \in DacStates /\ CorrHolds(r, corrected)
    BY <2>3 DEF DacOk
  <2>5. DacOk(SetUpCores(dac, two, rate), TRUE, corrected)
    BY <2>2, <2>4, <1>0, SetUpHolds
  <2> QED
    BY <2>1, <2>5
<1>2. CASE SetRate
  <2>1. PICK rate \in DacRates :
          dac' = AtRate(dac, rate) /\ stale' = TRUE /\ corrected' = corrected
    BY <1>2 DEF SetRate, AtRate
  <2>2. rate \in Positive
    BY RatesPositive
  <2> QED
    BY <2>1, <2>2, <1>0, RateChanged
<1>3. CASE PlaySine
  BY <1>3, <1>0, SinePlays DEF PlaySine
<1>4. CASE SetCorrection
  <2>1. PICK b \in CorrectedChannels, phase \in {0, 1}, x \in Corrections :
          /\ dac' = [dac EXCEPT !.coeff[b][Coefficient(b, phase)] = ToSignedMag(x[1], x[2])]
          /\ corrected' = [corrected EXCEPT ![b][phase] = x] /\ stale' = stale
    BY <1>4, Zenon DEF SetCorrection
  <2>2. b \in 0 .. 3
    BY DacAssumption DEF DacAssumption
  <2> QED
    BY <2>1, <2>2, <1>0, Corrects
<1> QED
  BY <1>1, <1>2, <1>3, <1>4 DEF DacCalls

\* The cores of a board that is powered on, and the first line
LEMMA ConsoleInit_Inv == ConsoleInit => ConInv
<1> SUFFICES ASSUME ConsoleInit PROVE ConInv
  OBVIOUS
<1> DEFINE d0 == [rate |-> 0, two |-> FALSE, freq |-> NoTones, phase |-> NoTones, scale |-> NoTones,
                  incr |-> NoTones, init |-> NoTones, mag |-> NoTones, enable |-> FALSE, on |-> FALSE,
                  sel |-> [c \in 0 .. 7 |-> "none"], r1 |-> FALSE, pace |-> 0, played |-> <<>>,
                  coeff |-> [c \in 0 .. 3 |-> <<0, 0>>], adc |-> {}, dead |-> FALSE]
           co == [c \in 0 .. 3 |-> [phase \in {0, 1} |-> <<0, 0>>]]
           d == AtRate(d0, ResetRate)
<1>1. Boarded /\ dacBoard.two \in BOOLEAN /\ stale = TRUE /\ corrected = co
  BY BoardFacts DEF ConsoleInit, DacInit, Boarded
<1>2. PICK rate \in DacRates : dac = SetUpCores(d0, dacBoard.two, rate)
  BY Zenon DEF ConsoleInit, DacInit
<1>3. d \in DacStates /\ d.coeff = [c \in 0 .. 3 |-> <<0, 0>>]
  <2> DEFINE no == FALSE  coeff == [c \in 0 .. 3 |-> <<0, 0>>]  sel == [c \in 0 .. 7 |-> "none"]
             nothing == <<>>
             r(hz) == [rate |-> hz, two |-> no, freq |-> NoTones, phase |-> NoTones,
                       scale |-> NoTones, incr |-> NoTones, init |-> NoTones, mag |-> NoTones,
                       enable |-> no, on |-> no, sel |-> sel, r1 |-> no, pace |-> 0,
                       played |-> nothing, coeff |-> coeff, adc |-> {}, dead |-> no]
  <2>1. no \in BOOLEAN
    OBVIOUS
  <2>2. NoTones \in ToneWords /\ nothing \in Playable /\ ResetRate \in Positive
    BY RatesPositive DEF NoTones, ToneChannels, ToneWords, Playable
  <2>3. coeff \in [0 .. 3 -> [1 .. 2 -> Int]]
    OBVIOUS
  <2>4. sel \in [0 .. 7 -> {"none", "dds", "dma"}]
    OBVIOUS
  <2>5. d0 = r(0)
    OBVIOUS
  <2> HIDE DEF no, coeff, sel, nothing, d0
  <2>6. [r(0) EXCEPT !.rate = ResetRate] = r(ResetRate)
    OBVIOUS
  <2>7. d = r(ResetRate)
    BY <2>5, <2>6, Zenon DEF AtRate
  <2>8. r(ResetRate) \in DacStates /\ r(ResetRate).coeff = coeff
    BY <2>1, <2>2, <2>3, <2>4 DEF DacStates
  <2> QED
    BY <2>7, <2>8, Zenon DEF coeff
<1>4. CorrHolds(d, co)
  <2>1. co \in [0 .. 3 -> [{0, 1} -> Asked]]
    BY DEF Asked
  <2>2. ReadsAs(<<0, 0>>, 0)
    <3>1. FromSignedMag(0) = <<0, 0>>
      BY DEF FromSignedMag
    <3> QED
      BY <3>1 DEF ReadsAs, Magnitude
  <2>3. \A c \in 0 .. 3, phase \in {0, 1} :
          co[c][phase] = <<0, 0>> /\ d.coeff[c][Coefficient(c, phase)] = 0
    <3> SUFFICES ASSUME NEW c \in 0 .. 3, NEW phase \in {0, 1}
                 PROVE  co[c][phase] = <<0, 0>> /\ d.coeff[c][Coefficient(c, phase)] = 0
      OBVIOUS
    <3>1. Coefficient(c, phase) \in {1, 2}
      BY DEF Coefficient
    <3>2. d.coeff[c] = <<0, 0>>
      BY <1>3
    <3>3. \A k \in {1, 2} : <<0, 0>>[k] = 0
      OBVIOUS
    <3>4. d.coeff[c][Coefficient(c, phase)] = 0
      BY <3>1, <3>2, <3>3, Zenon
    <3> QED
      BY <3>4
  <2> HIDE DEF d, co
  <2> QED
    BY <2>1, <2>2, <2>3 DEF CorrHolds
<1>5. rate \in Positive
  BY RatesPositive
<1> HIDE DEF d0, co
<1>6. DacOk(SetUpCores(d0, dacBoard.two, rate), TRUE, co)
  BY <1>1, <1>3, <1>4, <1>5, SetUpHolds
<1>7. DacOk(dac, stale, corrected)
  BY <1>1, <1>2, <1>6
<1>8. ConOk(con)
  <2> DEFINE zeros == <<0, 0, 0, 0, 0>>
             first == [name |-> Radio(""), op |-> "", words |-> <<>>]
  <2>1. zeros \in [1 .. 5 -> Int]
    OBVIOUS
  <2> HIDE DEF zeros, first
  <2>2. con = [param |-> zeros, no |-> 0, line |-> first, asked |-> <<>>, used |-> <<>>,
               told |-> 0, shown |-> Empty]
    BY DEF ConsoleInit, zeros, first
  <2> QED
    BY <2>1, <2>2 DEF ConOk, OwnFields, Acts
<1> QED
  BY <1>1, <1>7, <1>8 DEF ConInv

\* Every step of the cores and the console
LEMMA ConsoleNext_Inv == ConInv /\ [ConsoleNext]_consoleVars => ConInv'
<1> SUFFICES ASSUME ConInv, [ConsoleNext]_consoleVars PROVE ConInv'
  OBVIOUS
<1>1. dacBoard' = dacBoard /\ DacOk(dac', stale', corrected') /\ ConOk(con')
  <2>1. CASE UNCHANGED consoleVars
    <3>1. /\ dacBoard' = dacBoard /\ dac' = dac /\ stale' = stale /\ corrected' = corrected
          /\ con' = con
      BY <2>1 DEF consoleVars, dacVars
    <3> QED
      BY <3>1 DEF ConInv
  <2>2. CASE ConsoleNext
    <3>1. dacBoard' = dacBoard /\ ~dac.dead /\ (ConsoleLine \/ (DacCalls /\ con' = con))
      BY <2>2 DEF ConsoleNext
    <3>2. CASE ConsoleLine
      BY <3>1, <3>2, ConsoleLine_Inv
    <3>3. CASE DacCalls /\ con' = con
      BY <3>1, <3>3, DacCalls_Inv DEF ConInv
    <3> QED
      BY <3>1, <3>2, <3>3
  <2> QED
    BY <2>1, <2>2
<1>2. DacOk(dac, stale, corrected)'
  BY <1>1, BoardKept
<1>3. Boarded'
  BY <1>1 DEF ConInv, Boarded
<1>4. ConOk(con)'
  BY <1>1 DEF ConOk, Acts, OwnFields, ReadWord, Over, Empty
<1> QED
  BY <1>2, <1>3, <1>4 DEF ConInv

\* I and Q of the tones in use, the one before the other by two
LEMMA UsedPairs ==
  ASSUME ConInv, ~dac.dead
  PROVE  /\ \A i \in First : i \in UsedTones => PairHolds(dac, i) /\ (~stale => PairTuned(dac, i))
         /\ UsedTones \subseteq 0 .. 7
         /\ \A c \in UsedTones : \E i \in First : i \in UsedTones /\ c \in {i, i + 2}
<1>1. UsedTones = Used(dac) /\ dac.two \in BOOLEAN
  BY DEF UsedTones, Used, ConInv, DacOk, DacStates
<1>2. \A c \in UsedTones : \E i \in First : i \in UsedTones /\ c \in {i, i + 2}
  <2>1. CASE dac.two
    BY <2>1, <1>1 DEF Used, First
  <2>2. CASE ~dac.two
    BY <2>2, <1>1 DEF Used, First
  <2> QED
    BY <2>1, <2>2
<1>3. UsedTones \subseteq 0 .. 7
  BY <1>1 DEF Used
<1> QED
  BY <1>1, <1>2, <1>3 DEF ConInv, DacOk, TonesHold, Tuned

LEMMA FollowsRate == ConInv => TonesFollowRate
<1> SUFFICES ASSUME ConInv, ~stale, ~dac.dead, NEW c \in UsedTones PROVE InTune(c)
  BY DEF TonesFollowRate
<1>1. PICK i \in First : i \in UsedTones /\ c \in {i, i + 2}
  BY UsedPairs
<1>2. PairHolds(dac, i) /\ PairTuned(dac, i)
  BY <1>1, UsedPairs
<1>3. dac.incr[c] = IncrWord(dac.freq[c], dac.rate)
  BY <1>1, <1>2 DEF PairHolds, PairTuned
<1>4. dac.freq[c] \in Int /\ dac.rate \in Positive
  BY UsedPairs DEF ConInv, DacOk, DacStates, ToneWords
<1> DEFINE f == dac.freq[c]  rate == dac.rate
<1> HIDE DEF f, rate
<1>5. f \in 0 .. rate - 1 =>
        f * 65536 - IncrWord(f, rate) * rate \in (f - rate) .. (f + rate - 1)
  BY <1>4, IncrInTune DEF f, rate
<1> QED
  BY <1>3, <1>5 DEF InTune, f, rate

LEMMA InQuadrature == ConInv => Quadrature
<1> SUFFICES ASSUME ConInv, NEW tx \in {1, 2}, NEW tone \in {1, 2}, ~dac.dead,
                    {ToneChannel(tx, "I", tone), ToneChannel(tx, "Q", tone)} \subseteq UsedTones
             PROVE  LET i == ToneChannel(tx, "I", tone)  q == ToneChannel(tx, "Q", tone)
                        apart == (dac.init[i] - dac.init[q]) % 65536
                    IN apart = 16384 /\ dac.incr[i] = dac.incr[q] /\ dac.mag[i] = dac.mag[q]
  BY DEF Quadrature
<1> DEFINE i == ToneChannel(tx, "I", tone)
<1>1. i \in First /\ ToneChannel(tx, "Q", tone) = i + 2 /\ i \in UsedTones
  BY DEF ToneChannel, First
<1> HIDE DEF i
<1>2. PairHolds(dac, i)
  BY <1>1, UsedPairs
<1>3. dac.phase[i] \in Int /\ dac.phase[i + 2] \in Int
  BY <1>1 DEF First, ConInv, DacOk, DacStates, ToneWords
<1> DEFINE p == dac.phase[i]  q == dac.phase[i + 2]
<1>4. p \in Int /\ q \in Int /\ (p = q + 90000 \/ q = p + 270000)
  BY <1>2, <1>3 DEF PairHolds, Quarter
<1> HIDE DEF p, q
<1>5. (PhaseWord(p) - PhaseWord(q)) % 65536 = 16384
  <2>1. CASE p = q + 90000
    BY <2>1, <1>4, QuarterPeriod
  <2>2. CASE q = p + 270000
    BY <2>2, <1>4, QuarterPeriod
  <2> QED
    BY <2>1, <2>2, <1>4
<1> QED
  BY <1>1, <1>2, <1>5 DEF PairHolds, p, q, i

LEMMA FollowsMode == ConInv => CoresFollowMode
<1> SUFFICES ASSUME ConInv PROVE CoresFollowMode
  OBVIOUS
<1>1. ModeHolds(dac)
  BY DEF ConInv, DacOk
<1>2. \A c, e \in 0 .. (IF dac.two THEN 3 ELSE 1) : dac.sel[c] = dac.sel[e] /\ dac.sel[c] # "none"
  BY <1>1 DEF ModeHolds, SourcesHold
<1> QED
  BY <1>1, <1>2 DEF ModeHolds, CoresFollowMode

\* A quarter of the table on, in steps of one and of a half
LEMMA QuarterOn ==
  ASSUME NEW n \in {32, 128}, NEW k \in 0 .. n - 1
  PROVE  /\ LET q == 2 * k + n \div 2
            IN (IF q >= 2 * n THEN q - 2 * n ELSE q) \div 2 = (k + n \div 4) % n
         /\ LET q == k + n \div 4
            IN (IF q >= n THEN q - n ELSE q) = (k + n \div 4) % n
<1>1. CASE n = 32
  <2>1. 0 <= k /\ k <= 31 /\ k \in Int /\ n \div 2 = 16 /\ n \div 4 = 8
    BY <1>1
  <2>2. CASE k < 24
    BY <1>1, <2>1, <2>2
  <2>3. CASE k >= 24
    BY <1>1, <2>1, <2>3
  <2> QED
    BY <2>1, <2>2, <2>3
<1>2. CASE n = 128
  <2>1. 0 <= k /\ k <= 127 /\ k \in Int /\ n \div 2 = 64 /\ n \div 4 = 32
    BY <1>2
  <2>2. CASE k < 96
    BY <1>2, <2>1, <2>2
  <2>3. CASE k >= 96
    BY <1>2, <2>1, <2>3
  <2> QED
    BY <2>1, <2>2, <2>3
<1> QED
  BY <1>1, <1>2

\* The sine of Linux for two transmitters, and that of the other ports
LEMMA SineWhole ==
  ASSUME NEW two \in BOOLEAN
  PROVE  LET p == Played(two)
         IN  /\ p.bytes = 4 * p.words
             /\ dacBoard.port # "linux" \/ p.words = 2 * p.n =>
                  \A k \in DOMAIN p.sine :
                    p.sine[k][1] = k /\ p.sine[k][2] = (k + p.n \div 4) % p.n
<1> DEFINE p == Played(two)  n == IF dacBoard.port = "linux" THEN 32 ELSE 128
<1>1. p.n = n /\ p.words = (IF two THEN 2 * n ELSE n) /\ p.bytes = (IF two THEN n * 8 ELSE n * 4)
  BY DEF Played
<1>2. n \in {32, 128} /\ n \in Nat /\ n > 0
  OBVIOUS
<1>3. p.sine = IF dacBoard.port = "linux" THEN SineLinux(two) ELSE SineBare(two)
  BY DEF Played
<1>4. ASSUME dacBoard.port # "linux" \/ p.words = 2 * p.n
      PROVE  p.sine = [k \in 0 .. n - 1 |-> <<k, (k + n \div 4) % n>>]
  <2>1. dacBoard.port = "linux" => two
    BY <1>1, <1>2, <1>4
  <2>2. CASE two
    <3>1. p.sine = [k \in 0 .. n - 1 |-> LET q == 2 * k + n \div 2
                                        IN <<k, (IF q >= 2 * n THEN q - 2 * n ELSE q) \div 2>>]
      BY <1>3, <2>2, Zenon DEF SineLinux, SineBare
    <3> HIDE DEF n, p
    <3>2. \A k \in 0 .. n - 1 : LET q == 2 * k + n \div 2
                               IN (IF q >= 2 * n THEN q - 2 * n ELSE q) \div 2 = (k + n \div 4) % n
      BY <1>2, QuarterOn, Zenon
    <3> QED
      BY <3>1, <3>2
  <2>3. CASE ~two
    <3>1. p.sine = [k \in 0 .. n - 1 |-> LET q == k + n \div 4
                                        IN <<k, IF q >= n THEN q - n ELSE q>>]
      BY <1>3, <2>1, <2>3, Zenon DEF SineBare
    <3> HIDE DEF n, p
    <3>2. \A k \in 0 .. n - 1 : LET q == k + n \div 4
                               IN (IF q >= n THEN q - n ELSE q) = (k + n \div 4) % n
      BY <1>2, QuarterOn, Zenon
    <3> QED
      BY <3>1, <3>2
  <2> QED
    BY <2>2, <2>3
<1> HIDE DEF n, p
<1>5. p.bytes = 4 * p.words
  BY <1>1, <1>2
<1>6. ASSUME dacBoard.port # "linux" \/ p.words = 2 * p.n, NEW k \in DOMAIN p.sine
      PROVE  p.sine[k][1] = k /\ p.sine[k][2] = (k + p.n \div 4) % p.n
  <2> DEFINE at(i) == (i + n \div 4) % n
  <2>1. p.sine = [i \in 0 .. n - 1 |-> <<i, at(i)>>]
    BY <1>4, <1>6, Zenon
  <2> HIDE DEF at
  <2>2. p.sine[k] = <<k, at(k)>>
    BY <2>1, <1>6
  <2>3. p.sine[k][1] = k /\ p.sine[k][2] = at(k)
    BY <2>2
  <2> QED
    BY <2>3, <1>1 DEF at
<1> QED
  BY <1>5, <1>6 DEF p

LEMMA PlaysSine == ConInv => SinePlayed
<1> SUFFICES ASSUME ConInv, dac.played # <<>>
             PROVE  LET p == dac.played
                    IN  /\ p.bytes = 4 * p.words
                        /\ dacBoard.port # "linux" \/ p.words = 2 * p.n =>
                             \A k \in DOMAIN p.sine :
                               p.sine[k][1] = k /\ p.sine[k][2] = (k + p.n \div 4) % p.n
  BY Zenon DEF SinePlayed
<1>1. dac.played \in Playable
  BY DEF ConInv, DacOk, DacStates
<1>2. PICK two \in BOOLEAN : dac.played = Played(two)
  BY <1>1, Zenon DEF Playable
<1> QED
  BY <1>2, SineWhole, Zenon

LEMMA ScalesHold == ConInv => ScalesInForce
<1> SUFFICES ASSUME ConInv, NEW c \in UsedTones, ~dac.dead PROVE ScaleHolds(dac.scale[c], dac.mag[c])
  BY DEF ScalesInForce, ScaleHolds
<1>1. PICK i \in First : i \in UsedTones /\ c \in {i, i + 2}
  BY UsedPairs
<1>2. PairHolds(dac, i)
  BY <1>1, UsedPairs
<1> QED
  BY <1>1, <1>2 DEF PairHolds

LEMMA CorrectionsHold == ConInv => CorrectionReadsBack
<1> SUFFICES ASSUME ConInv, NEW c \in 0 .. 3, NEW phase \in {0, 1}
             PROVE  LET x == corrected[c][phase]  got == GetCorrection(c, phase)
                    IN x[1] = 0 \/ x[2] < 999970 =>
                         Magnitude((got[1] - x[1]) * 1000000 + got[2] - x[2]) <= 31
  BY DEF CorrectionReadsBack
<1>1. ReadsAs(corrected[c][phase], dac.coeff[c][Coefficient(c, phase)])
  BY DEF ConInv, DacOk, CorrHolds
<1>2. GetCorrection(c, phase) = FromSignedMag(dac.coeff[c][Coefficient(c, phase)])
  <2>1. phase + c = c + phase
    OBVIOUS
  <2> QED
    BY <2>1 DEF GetCorrection, Coefficient
<1> QED
  BY <1>1, <1>2 DEF ReadsAs

\* The tones that are remembered are the ones that play, in tune after the driver set
\* them for the rate and in quadrature; the sources, the mode and the receive channels
\* are those of the number of channels; and the DMA plays a whole sine
\* (dds_update, dac_init, ad9361_set_no_ch_mode).
THEOREM CoresPlay == ConsoleSpec => []CoresFollow
<1>1. ConInv => CoresFollow
  BY FollowsRate, InQuadrature, FollowsMode, PlaysSine DEF CoresFollow
<1> QED
  BY ConsoleInit_Inv, ConsoleNext_Inv, <1>1, PTL DEF ConsoleSpec

\* A scale in force is the one that is remembered, and a correction reads back as it
\* was set, to within half a step, whatever the scales and corrections (a fraction
\* next to one is lost after a one: CorrectionReadsBack) (dds_set_scale,
\* dds_to_signed_mag_fmt, dds_from_signed_mag_fmt).
THEOREM RegistersHold == ConsoleSpec => []ConversionsHold
<1>1. ConInv => ConversionsHold
  BY ScalesHold, CorrectionsHold DEF ConversionsHold
<1> QED
  BY ConsoleInit_Inv, ConsoleNext_Inv, <1>1, PTL DEF ConsoleSpec

\* No line acts on a number of an earlier one, whatever was typed (main,
\* console_check_commands and the handlers).
THEOREM TypedIsUsed == ConsoleSpec => []ActsOnWhatWasTyped
<1>1. ConInv => ActsOnWhatWasTyped
  BY DEF ConInv, ConOk, Acts, ActsOnWhatWasTyped
<1> QED
  BY ConsoleInit_Inv, ConsoleNext_Inv, <1>1, PTL DEF ConsoleSpec

==============================================================================
