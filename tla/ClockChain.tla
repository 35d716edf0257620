----------------------------- MODULE ClockChain -----------------------------
(***************************************************************************)
(* The baseband clocks of the AD9361 (sw/ad9361.c, util.c): one PLL, two   *)
(* chains of dividers hanging from it, the registers that hold their       *)
(* settings, the rates the driver remembers for each, and the calculation  *)
(* of a whole chain from a sample rate.                                    *)
(*                                                                         *)
(*   BBPLL -> ADC -> R2 -> R1 -> CLKRF -> RX          (RX: the sample rate) *)
(*              \--> DAC -> T2 -> T1 -> CLKTF -> TX                        *)
(*                                                                         *)
(* Rates are numbers of 10 kHz, so that they fit the integers of TLC; the  *)
(* modulus of the PLL's fraction is scaled with them.                      *)
(***************************************************************************)
EXTENDS Integers, Sequences, FiniteSets

MIN_BBPLL_FREQ == 71500
MAX_BBPLL_FREQ == 143000
MIN_ADC_CLK == 2500
MAX_ADC_CLK == 64000
MAX_DAC_CLK == MAX_ADC_CLK \div 2
MAX_SAMPL == 6144
BBPLL_MODULUS == 2089
Word == 429497           \* 2^32 Hz

RxStages == <<"ADC", "R2", "R1", "CLKRF", "RX">>
TxStages == <<"DAC", "T2", "T1", "CLKTF", "TX">>
Stages == {RxStages[i] : i \in 1..5} \cup {TxStages[i] : i \in 1..5}

RoundDiv(x, d) == (x + d \div 2) \div d
RoundUpDiv(x, d) == (x + d - 1) \div d
\* ilog2: 0 for 0
Log2(n) == IF n = 0 THEN 0 ELSE CHOOSE k \in 0..29 : 2^k <= n /\ n < 2^(k + 1)

-----------------------------------------------------------------------------
(***************************************************************************)
(* One divider.  A chip is a record: word, the PLL's <<integer, fraction>>; *)
(* code, what the field of each stage holds; ref, the PLL's reference.     *)
(***************************************************************************)

\* ad9361_get_clk_scaler: what a stage divides by.
Divisor(s, c) ==
  CASE s = "ADC" -> 2^c
    [] s \in {"RX", "TX"} -> IF c = 0 THEN 1 ELSE 2^(c - 1)
    [] OTHER -> c + 1

\* The divisors ad9361_set_clk_scaler accepts.  The ADC's is rounded down to
\* a power of two, so 3 is taken and divides by 2.
Accepted(s) ==
  CASE s = "ADC" -> 2..127
    [] s \in {"RX", "TX"} -> {1, 2, 4}
    [] s \in {"R2", "T2"} -> 1..3
    [] OTHER -> 1..2

\* The code it writes; a bypassed FIR filter has code 0.
CodeOf(s, d, bypassed) ==
  CASE s = "ADC" -> Log2(d)
    [] s \in {"RX", "TX"} -> IF bypassed THEN 0 ELSE Log2(d) + 1
    [] OTHER -> d - 1

\* ad9361_clk_factor_round_rate and _set_rate: the divisor for a rate under a
\* parent.  A multiplier other than 1 is refused by every stage.
DivisorFor(parent, rate) ==
  IF rate >= parent
    THEN IF RoundDiv(rate, parent) = 1 THEN 1 ELSE 0
    ELSE RoundDiv(parent, rate)

-----------------------------------------------------------------------------
(***************************************************************************)
(* The rates.                                                              *)
(***************************************************************************)

Clamp(x, lo, hi) == IF x < lo THEN lo ELSE IF x > hi THEN hi ELSE x

\* ad9361_bbpll_set_rate: the word nearest to a rate.
BbpllWord(rate, ref) ==
  << rate \div ref,
     ((rate % ref) * BBPLL_MODULUS + ref \div 2) \div ref >>

\* ad9361_bbpll_recalc_rate
BbpllRate(w, ref) == ref * w[1] + (ref * w[2]) \div BBPLL_MODULUS

\* ad9361_bbpll_round_rate: within the PLL's range, and then what a word gives.
BbpllRound(rate, ref) ==
  IF rate < MIN_BBPLL_FREQ \/ rate > MAX_BBPLL_FREQ
    THEN Clamp(rate, MIN_BBPLL_FREQ, MAX_BBPLL_FREQ)
    ELSE BbpllRate(BbpllWord(rate, ref), ref)

\* ad9361_clk_factor_recalc_rate rounds, where a chain's request truncates.
Down(parent, s, code) == RoundDiv(parent, Divisor(s, code[s]))

Parent(s) ==
  CASE s = "ADC" -> "BBPLL" [] s = "DAC" -> "ADC"
    [] s = "R2" -> "ADC" [] s = "R1" -> "R2" [] s = "CLKRF" -> "R1"
    [] s = "RX" -> "CLKRF" [] s = "T2" -> "DAC" [] s = "T1" -> "T2"
    [] s = "CLKTF" -> "T1" [] s = "TX" -> "CLKTF"

\* What the registers of a chip amount to: the rates clk_set_rate recomputes
\* for every clock after it set one.
Recalc(chip) ==
  LET rate[s \in Stages \cup {"BBPLL"}] ==
        IF s = "BBPLL" THEN BbpllRate(chip.word, chip.ref)
                       ELSE Down(rate[Parent(s)], s, chip.code)
  IN rate
\* clk_get_rate: the PLL's word and a clock's own divider are read from the chip, the
\* rate that is divided is the one remembered.
GetRate(d, clock) ==
  IF clock = "BBPLL" THEN BbpllRate(d.chip.word, d.chip.ref)
                     ELSE Down(d.rate[Parent(clock)], clock, d.chip.code)

-----------------------------------------------------------------------------
(***************************************************************************)
(* clk_set_rate.  A driver's state d is a record: chip, rate (the rates it  *)
(* remembers), ok (no call has failed yet); bypass says of "RX" and "TX"   *)
(* whether their filter is bypassed.                                       *)
(***************************************************************************)

\* Nothing is done at the rate that is remembered.  Otherwise the word is
\* written; when the PLL does not lock, the call fails with the word written
\* and no rate recomputed.
WriteWord(d, word, locks) ==
  LET c == [d.chip EXCEPT !.word = word]
  IN IF locks THEN [d EXCEPT !.chip = c, !.rate = Recalc(c)]
              ELSE [d EXCEPT !.chip = c, !.ok = FALSE]
SetBbpll(d, rate, locks) ==
  IF ~d.ok \/ d.rate["BBPLL"] = rate THEN d
  ELSE WriteWord(d, BbpllWord(BbpllRound(rate, d.chip.ref), d.chip.ref), locks)

WithCode(d, s, div, bypass) ==
  [d.chip EXCEPT !.code[s] = CodeOf(s, div, s \in {"RX", "TX"} /\ bypass[s])]
\* Mutant: the clocks below the stage keep the rates they had.
SetDivisorAlone(d, s, div, bypass) ==
  LET c == WithCode(d, s, div, bypass)
  IN IF div \in Accepted(s)
       THEN [d EXCEPT !.chip = c, !.rate[s] = Down(d.rate[Parent(s)], s, c.code)]
       ELSE [d EXCEPT !.ok = FALSE]
\* A stage that cannot divide so fails before it writes anything.
SetDivisor(d, s, div, bypass) ==
  LET c == WithCode(d, s, div, bypass)
  IN IF div \in Accepted(s)
       THEN [d EXCEPT !.chip = c, !.rate = Recalc(c)]
       ELSE [d EXCEPT !.ok = FALSE]
\* The divisor for the rate that the first divisor gives: 0, which no stage
\* accepts, if the stage cannot have the first.
SecondDivisor(s, parent, first) ==
  IF first \in Accepted(s) THEN DivisorFor(parent, parent \div first) ELSE 0
SetStage(d, s, rate, bypass) ==
  LET parent == d.rate[Parent(s)]
  IN IF ~d.ok \/ d.rate[s] = rate THEN d
     ELSE SetDivisor(d, s, SecondDivisor(s, parent, DivisorFor(parent, rate)), bypass)

-----------------------------------------------------------------------------
(***************************************************************************)
(* A chain: bb, the PLL's rate, and the rates rx[1..5], tx[1..5] of the     *)
(* stages.                                                                 *)
(***************************************************************************)

\* ad9361_validate_trx_clock_chain: DATA_CLK must be one of the ADC's rate by
\* 1, 2 or 3 or of R2's by 2, 4, 8 or 16, and at most 61.44 MHz on CMOS.
ValidChain(ch, plat) ==
  LET dataClk == ((IF plat.rx2tx2 THEN 4 ELSE 2) \div (IF plat.lvds THEN 1 ELSE 2))
                   * ch.rx[5]
  IN /\ plat.lvds \/ dataClk <= MAX_SAMPL
     /\ \/ \E i \in 1..3 : ch.rx[1] \div i = dataClk
        \/ \E i \in 1..4 : ch.rx[2] \div 2^i = dataClk

\* The loop of ad9361_set_trx_clock_chain, which leaves at the first failure.
SetPair(d, ch, i, bypass) ==
  SetStage(SetStage(d, RxStages[i], ch.rx[i], bypass), TxStages[i], ch.tx[i], bypass)
SetChain(d, ch, bypass, locks) ==
  LET turn(x, i) == SetPair(x, ch, i, bypass)
  IN turn(turn(turn(turn(turn(SetBbpll(d, ch.bb, locks), 1), 2), 3), 4), 5)

\* ad9361_get_trx_clock_chain
GetChain(d) ==
  [bb |-> GetRate(d, "BBPLL"),
   rx |-> [i \in 1..5 |-> GetRate(d, RxStages[i])],
   tx |-> [i \in 1..5 |-> GetRate(d, TxStages[i])]]

-----------------------------------------------------------------------------
(***************************************************************************)
(* ad9361_calculate_rf_clock_chain.  f: the sample rate, gov: the rate      *)
(* governor, dec and int: the factors of the filters, 1 when bypassed; twice:*)
(* the receiver runs at twice the transmitter's rate.                      *)
(***************************************************************************)

ClkDividers ==
  << <<12, 3, 2, 2>>, <<8, 2, 2, 2>>, <<6, 3, 1, 2>>, <<4, 2, 2, 1>>,
     <<3, 3, 1, 1>>, <<2, 2, 1, 1>>, <<1, 1, 1, 1>> >>
Row(i) == ClkDividers[i + 1]
NoChain == [bb |-> 0]

InAdcRange(r) == MIN_ADC_CLK <= r /\ r <= MAX_ADC_CLK

\* Mutant: the row of the transmitter is that of the receiver.
IndexTxEqual(i, adc, dac) == i
\* The row of the transmitter, from the ratio of the two rates at row i; 7
\* and numbers out of 0..6 say that there is none.
IndexTx(i, adc, dac) ==
  LET up == dac > adc
      shift == IF up THEN 0 - (dac \div adc)
               ELSE IF adc \div dac = 1 THEN 0 ELSE adc \div dac
  IN IF adc <= MAX_DAC_CLK THEN i - shift
     ELSE IF i = 4 /\ ~up THEN 7
     ELSE i + (IF i = 5 /\ ~up THEN 1 ELSE 2) - shift

\* The rows from the governor's on whose ADC rate, in 32 bits, is in range.
RowsFrom(gov, clkrf) ==
  {i \in gov..6 : InAdcRange((clkrf * Row(i)[1]) % Word)}

Least(S) == CHOOSE x \in S : \A y \in S : x <= y

\* One try: <<row of the receiver, row of the transmitter>>, or the empty
\* sequence.
TryRow(i, clkrf, clktf) ==
  LET j == IndexTx(i, (clkrf * Row(i)[1]) % Word, (clktf * Row(i)[1]) % Word)
  IN IF j \in 0..6 THEN <<i, j>> ELSE <<>>
TryFirst(rows, clkrf, clktf) ==
  IF rows = {} THEN <<>> ELSE TryRow(Least(rows), clkrf, clktf)
Try(gov, clkrf, clktf) == TryFirst(RowsFrom(gov, clkrf), clkrf, clktf)

\* A try that finds nothing is made again with the next governor; one for a
\* low rate is made with the highest oversampling alone.
Tries(f, gov, dec) ==
  IF gov <= 1 /\ (dec * f * 8) % Word < MIN_ADC_CLK THEN {0} ELSE gov..6

\* The PLL: the highest power of two times the ADC's rate within its range.
BbpllFor(adc) ==
  LET fit == {k \in 1..6 : adc * 2^k <= MAX_BBPLL_FREQ}
  IN adc * 2^(IF fit = {} THEN 1 ELSE CHOOSE k \in fit : \A l \in fit : l <= k)

Divided(from, row, factor) ==
  LET r2 == from \div row[2]
      r1 == r2 \div row[3]
      clk == r1 \div row[4]
  IN <<from, r2, r1, clk, clk \div factor>>

\* The chain at the ADC's rate and the rows t
ChainAt(adc, t, dec, int) ==
  [bb |-> BbpllFor(adc), rx |-> Divided(adc, Row(t[1]), dec),
   tx |-> Divided(IF adc <= MAX_DAC_CLK THEN adc ELSE adc \div 2, Row(t[2]), int)]
ChainOf(t, clkrf, dec, int) ==
  IF t = <<>> THEN NoChain ELSE ChainAt((clkrf * Row(t[1])[1]) % Word, t, dec, int)
\* The first try that finds rows
FirstTry(good, clkrf, clktf) == IF good = {} THEN <<>> ELSE Try(Least(good), clkrf, clktf)
CalculateFor(f, gov, dec, int, clkrf, clktf) ==
  ChainOf(FirstTry({g \in Tries(f, gov, dec) : Try(g, clkrf, clktf) # <<>>}, clkrf, clktf),
          clkrf, dec, int)
Calculate(f, gov, dec, int, twice) ==
  IF f > MAX_SAMPL THEN NoChain
  ELSE CalculateFor(f, gov, dec, int, f * dec * (IF twice THEN 2 ELSE 1), f * int)
=============================================================================
