------------------------------ MODULE Baseband ------------------------------
(***************************************************************************)
(* The baseband of the AD9361 as the driver keeps it (sw/ad9361.c,         *)
(* ad9361_api.c, platform_linux/filter.c): the clock chain, the FIR filters,*)
(* the analog filters and the ADC tuned to the chain's rates, and the      *)
(* timing of gain control, RSSI and auxiliary ADC derived from them.       *)
(*                                                                         *)
(* A call of the driver is one step: nothing else runs in between.  What   *)
(* the chip may do to a call is an input of it: the PLL locks or not, and a *)
(* calibration of the filters or of the quadrature ends or not.            *)
(***************************************************************************)
EXTENDS ClockChain

CONSTANTS
  SamplFreqs,   \* the sample rates asked for
  Bandwidths,   \* the RF bandwidths asked for
  FirConfigs,   \* the filters loaded: [dec, int, rxTaps, txTaps]
  FilterFiles,  \* the filters that come with rates and bandwidths:
                \* [cfg, clks, rxBw, txBw]
  Wirings,      \* the boards: [rx2tx2, lvds, twice]
  Cals,         \* how the calibrations may end, of {"ok", "rx", "tx", "quad"}
  MaxCalls      \* bound: the calls made after set-up
FirConfig == [dec : 1..255, int : 1..255, rxTaps : 0..255, txTaps : 0..255]
ClockChains == [bb : Nat, rx : [1..5 -> Nat], tx : [1..5 -> Nat]]
ASSUME BasebandAssumption ==
  /\ SamplFreqs \subseteq 1..Word /\ Bandwidths \subseteq Nat
  /\ FirConfigs \subseteq FirConfig
  /\ FilterFiles \subseteq [cfg : FirConfig, clks : ClockChains, rxBw : Nat, txBw : Nat]
  /\ Wirings \subseteq [rx2tx2 : BOOLEAN, lvds : BOOLEAN, twice : BOOLEAN]
  /\ Cals \subseteq {"ok", "rx", "tx", "quad"}

VARIABLES
  wiring,    \* phy->pdata: rx2tx2, LVDS_MODE, FDD_RX_RATE_2TX_RATE
  bb,        \* the chip and phy; ok is the result of the running call, fits
             \* (ghost) that the chains it set suit the filters and the PLL locked
  bbCalls,   \* the calls made so far
  bbLost,    \* ghost: a failure has parted the remembered rates from the chip's
  bbSteady,  \* ghost: the last call that set clocks or filters was granted
  bbWhole,   \* ghost: the last call that set a clock chain was granted
  bbSuits,   \* ghost: the chains that call set suit the filters, and the rates
             \* remembered before it were the chip's
  bbWant     \* ghost: the rate last granted with the factors it was granted
             \* for, <<>> when other clocks were set since

bbVars == <<wiring, bb, bbCalls, bbLost, bbSteady, bbWhole, bbSuits, bbWant>>

Sides == {"RX", "TX"}

-----------------------------------------------------------------------------
(***************************************************************************)
(* What follows from the rates.                                            *)
(***************************************************************************)

Smaller(x, y) == IF x < y THEN x ELSE y

\* ad9361_validate_rf_bw
ValidBw(b) == Smaller(b, 5600)

\* ad9361_rx_bb_analog_filter_calib and the transmitter's: the dividers of the
\* tuning, from the PLL's rate and half the RF bandwidth.
RxTune(bbpll, b) ==
  LET bw == Clamp(b \div 2, 20, 2800)
  IN <<bw, Smaller(511, RoundUpDiv(bbpll * 10000, 126906 * bw))>>
TxTune(bbpll, b) ==
  LET bw == Clamp(b \div 2, 63, 2000)
  IN <<bw, Smaller(511, RoundUpDiv(bbpll * 10000, 145036 * bw))>>

\* ad9361_rx_tia_calib: the range of the amplifier; its capacitor follows the
\* filter's, which the chip has just tuned.
TiaRange(b) ==
  LET bw == Clamp(b \div 2, 20, 2000)
  IN IF bw <= 300 THEN "narrow" ELSE IF bw <= 1000 THEN "middle" ELSE "wide"

\* ad9361_tx_bb_second_filter_calib: resistor, capacitor, configuration.
SecondCap(bw, res) ==
  LET div == 15708 * bw * res
  IN (500000000 + div \div 2) \div div - 12
SecondWith(bw, res) ==
  << res, Smaller(63, SecondCap(bw, Smaller(res, 8))),
     IF bw <= 450 THEN 89 ELSE IF bw <= 1200 THEN 86 ELSE 87 >>
SecondFor(bw) ==
  SecondWith(bw, Least({r \in {1, 2, 4, 8} : SecondCap(bw, r) < 64} \cup {16}))
SecondFilter(b) == SecondFor(Clamp(b \div 2, 53, 2000))

\* ad9361_rx_adc_setup: the forty bytes of the ADC's profile are a function
\* of the filter's actual bandwidth, of the capacitors and of the ADC's rate.
AdcProfile(bbpll, rxTune, adc) ==
  [bw |-> Clamp((bbpll * 10000) \div (126906 * rxTune[2]), 20, 2800),
   snr |-> IF adc < 8000 THEN 1000 ELSE 1585, adc |-> adc]

\* Everything __ad9361_update_rf_bandwidth tunes.
AnalogFor(bbpll, adc, rxBw, txBw) ==
  [rx |-> RxTune(bbpll, rxBw), tx |-> TxTune(bbpll, txBw),
   tia |-> TiaRange(rxBw), second |-> SecondFilter(txBw),
   adc |-> AdcProfile(bbpll, RxTune(bbpll, rxBw), adc)]

\* ad9361_bb_clk_change_handler: gain control counts ClkRF cycles, the RSSI
\* samples and the auxiliary ADC the PLL's.
TimingFor(x) ==
  [gain |-> GetRate(x, "CLKRF"), rssi |-> GetRate(x, "RX"), aux |-> GetRate(x, "BBPLL")]

-----------------------------------------------------------------------------
(***************************************************************************)
(* The calls, as functions from the radio x to the radio after them.       *)
(***************************************************************************)

Fail(x) == [x EXCEPT !.ok = FALSE]
\* The caller goes on whatever the result.
Dropped(x) == [x EXCEPT !.ok = TRUE]
Factor(x, s) == IF x.bypass[s] THEN 1 ELSE x.factor[s]

\* ad9361_calculate_rf_clock_chain with what phy says.
ChainFor(x, f) == Calculate(f, x.gov, Factor(x, "RX"), Factor(x, "TX"),
                            wiring.twice)

\* A filter that changes no rate is switched here.
EnableFilters(x) ==
  [x EXCEPT !.chip.code = [s \in Stages |->
     IF s \in Sides /\ (x.factor[s] = 1 \/ x.bypass[s])
       THEN IF x.bypass[s] THEN 0 ELSE 1
       ELSE x.chip.code[s]]]

Fits(x, ch) == /\ ch.rx[4] = Factor(x, "RX") * ch.rx[5] /\ ch.rx[4] > 0
               /\ ch.tx[4] = Factor(x, "TX") * ch.tx[5] /\ ch.tx[4] > 0
\* The PLL has locked on the word it was given.
Locked(x, y, locks) == locks \/ y.chip.word = x.chip.word

\* ad9361_set_trx_clock_chain
Timed(x) == [x EXCEPT !.timing = TimingFor(x)]
SetTrxClockChain(x, ch, locks) ==
  LET Finish(y) == IF y.ok THEN Timed(EnableFilters(y)) ELSE y
      Noted(y) == [y EXCEPT !.fits = x.fits /\ Fits(x, ch) /\ Locked(x, y, locks)]
  IN IF ~ValidChain(ch, wiring) THEN Fail(x)
     ELSE Finish(Noted(SetChain(x, ch, x.bypass, locks)))

\* ad9361_update_rf_bandwidth, up to the step cal that fails: the tuning of
\* the receiver's or of the transmitter's filter, or the quadrature.
Tuned(x, a, new, cal) ==
  CASE cal = "rx" -> [Fail(x) EXCEPT !.analog.rx = a.rx]
    [] cal = "tx" -> [Fail(x) EXCEPT !.analog.rx = a.rx, !.analog.tx = a.tx]
    [] cal = "quad" -> [Fail(x) EXCEPT !.analog = a, !.bw = new]
    [] cal = "ok" -> [x EXCEPT !.analog = a, !.bw = new]
Retune(x, rx, tx, cal) ==
  Tuned(x, AnalogFor(GetRate(x, "BBPLL"), GetRate(x, "ADC"), rx, tx),
        [RX |-> rx, TX |-> tx], cal)
\* For the bandwidths that are set, after a chain that was granted
RetuneIfOk(x, cal) == IF x.ok THEN Retune(x, x.bw["RX"], x.bw["TX"], cal) ELSE x
\* and after one whose result is dropped; ok still tells that both went well.
BothOk(x, y) == [y EXCEPT !.ok = y.ok /\ x.ok]
RetuneAnyway(x, cal) == BothOk(x, RetuneIfOk(Dropped(x), cal))
\* ad9361_set_rx_rf_bandwidth, ad9361_set_tx_rf_bandwidth: nothing is done at
\* the present bandwidth.
RfBandwidth(x, s, b, cal) ==
  LET new == [x.bw EXCEPT ![s] = ValidBw(b)]
  IN IF x.bw[s] = ValidBw(b) THEN x ELSE Retune(x, new["RX"], new["TX"], cal)

\* ad9361_load_fir_filter_coef: the enable field is put back after the load.
LoadFir(x, s, taps) ==
  IF taps = 0 \/ taps > 128 \/ taps % 16 # 0 THEN Fail(x)
  ELSE [x EXCEPT !.taps[s] = taps]

\* ad9361_set_rx_fir_config, ad9361_set_tx_fir_config: the factor is taken
\* though the load may fail.
SetFirConfig(x, s, factor, taps) ==
  LoadFir([x EXCEPT !.factor[s] = factor], s, taps)

\* Both filters of the file p, and what it says of them.
LoadFile(x, p) ==
  SetFirConfig(Dropped(SetFirConfig(x, "TX", p.cfg.int, p.cfg.txTaps)),
               "RX", p.cfg.dec, p.cfg.rxTaps)
WithFile(x, p, valid) ==
  [x EXCEPT !.filt = [valid |-> valid, clks |-> p.clks, rxBw |-> p.rxBw, txBw |-> p.txBw]]

FactorsFit(x) ==
  /\ \A s \in Sides : x.bypass[s] \/ x.factor[s] \in {1, 2, 4}
  /\ x.bypass["TX"] \/ x.factor["TX"] # 1 \/ x.taps["TX"] <= 64

TapsFitChain(x, ch) ==
  /\ x.bypass["TX"] \/ x.taps["TX"] <= (ch.tx[1] \div ch.tx[5]) * 16
  /\ x.bypass["RX"] \/
       x.taps["RX"] <= ((ch.rx[1] \div (IF ch.rx[1] = ch.rx[2] THEN 1 ELSE 2))
                          \div ch.rx[5]) * 16

\* The chain a filter is enabled with: the one that came with it, or one for
\* the present rate, or for the smallest.
FirUsesFile(x) == x.filt.valid /\ ~x.bypass["RX"] /\ ~x.bypass["TX"]
OrSlowest(ch, x) == IF ch # NoChain THEN ch ELSE ChainFor(x, IF x.gov = 1 THEN 150 ELSE 100)
FirChain(x) ==
  IF FirUsesFile(x) THEN x.filt.clks ELSE OrSlowest(ChainFor(x, GetRate(x, "TX")), x)

\* ad9361_validate_enable_fir
EnableFirWith(x, ch, locks, cal) ==
  LET file == FirUsesFile(x)
      RetuneFor(y) == Retune(y, IF file THEN x.filt.rxBw ELSE x.bw["RX"],
                                IF file THEN x.filt.txBw ELSE x.bw["TX"], cal)
      Finish(y) == IF y.ok THEN RetuneFor(y) ELSE y
  IN IF ~FactorsFit(x) \/ ch = NoChain THEN Fail(x)
     ELSE IF ~TapsFitChain(x, ch) THEN Fail(x)
     ELSE Finish(SetTrxClockChain(x, ch, locks))
ValidateEnableFir(x, locks, cal) == EnableFirWith(x, FirChain(x), locks, cal)

\* ad9361_set_rx_fir_en_dis, _tx_, _trx_: the sides S are switched.  A failure
\* leaves them bypassed in phy.
BypassedUnlessOk(x, S) ==
  IF x.ok THEN x ELSE [x EXCEPT !.bypass = [s \in Sides |-> s \in S \/ x.bypass[s]]]
SetFirEnable(x, S, on, locks, cal) ==
  IF \A s \in S : x.bypass[s] = ~on THEN x
  ELSE BypassedUnlessOk(
         ValidateEnableFir([x EXCEPT !.bypass = [s \in Sides |->
                              IF s \in S THEN ~on ELSE x.bypass[s]]], locks, cal), S)

-----------------------------------------------------------------------------
(***************************************************************************)
(* The steps.                                                              *)
(***************************************************************************)

\* A call ends with the radio x; set says what it set: "chain" and filters,
\* "filters" or "nothing".  What the driver remembers parts from what the chip does
\* when the PLL does not lock on a new word, and when a chain does not suit the
\* filters: one is switched then without its rate being remembered.
Ends(x, set, want) ==
  /\ bbCalls < MaxCalls /\ bbCalls' = bbCalls + 1
  /\ bb' = [x EXCEPT !.ok = TRUE, !.fits = TRUE]
  /\ bbLost' = ((bbLost \/ ~x.fits) /\ x.rate # Recalc(x.chip))
  /\ bbSteady' = IF set # "nothing" THEN x.ok ELSE bbSteady
  /\ bbWhole' = IF set = "chain" THEN x.ok ELSE bbWhole
  /\ bbSuits' = IF set = "chain" THEN x.fits /\ ~bbLost ELSE bbSuits
  /\ bbWant' = IF set = "nothing" THEN bbWant
               ELSE IF x.ok /\ ~bbLost THEN want ELSE <<>>
  /\ UNCHANGED wiring

\* ad9361_set_rx_sampling_freq and ad9361_set_tx_sampling_freq: the result of
\* the clock chain is dropped.
SetSamplingFreq ==
  \E f \in SamplFreqs, locks \in BOOLEAN, cal \in Cals :
    \E ch \in {ChainFor(bb, f)} :
      \/ ch = NoChain /\ UNCHANGED bbVars   \* refused at once
      \/ /\ ch # NoChain
         /\ \E y \in {SetTrxClockChain(bb, ch, locks)} :
              Ends(RetuneAnyway(y, cal), "chain", <<f, Factor(bb, "RX"), Factor(bb, "TX")>>)

\* ad9361_set_trx_path_clks: a chain from a filter's file, or the present one.
SetTrxPathClks ==
  \E ch \in {GetChain(bb)} \cup {p.clks : p \in FilterFiles},
     locks \in BOOLEAN, cal \in Cals :
    Ends(RetuneIfOk(SetTrxClockChain(bb, ch, locks), cal), "chain", <<>>)

SetRfBandwidth ==
  \E b \in Bandwidths, s \in Sides, cal \in Cals :
    /\ bb.bw[s] # ValidBw(b)
    /\ Ends(RfBandwidth(bb, s, b, cal), "filters", bbWant)

\* ad9361_set_trx_rate_gov
SetRateGov == \E g \in {0, 1} : Ends([bb EXCEPT !.gov = g], "nothing", <<>>)

\* ad9361_set_rx_fir_config, ad9361_set_tx_fir_config
SetFir ==
  \E c \in FirConfigs, s \in Sides :
    Ends(SetFirConfig(bb, s, IF s = "RX" THEN c.dec ELSE c.int,
                      IF s = "RX" THEN c.rxTaps ELSE c.txTaps),
         "nothing", <<>>)

\* The three calls that switch the filters.
SwitchFir ==
  \E S \in {{"RX"}, {"TX"}, Sides}, on \in BOOLEAN, locks \in BOOLEAN,
     cal \in Cals :
    /\ \E s \in S : bb.bypass[s] = on
    /\ Ends(SetFirEnable(bb, S, on, locks, cal), "chain", <<>>)

\* ad9361_parse_fir: the result of the transmitter's load is overwritten by
\* the receiver's; the rates and bandwidths count though the taps do not.
ParseFir ==
  \E p \in FilterFiles :
    \E y \in {LoadFile(bb, p)} : Ends(WithFile(y, p, y.ok), "nothing", <<>>)

\* ad9361_trx_load_enable_fir: all its results are dropped.
LoadEnableFir ==
  \E p \in FilterFiles, locks \in BOOLEAN, cal \in Cals :
    \E y \in {WithFile(Dropped(LoadFile(bb, p)), p, TRUE)} :
      Ends(SetFirEnable(y, Sides, TRUE, locks, cal),
           IF \A s \in Sides : ~bb.bypass[s] THEN "nothing" ELSE "chain", <<>>)

\* load_enable_fir_files: filter by filter, then the bandwidths, then the
\* rates that came with them; a failure stops nothing.
SwitchOn(x, s, locks) == Dropped(SetFirEnable(x, {s}, TRUE, locks, "ok"))
LoadAndSwitch(x, p, locks) ==
  SwitchOn(SwitchOn(Dropped(LoadFile(x, p)), "TX", locks), "RX", locks)
LoadEnableFirFiles ==
  \E p \in FilterFiles, locks \in BOOLEAN :
    \E x \in {LoadAndSwitch(bb, p, locks)} :
      \E y \in {RfBandwidth(RfBandwidth(x, "TX", p.txBw, "ok"), "RX", p.rxBw, "ok")} :
        Ends(RetuneIfOk(SetTrxClockChain(y, p.clks, locks), "ok"), "chain", <<>>)

\* The radio as ad9361_setup leaves it: main.c's chain, which ends in filters
\* that halve the rate, set on a chip out of reset whose filters are bypassed.
DefaultChain ==
  [bb |-> 98304, rx |-> <<24576, 12288, 6144, 3072, 1536>>,
   tx |-> <<12288, 12288, 6144, 3072, 1536>>]
OutOfReset ==
  [chip |-> [word |-> <<0, 0>>, ref |-> 5200, code |-> [s \in Stages |-> 0]],
   rate |-> [s \in Stages \cup {"BBPLL"} |-> 0],
   ok |-> TRUE, fits |-> TRUE,
   bypass |-> [s \in Sides |-> TRUE], factor |-> [s \in Sides |-> 0],
   taps |-> [s \in Sides |-> 0], gov |-> 1,
   filt |-> [valid |-> FALSE, clks |-> NoChain, rxBw |-> 0, txBw |-> 0],
   bw |-> [s \in Sides |-> 1800], analog |-> [adc |-> [adc |-> 0]],
   timing |-> [gain |-> 0, rssi |-> 0, aux |-> 0]]

BbInit ==
  /\ wiring \in Wirings
  /\ bb = [Retune(SetTrxClockChain(OutOfReset, DefaultChain, TRUE), 1800, 1800, "ok")
             EXCEPT !.fits = TRUE]
  /\ bbCalls = 0 /\ bbLost = FALSE /\ bbSteady = bb.ok /\ bbWhole = bb.ok
  /\ bbSuits = TRUE /\ bbWant = <<>>

BbNext ==
  \/ SetSamplingFreq \/ SetTrxPathClks \/ SetRfBandwidth \/ SetRateGov
  \/ SetFir \/ SwitchFir \/ ParseFir \/ LoadEnableFir \/ LoadEnableFirFiles

BbSpec == BbInit /\ [][BbNext]_bbVars

-----------------------------------------------------------------------------
(***************************************************************************)
(* Properties.                                                             *)
(***************************************************************************)

BbTypeOK ==
  /\ wiring \in Wirings
  /\ bb.ok /\ {bbLost, bbSteady, bbWhole, bbSuits} \subseteq BOOLEAN
  /\ \A s \in Stages : bb.chip.code[s] \in 0..6
  /\ bb.chip.word[1] \in 0..255 /\ bb.chip.word[2] \in 0..BBPLL_MODULUS

\* The rates the driver remembers, which decide what it skips and what it
\* divides by, are those the chip's registers amount to, after any sequence
\* of calls and failures but the two that part them.
RatesRemembered == bbLost \/ bb.rate = Recalc(bb.chip)

\* The PLL and the converters are never asked to run out of their ranges.
ClocksInRange ==
  LET r == Recalc(bb.chip)
  IN /\ MIN_BBPLL_FREQ - 40 <= r["BBPLL"] /\ r["BBPLL"] <= MAX_BBPLL_FREQ + 40
     /\ bbWant # <<>> => /\ InAdcRange(r["ADC"])
                        /\ r["DAC"] <= MAX_DAC_CLK + 40

Near(x, y, tolerance) == x - y \in 0 - tolerance..tolerance
Balanced == Smaller(bbWant[2], bbWant[3]) = 4 \/ bbWant[2] + bbWant[3] <= 4

\* A sample rate that was granted is the one both sides of the chip run at,
\* whatever was set, refused or left half done before: the chain, the
\* dividers that round, the clocks that are skipped and the filters agree.
RateObtained ==
  bbWant # <<>> /\ Balanced /\ ~wiring.twice =>
    /\ Near(Recalc(bb.chip)["RX"], bbWant[1], 2)
    /\ Near(Recalc(bb.chip)["TX"], bbWant[1], 2)

\* After a chain that was granted and suits the filters, a filter is in the chip's path
\* exactly when the driver counts with it.  A file whose rates are not those of its
\* filter can leave the filter bypassed in the chip: a stage at the rate that is
\* remembered is skipped.
FiltersSwitched ==
  bbWhole /\ bbSuits /\ ~bbLost => \A s \in Sides : bb.bypass[s] <=> bb.chip.code[s] = 0

\* After a call that was granted the analog filters and the ADC are tuned for
\* the clocks the chip has and for the bandwidths the driver tells.
FiltersFollow ==
  bbSteady /\ ~bbLost =>
    bb.analog = AnalogFor(Recalc(bb.chip)["BBPLL"], Recalc(bb.chip)["ADC"],
                          bb.bw["RX"], bb.bw["TX"])

\* Gain control, RSSI and auxiliary ADC count cycles of the clocks the chip
\* has.
TimingFollows ==
  bbWhole /\ ~bbLost =>
    LET r == Recalc(bb.chip)
    IN bb.timing = [gain |-> r["CLKRF"], rssi |-> r["RX"], aux |-> r["BBPLL"]]

\* After any sequence of rates, filters and bandwidths, refusals and failures among
\* them, what the driver remembers of its clocks is what the chip has, and the
\* filters and everything that counts clock cycles are set for those clocks.
ClocksAgree == RatesRemembered /\ FiltersSwitched /\ FiltersFollow /\ TimingFollows

\* A rate that is granted is obtained, with all clocks within their limits.
RatesGranted == RateObtained /\ ClocksInRange
=============================================================================
