--------------------------------- MODULE Agc ---------------------------------
(***************************************************************************)
(* The words of the gain control and of the RSSI (sw/ad9361.c): what        *)
(* ad9361_gc_setup and ad9361_rssi_setup write once, and what                *)
(* ad9361_gc_update and the update of the RSSI write whenever a clock of the *)
(* baseband changes (ad9361_bb_clk_change_handler).                         *)
(*                                                                         *)
(* Clocks are in kHz and times in the units of the code; a word of the chip *)
(* is the number in its field.                                             *)
(***************************************************************************)
EXTENDS ClockChain

CONSTANTS
  AgcClocks,    \* the clocks: [clkrf, rate] of the receiver, in kHz
  AgcConfs,     \* gain_ctrl and elna_ctrl of pdata: [lnaNs, marginUs,
                \* intervalUs, waitNs, fastDur, slowDur, thresholds, ...]
  RssiConfs     \* rssi_ctrl: [samples, delay, wait, duration, mode]

\* A receiver never runs faster than the clock above it, and the logarithm of
\* the slow measurement, in sixteens of a sample, fits its field of four bits.
ASSUME AgcAssumption ==
  /\ \A k \in AgcClocks : k.clkrf \in Nat /\ k.rate \in Nat /\ 0 < k.rate /\ k.rate <= k.clkrf
  /\ \A c \in AgcConfs :
       /\ c.lnaNs \in Nat /\ c.intervalUs \in Nat
       /\ c.slowDur \in Nat /\ 0 < c.slowDur /\ c.slowDur < 1048576
       /\ c.adcSmall \in Nat /\ c.adcLarge \in Nat /\ c.lmtHigh \in Nat /\ c.lmtLow \in Nat
       /\ c.innerHigh \in Nat /\ c.innerLow \in Nat /\ c.outerHigh \in Nat /\ c.outerLow \in Nat
  /\ \A c \in RssiConfs : c.duration \in Nat /\ c.samples \in BOOLEAN

VARIABLES
  agcConf, rssiConf,   \* pdata
  agcClock,            \* the clocks as they are
  agcFast,             \* a receiver is in the fast attack mode
  agcSetup,            \* the words of gc_setup
  agcWords,            \* the words of gc_update
  rssiWords            \* the words of rssi_setup

agcVars == <<agcConf, rssiConf, agcClock, agcFast, agcSetup, agcWords, rssiWords>>

\* clamp_t(uint8_t, ...) cuts the value to a byte before it is compared.
ClampByte(x, low, high) == Clamp(x % 256, low, high)

-----------------------------------------------------------------------------
(***************************************************************************)
(* ad9361_gc_setup.                                                        *)
(***************************************************************************)

\* The smaller threshold is the one of the small overload.
AdcThresholds(c) ==
  IF c.adcLarge >= c.adcSmall THEN [small |-> c.adcSmall, large |-> c.adcLarge]
                              ELSE [small |-> c.adcLarge, large |-> c.adcSmall]

\* A threshold of the LMT in steps of 16 mV, from the first on; below it the
\* unsigned difference wraps to the largest.
LmtThreshold(mV) == IF mV < 16 THEN 63 ELSE Clamp(mV \div 16 - 1, 0, 63)

\* The level of a slow gain control, as distances from the inner thresholds
Levels(c) ==
  LET high == ClampByte(c.innerHigh, 0, 127)
      low == ClampByte(c.innerLow, 0, 127)
  IN [innerHigh |-> high, innerLow |-> low,
      outerHigh |-> (high - c.outerHigh) % 16, outerLow |-> (c.outerLow - low) % 16]

\* What a fast attack does with its gain lock: the bit of going to the optimized
\* gain is one for energy that is lost and for the pin EN_AGC.
UnlockBits(c) ==
  [freeze |-> ~c.onStronger, keepLost |-> ~c.onLost,
   keepOverload |-> ~c.onAdc \/ ~c.onLmt, keepAdc |-> ~c.onAdc,
   control |-> ~c.onStronger \/ ~c.onLost \/ ~c.onAdc \/ ~c.onLmt \/ c.pin,
   toSet |-> c.pin /\ c.pinMode = "set",
   toMaxOrOpt |-> c.pin /\ c.pinMode \in {"max", "optimized"},
   optimized |-> CASE c.pin /\ c.pinMode = "max" -> FALSE
                   [] c.pin /\ c.pinMode = "optimized" -> TRUE
                   [] OTHER -> c.lostToOptimized]

\* The words of the fast attack that only end at the width of their field
FastLimits ==
  [upperLimit |-> 63, lpfSteps |-> 3, lmtSteps |-> 3, overrange |-> 7, offset |-> 15,
   stronger |-> 63, lost |-> 63, exitCount |-> 63]

\* The steps of the manual gain control, and the rest of the words that are
\* clamped; an increment of 0 steps wraps to the most.
GcSetup(c) ==
  [adc |-> AdcThresholds(c), lmtHigh |-> LmtThreshold(c.lmtHigh),
   lmtLow |-> LmtThreshold(c.lmtLow), levels |-> Levels(c), unlock |-> UnlockBits(c),
   samples |-> ClampByte(c.adcSamples, 1, 8) - 1,
   up |-> ClampByte(c.up, 1, 8) - 1, down |-> ClampByte(c.down, 1, 8) - 1,
   lowPower |-> ClampByte(c.lowPower, 0, 64) * 2,
   increments |-> IF c.increments = 0 THEN 7 ELSE Clamp(c.increments - 1, 0, 7),
   fast |-> [f \in DOMAIN FastLimits |-> Clamp(c.fast[f], 0, FastLimits[f])],
   final |-> Clamp(Log2(c.state5Dur \div 16), 0, 15)]

-----------------------------------------------------------------------------
(***************************************************************************)
(* ad9361_gc_update.                                                       *)
(***************************************************************************)

\* In microseconds, rounded up
AttackDelay(c, clkrf) ==
  LET ns == (200 + c.lnaNs) \div 2 + 14000000 \div (clkrf * 2)
  IN ClampByte(RoundUpDiv(ns, 1000) + c.marginUs, 0, 31)
\* In cycles of CLKRF
PeakWait(c, clkrf) == ClampByte(RoundUpDiv((c.lnaNs + 100) * clkrf, 1000000) + 1, 0, 31)
\* In two cycles of CLKRF
SettlingDelay(c, clkrf) ==
  ClampByte(RoundUpDiv((c.lnaNs + 200) * (clkrf \div 2), 1000000) + 7, 0, 31)

\* In two cycles of CLKRF; an interval shorter than the settling wraps to the
\* longest.
UpdateCycles(c, clkrf) ==
  LET n == c.intervalUs * clkrf - SettlingDelay(c, clkrf) * 2000 - 2000
  IN IF n < 0 THEN 131071 ELSE Clamp(RoundDiv(n, 2000), 0, 131071)

\* The samples of a power measurement: in slow modes two must fit into the
\* update interval, whose cycles count double here.
MeasureDuration(c, clk, fast) ==
  LET cycles == UpdateCycles(c, clk.clkrf)
      fir == RoundDiv(clk.clkrf, clk.rate)
  IN IF fast THEN c.fastDur
     ELSE IF ((cycles * 2) \div fir) \div c.slowDur < 2 THEN cycles \div fir
     ELSE c.slowDur

\* Mutant: the counter that is halved is not marked as counting double.
UpdateCounterPlain(cycles) ==
  [double |-> FALSE, counter |-> IF cycles > 65535 THEN cycles \div 2 ELSE cycles]
\* The counter has 16 bits, and one that says that it counts double.
UpdateCounter(cycles) ==
  IF cycles > 65535 THEN [double |-> TRUE, counter |-> cycles \div 2]
                    ELSE [double |-> FALSE, counter |-> cycles]

GcUpdate(c, clk, fast) ==
  [attack |-> AttackDelay(c, clk.clkrf), peak |-> PeakWait(c, clk.clkrf),
   settling |-> SettlingDelay(c, clk.clkrf),
   update |-> UpdateCounter(UpdateCycles(c, clk.clkrf)),
   measure |-> Log2(MeasureDuration(c, clk, fast) \div 16),
   energy |-> Clamp(RoundDiv(c.waitNs * clk.clkrf, 1000000), 0, 31)]

-----------------------------------------------------------------------------
(***************************************************************************)
(* ad9361_rssi_setup.                                                      *)
(***************************************************************************)

\* 1 << i
TwoTo(i) == 2^i

\* The largest power of two, up to 2^14, that fits into n samples, and what it
\* leaves of them
Largest(n) == CHOOSE i \in 0..14 : TwoTo(i) <= n /\ (i < 14 => n < TwoTo(i + 1))
Left(n) == IF n = 0 THEN 0 ELSE n - TwoTo(Largest(n))

\* The duration as up to four powers of two, each the largest that fits
Durations(n) ==
  LET left == <<n, Left(n), Left(Left(n)), Left(Left(Left(n)))>>
  IN [i \in {k \in 1..4 : left[k] > 0} |-> Largest(left[i])]

\* What they last together
Lasting(durs, i) == IF i \in DOMAIN durs THEN TwoTo(durs[i]) ELSE 0
Total(durs) == Lasting(durs, 1) + Lasting(durs, 2) + Lasting(durs, 3) + Lasting(durs, 4)

\* Each duration's weight is its share of 255, rounded.
Share(durs, i) == IF i \in DOMAIN durs THEN RoundDiv(255 * TwoTo(durs[i]), Total(durs)) ELSE 0

\* The total of all weights must be 255: the last takes what the
\* rounding left; written to the chip, a byte of it remains.
Weights(durs) ==
  LET over == Share(durs, 1) + Share(durs, 2) + Share(durs, 3) + Share(durs, 4) - 255
      last(i) == i \in DOMAIN durs /\ i + 1 \notin DOMAIN durs
  IN [i \in 1..4 |-> IF last(i) THEN (Share(durs, i) - over) % 256 ELSE Share(durs, i)]

\* Times are in samples, or in microseconds at the rate of the receiver.
InSamples(conf, rate, us) == IF conf.samples THEN us ELSE RoundDiv(us * rate, 1000)

\* A restart by the pin EN_AGC waits for no delay.
RssiDelay(conf, rate) ==
  Clamp((IF conf.mode = "pin" THEN 0 ELSE InSamples(conf, rate, conf.delay)) \div 8, 0, 255)
RssiWait(conf, rate) == Clamp(InSamples(conf, rate, conf.wait) \div 4, 0, 255)

RssiSetup(conf, clk) ==
  LET n == InSamples(conf, clk.rate, conf.duration)
      durs == Durations(n)
  IN [durations |-> durs, weights |-> Weights(durs),
      delay |-> RssiDelay(conf, clk.rate), wait |-> RssiWait(conf, clk.rate),
      powerOfTwo |-> Left(n) = 0 /\ DOMAIN durs = {1}]

-----------------------------------------------------------------------------
(***************************************************************************)
(* The steps.                                                              *)
(***************************************************************************)

\* ad9361_setup
AgcInit ==
  /\ agcConf \in AgcConfs /\ rssiConf \in RssiConfs
  /\ agcClock \in AgcClocks /\ agcFast \in BOOLEAN
  /\ agcSetup = GcSetup(agcConf)
  /\ agcWords = GcUpdate(agcConf, agcClock, agcFast)
  /\ rssiWords = RssiSetup(rssiConf, agcClock)

\* ad9361_bb_clk_change_handler; the RSSI in samples needs no update.
BbClkChange ==
  \E clk \in AgcClocks :
    /\ agcClock' = clk
    /\ agcWords' = GcUpdate(agcConf, clk, agcFast)
    /\ rssiWords' = IF rssiConf.samples THEN rssiWords ELSE RssiSetup(rssiConf, clk)
    /\ UNCHANGED <<agcConf, rssiConf, agcFast, agcSetup>>

\* ad9361_set_gain_ctrl_mode
ChangeMode ==
  /\ agcFast' = ~agcFast
  /\ agcWords' = GcUpdate(agcConf, agcClock, agcFast')
  /\ UNCHANGED <<agcConf, rssiConf, agcClock, agcSetup, rssiWords>>

AgcNext == BbClkChange \/ ChangeMode
AgcSpec == AgcInit /\ [][AgcNext]_agcVars

-----------------------------------------------------------------------------
(***************************************************************************)
(* Properties.                                                             *)
(***************************************************************************)

\* The order the configuration gives its levels arrives in the chip: the small
\* overload below the large one, the thresholds of the LMT in their order when
\* neither is below the first step, and around the inner levels the outer ones
\* that were asked for, when their distance fits its four bits.
LevelsOrdered ==
  LET c == agcConf
      v == agcSetup.levels
  IN /\ agcSetup.adc.small <= agcSetup.adc.large
     /\ {agcSetup.adc.small, agcSetup.adc.large} = {c.adcSmall, c.adcLarge}
     /\ 16 <= c.lmtLow /\ c.lmtLow <= c.lmtHigh => agcSetup.lmtLow <= agcSetup.lmtHigh
     /\ v.innerHigh - c.outerHigh \in 0..15 => v.innerHigh - v.outerHigh = c.outerHigh
     /\ c.outerLow - v.innerLow \in 0..15 => v.innerLow + v.outerLow = c.outerLow

\* The settling delay lasts the external amplifier's and 200 ns more, and 14
\* cycles, up to the end of its field (the formula of ad9361.c:2095), as long as
\* the number that is clamped still fits a byte.
SettlingLongEnough ==
  LET ns == agcConf.lnaNs + 200
  IN ns * (agcClock.clkrf \div 2) <= 248000000 /\ agcWords.settling < 31 =>
       2 * agcWords.settling * 1000000 >= ns * (agcClock.clkrf - 1) + 14000000

\* The counter of the gain update, doubled when it says so, is the interval
\* within one tick, and fits its 16 bits.
UpdateCounterHolds ==
  LET u == agcWords.update
      cycles == UpdateCycles(agcConf, agcClock.clkrf)
  IN /\ u.counter <= 65535
     /\ (IF u.double THEN 2 ELSE 1) * u.counter \in {cycles, cycles - 1}

\* Two measurements fit, each of sixteen samples and the power of two of its word.
FitsTwice(measure, samples) == 2 * 16 * 2^measure <= samples

\* In the slow modes the power of two that is measured fits twice into the gain
\* update interval, when that is as long as two of the shortest measurement.
MeasuredTwice ==
  LET fir == RoundDiv(agcClock.clkrf, agcClock.rate)
      samples == (UpdateCycles(agcConf, agcClock.clkrf) * 2) \div fir
  IN ~agcFast /\ samples >= 32 => FitsTwice(agcWords.measure, samples)

\* The words of the RSSI are those of the clocks in force: its durations last the
\* time asked for whatever the receiver's rate has become, unless four are too
\* few, and it measures a power of two exactly when the samples asked for are one.
RssiFollowsRate ==
  ~rssiConf.samples =>
    LET n == Total(rssiWords.durations)
        asked == rssiConf.duration * agcClock.rate
    IN /\ n * 1000 <= asked + 500
       /\ 4 \notin DOMAIN rssiWords.durations => n * 1000 >= asked - 500
       /\ rssiWords.powerOfTwo <=>
            \E k \in 0..14 : RoundDiv(asked, 1000) = TwoTo(k)

\* Up to three durations have weights that total 255, and each duration's is
\* within one of its share, the last one's too, which takes what the rounding of
\* the others left. (Of four the rounded weights may be 256, and the last is then
\* 255, where the comment at ad9361.c:4146 has the total be 255.)
WeightsUpToThree ==
  LET d == rssiWords.durations
      w == rssiWords.weights
  IN 1 \in DOMAIN d /\ 4 \notin DOMAIN d =>
       /\ w[1] + w[2] + w[3] + w[4] = 255
       /\ \A i \in DOMAIN d :
            /\ w[i] * Total(d) <= 255 * TwoTo(d[i]) + Total(d)
            /\ w[i] * Total(d) >= 255 * TwoTo(d[i]) - Total(d)

\* What the gain control and the RSSI are given in cycles and samples lasts as long
\* as it was asked to at the clocks in force, and ordered levels arrive in order.
TimesFollowClocks ==
  /\ SettlingLongEnough /\ UpdateCounterHolds /\ MeasuredTwice
  /\ RssiFollowsRate /\ WeightsUpToThree /\ LevelsOrdered
=============================================================================
