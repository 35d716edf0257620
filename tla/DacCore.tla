------------------------------- MODULE DacCore -------------------------------
(***************************************************************************)
(* The transmit and the receive core next to the AD9361, as the ports of the *)
(* platform drive them (dac_core.c, adc_core.c): the tone generators of the  *)
(* DAC core, its sources, the sine a DMA plays, and the corrections of I and *)
(* Q. Frequencies are in kHz, phases in thousandths of a degree, scales in   *)
(* millionths.                                                             *)
(*                                                                         *)
(* The fields of `dac` are                                                  *)
(*   rate               the clock of the samples                            *)
(*   two                two transmitters are in use (rx2tx2)                 *)
(*   freq, phase, scale what the driver remembers of each channel (cached_)  *)
(*   incr, init, mag    the registers of each channel                       *)
(*   enable, on         dds_state's enable, and the generators run          *)
(*   sel, r1, pace      the sources, the mode and the rate of the core       *)
(*   played             what the DMA plays, or <<>>                          *)
(*   coeff              the registers of the corrections, and their bit ENB  *)
(*   adc                the receive core's channels that are enabled         *)
(*   dead               the driver was stopped by a division by zero         *)
(***************************************************************************)
EXTENDS Integers, Sequences

CONSTANTS
  DacBoards,    \* [port, version, two, lvds, firFile]: the port, the version of the
                \* core, and whether the filters in use came from a file with its rates
  DacRates,     \* rates of the samples
  ResetRate,    \* the rate of a chip that was reset
  Corrections,  \* <<val, val2>>: val + val2 / 1000000, val2 signed only if val is 0
  CorrectedChannels, \* bound: the channels, of 0..3, that are corrected
  MaxDacCalls   \* bound: the calls made

Magnitude(x) == IF x < 0 THEN -x ELSE x

\* Rates are not zero; a correction is of less than two either way, and its second
\* part has a sign of its own only if the first is zero.
DacAssumption ==
  /\ ResetRate \in Nat \ {0} /\ DacRates \subseteq Nat \ {0} /\ MaxDacCalls \in Nat
  /\ DacBoards \subseteq [port : {"linux", "xilinx", "altera"}, version : Nat,
                         two : BOOLEAN, lvds : BOOLEAN, firFile : BOOLEAN]
  /\ CorrectedChannels \subseteq 0..3
  /\ \A x \in Corrections :
       /\ x[1] \in {-1, 0, 1} /\ x[2] \in Int
       /\ Magnitude(x[2]) < 1000000 /\ (x[1] # 0 => x[2] >= 0)
ASSUME DacAssumption

VARIABLES
  dacBoard, dac, dacCalls,
  stale,        \* ghost: the rate changed after the tones were set for it
  corrected     \* ghost: the corrections asked for

dacVars == <<dacBoard, dac, dacCalls, stale, corrected>>

ToneChannels == 0..7
\* DDS_CHAN_TX1_I_F1 .. DDS_CHAN_TX2_Q_F2
ToneChannel(tx, part, tone) == 4 * (tx - 1) + (IF part = "I" THEN 0 ELSE 2) + tone - 1
OldCore == dacBoard.version < 8

-----------------------------------------------------------------------------
(***************************************************************************)
(* The tone generators.                                                    *)
(***************************************************************************)

\* dac_stop, the write, dac_start_sync: an old core runs on only if it is enabled.
Restarted(d) == [d EXCEPT !.on = IF OldCore THEN d.enable ELSE TRUE]

\* The increment for a frequency: its lowest bit is always set.
IncrWord(f, rate) ==
  LET word == ((f * 65535) \div rate) % 65536
  IN IF word % 2 = 0 THEN word + 1 ELSE word
\* dds_set_frequency
ToneFrequency(d, c, f) ==
  Restarted([d EXCEPT !.freq[c] = f, !.incr[c] = IncrWord(f, d.rate)])

\* The word for a phase: 65536 steps of 360 degrees, rounded
PhaseWord(p) == ((p * 2048 + 5625) \div 11250) % 65536
\* dds_set_phase
TonePhase(d, c, p) == Restarted([d EXCEPT !.phase[c] = p, !.init[c] = PhaseWord(p)])

\* The scale that is remembered
ScaleKept(s) ==
  LET least == IF dacBoard.version > 6 THEN -1000000 ELSE 0
  IN IF s >= 1000000 THEN 1000000 ELSE IF s <= least THEN least ELSE s
\* 1.1.14, sign and magnitude; before version 7 a divisor, of which the register
\* has 16 bits
ScaleWord(s) ==
  IF dacBoard.version > 6 THEN (IF s < 0 THEN 32768 ELSE 0) + (Magnitude(s) * 256) \div 15625
  ELSE (500000 \div s) % 65536
\* dds_set_scale
ToneScale(d, c, s) ==
  LET kept == ScaleKept(s)
  IN IF dacBoard.version <= 6 /\ kept = 0
     THEN [d EXCEPT !.scale[c] = 0, !.dead = TRUE]
     ELSE Restarted([d EXCEPT !.scale[c] = kept, !.mag[c] = ScaleWord(kept)])

\* The four channels of a transmitter, one after the other
EachTone(set(_, _), d, tx) ==
  LET first == 4 * (tx - 1)
  IN set(set(set(set(d, first), first + 1), first + 2), first + 3)

\* dds_default_setup
DefaultTone(d, c) ==
  ToneScale(ToneFrequency(TonePhase(d, c, IF c \in {0, 1, 4, 5} THEN 90000 ELSE 0), c, 1000), c, 250000)

\* Mutant: the increment is not set again.
UpdatedScale(d, c) == IF d.dead THEN d ELSE ToneScale(d, c, d.scale[c])
\* dds_update, a channel: none after the one that stopped the driver
Updated(d, c) ==
  IF d.dead THEN d
  ELSE ToneScale(TonePhase(ToneFrequency(d, c, d.freq[c]), c, d.phase[c]), c, d.scale[c])
\* dds_update
UpdateTones(d) == EachTone(Updated, EachTone(Updated, d, 1), 2)

-----------------------------------------------------------------------------
(***************************************************************************)
(* dac_init, adc_init.                                                     *)
(***************************************************************************)

\* dac_datasel for all channels; a newer core has a register for each, of which the
\* ports write a different number.
Selected(d, sel) ==
  [d EXCEPT !.sel = [c \in DOMAIN d.sel |->
     IF OldCore \/ c < (IF dacBoard.port = "linux" THEN 8 ELSE 4) \div (IF d.two THEN 1 ELSE 2)
     THEN sel ELSE d.sel[c]]]

\* The rate of the core's interface: three extra clocks per sample for two
\* transmitters on LVDS
Pace(two, lvds) == (IF two THEN 1 ELSE 0) + (IF lvds THEN (IF two THEN 2 ELSE 1) ELSE 0)
\* Altera: the rate of CMOS in either case
PaceAltera(two) == IF two THEN 1 ELSE 0

\* The places of the sine table that are I and Q of each sample of a transmitter.
\* Linux divides the places by two in both modes, the others only where they went
\* up by two.
SineLinux(two) ==
  LET n == 32 IN
  IF two THEN [k \in 0..n - 1 |-> LET q == 2 * k + n \div 2
                                  IN <<k, (IF q >= 2 * n THEN q - 2 * n ELSE q) \div 2>>]
  ELSE [k \in 0..n - 1 |-> LET q == k + n \div 4
                           IN <<k \div 2, (IF q >= n THEN q - n ELSE q) \div 2>>]
SineBare(two) ==
  LET n == 128 IN
  IF two THEN [k \in 0..n - 1 |-> LET q == 2 * k + n \div 2
                                  IN <<k, (IF q >= 2 * n THEN q - 2 * n ELSE q) \div 2>>]
  ELSE [k \in 0..n - 1 |-> LET q == k + n \div 4
                           IN <<k, IF q >= n THEN q - n ELSE q>>]
\* The buffer, and the bytes the DMA is told to play over and over
Played(two) ==
  LET sine == IF dacBoard.port = "linux" THEN SineLinux(two) ELSE SineBare(two)
      n == IF dacBoard.port = "linux" THEN 32 ELSE 128
  IN [sine |-> sine, n |-> n, words |-> IF two THEN 2 * n ELSE n,
      bytes |-> IF two THEN n * 8 ELSE n * 4]

\* adc_init of Xilinx and Altera
AdcEnabledBare(two, before) == IF two THEN 0..3 ELSE 0..1
\* adc_init of Linux disables none.
AdcEnabledLinux(two, before) == before \cup (IF two THEN 0..3 ELSE 0..1)

\* axiadc_init (source "dds"), dac_init with DATA_SEL_DMA and config_dma ("dma")
CoresInit(d, two, source) ==
  LET ready == [d EXCEPT !.two = two, !.r1 = ~two, !.on = FALSE,
                         !.pace = IF dacBoard.port = "altera" THEN PaceAltera(two)
                                  ELSE Pace(two, dacBoard.lvds),
                         !.adc = IF source = "dma" THEN @
                                 ELSE IF dacBoard.port = "linux" THEN AdcEnabledLinux(two, @)
                                 ELSE AdcEnabledBare(two, @)]
      first == EachTone(DefaultTone, ready, 1)
      tones == IF two THEN EachTone(DefaultTone, first, 2) ELSE first
      chosen == IF source = "dds" THEN Selected(tones, "dds")
                ELSE Selected([ready EXCEPT !.played = Played(two)], "dma")
  IN Restarted([chosen EXCEPT !.enable = TRUE])

-----------------------------------------------------------------------------
(***************************************************************************)
(* The corrections of I and Q: 1.1.14, sign, integer and fraction.           *)
(***************************************************************************)

\* Mutant: the fraction is rounded down.
ToSignedMagFloor(val, val2) ==
  (CASE val = 1 -> 16384 [] val = -1 -> 49152 [] OTHER -> IF val2 < 0 THEN 32768 ELSE 0)
    + (Magnitude(val2) * 256) \div 15625
\* dds_to_signed_mag_fmt; the fraction is put in by |, a fraction that is rounded
\* up to one is lost in the integer.
ToSignedMag(val, val2) ==
  LET head == CASE val = 1 -> 16384 [] val = -1 -> 49152 [] OTHER -> IF val2 < 0 THEN 32768 ELSE 0
      fract == (Magnitude(val2) * 512 + 15625) \div 31250
  IN IF val # 0 /\ fract = 16384 THEN head ELSE head + fract
\* dds_from_signed_mag_fmt
FromSignedMag(word) ==
  LET sign == IF word >= 32768 THEN -1 ELSE 1
      val == IF (word \div 16384) % 2 = 1 THEN sign ELSE 0
      val2 == (((word % 16384) * 15625) + 128) \div 256
  IN <<val, IF val = 0 THEN sign * val2 ELSE val2>>

\* The scale of I and the phase of Q are the first coefficient.
Coefficient(c, phase) == IF (c + phase) % 2 = 0 THEN 1 ELSE 2
\* dds_set_calib_scale (phase 0), dds_set_calib_phase (phase 1); adc_set_calib_
\* differs only in that a val but -1, 0 and 1 is refused.
SetCorrection ==
  \E c \in CorrectedChannels, phase \in {0, 1}, x \in Corrections :
    /\ ~OldCore
    /\ dac' = [dac EXCEPT !.coeff[c][Coefficient(c, phase)] = ToSignedMag(x[1], x[2])]
    /\ corrected' = [corrected EXCEPT ![c][phase] = x]
    /\ UNCHANGED stale
\* dds_get_calib_scale, dds_get_calib_phase
GetCorrection(c, phase) == FromSignedMag(dac.coeff[c][IF (phase + c) % 2 = 0 THEN 1 ELSE 2])

-----------------------------------------------------------------------------
(***************************************************************************)
(* The calls.                                                              *)
(***************************************************************************)

\* The cores are set up before the chip is, at the rate of a chip that was reset.
SetUpCores(d, two, rate) == [CoresInit([d EXCEPT !.rate = ResetRate], two, "dds") EXCEPT !.rate = rate]

NoTones == [c \in ToneChannels |-> 0]
DacInit ==
  /\ dacBoard \in DacBoards /\ dacCalls = 0 /\ stale = TRUE
  /\ \E rate \in DacRates :
       dac = SetUpCores(
         [rate |-> 0, two |-> FALSE, freq |-> NoTones, phase |-> NoTones, scale |-> NoTones,
          incr |-> NoTones, init |-> NoTones, mag |-> NoTones, enable |-> FALSE, on |-> FALSE,
          sel |-> [c \in 0..7 |-> "none"], r1 |-> FALSE, pace |-> 0, played |-> <<>>,
          coeff |-> [c \in 0..3 |-> <<0, 0>>], adc |-> {}, dead |-> FALSE], dacBoard.two, rate)
  /\ corrected = [c \in 0..3 |-> [phase \in {0, 1} |-> <<0, 0>>]]

\* ad9361_set_no_ch_mode
SetCoresMode ==
  \E two \in BOOLEAN, rate \in DacRates :
    /\ dac' = SetUpCores(dac, two, rate) /\ stale' = TRUE
    /\ UNCHANGED corrected
\* ad9361_set_tx_sampling_freq and its like, from a program
SetRate ==
  \E rate \in DacRates :
    /\ dac' = [dac EXCEPT !.rate = rate] /\ stale' = TRUE
    /\ UNCHANGED corrected
\* dac_init with DATA_SEL_DMA
PlaySine == /\ dac' = CoresInit(dac, dac.two, "dma")
            /\ UNCHANGED <<stale, corrected>>

DacCalls == SetCoresMode \/ SetRate \/ PlaySine \/ SetCorrection

-----------------------------------------------------------------------------
(***************************************************************************)
(* Properties.                                                             *)
(***************************************************************************)

UsedTones == IF dac.two THEN 0..7 ELSE 0..3

DacTypeOK ==
  /\ dac.rate \in DacRates /\ dac.adc \subseteq 0..3
  /\ \A c \in ToneChannels :
       /\ dac.incr[c] \in 0..65535 /\ dac.init[c] \in 0..65535 /\ dac.mag[c] \in 0..65535
       /\ Magnitude(dac.scale[c]) <= 1000000
  /\ \A c \in 0..3, i \in 1..2 : dac.coeff[c][i] \in 0..65535

\* The tone of c is within one step of the generator of what is remembered of it;
\* the increments are for 65535 steps, not 65536, and odd.
InTune(c) ==
  dac.freq[c] \in 0..(dac.rate - 1) =>
    dac.freq[c] * 65536 - dac.incr[c] * dac.rate
      \in (dac.freq[c] - dac.rate)..(dac.freq[c] + dac.rate - 1)
\* The tones follow the rate of the samples where the driver sets them again.
TonesFollowRate == ~stale /\ ~dac.dead => \A c \in UsedTones : InTune(c)
\* I and Q of a tone are one frequency a quarter period apart, with one scale, in
\* whatever order their phases, the rate and the mode are set.
Quadrature ==
  \A tx \in {1, 2}, tone \in {1, 2} :
    LET i == ToneChannel(tx, "I", tone)  q == ToneChannel(tx, "Q", tone)
        apart == (dac.init[i] - dac.init[q]) % 65536
    IN ~dac.dead /\ {i, q} \subseteq UsedTones =>
         apart = 16384 /\ dac.incr[i] = dac.incr[q] /\ dac.mag[i] = dac.mag[q]

\* The scale that is remembered is the one in force, but for a divisor of more bits
\* than its register has: a scale below eight millionths before version 7.
ScalesInForce ==
  \A c \in UsedTones : ~dac.dead =>
    IF dacBoard.version > 6
    THEN LET lost == Magnitude(dac.scale[c]) * 256 - (dac.mag[c] % 32768) * 15625
         IN lost >= 0 /\ lost < 15625 /\ (dac.scale[c] < 0 <=> dac.mag[c] >= 32768)
    ELSE dac.scale[c] >= 8 => 500000 - dac.mag[c] * dac.scale[c] \in 0..(dac.scale[c] - 1)

\* Both cores follow a change of the number of channels: a source for every tone in
\* use, the mode, and the receive channels (Linux leaves enabled what was).
CoresFollowMode ==
  /\ dac.r1 = ~dac.two /\ dac.enable /\ dac.on
  /\ \A c, e \in 0..(IF dac.two THEN 3 ELSE 1) : dac.sel[c] = dac.sel[e] /\ dac.sel[c] # "none"
  /\ (IF dac.two THEN 0..3 ELSE 0..1) \subseteq dac.adc
  /\ dacBoard.port # "linux" => dac.adc = IF dac.two THEN 0..3 ELSE 0..1

\* What the DMA plays is one period of a sine with Q a quarter period after I, and
\* it plays all of it; for one transmitter on Linux it is half a period (see README).
SinePlayed ==
  dac.played # <<>> =>
    LET p == dac.played IN
    /\ p.bytes = 4 * p.words
    /\ dacBoard.port # "linux" \/ p.words = 2 * p.n =>
         \A k \in DOMAIN p.sine : p.sine[k][1] = k /\ p.sine[k][2] = (k + p.n \div 4) % p.n

\* A correction reads back as it was set, to within half a step, whatever other
\* corrections of the channel were set in between; but a fraction next to one
\* loses itself in an integer of one.
CorrectionReadsBack ==
  \A c \in 0..3, phase \in {0, 1} :
    LET x == corrected[c][phase]  got == GetCorrection(c, phase)
    IN x[1] = 0 \/ x[2] < 999970 =>
         Magnitude((got[1] - x[1]) * 1000000 + got[2] - x[2]) <= 31

\* The cores play what is remembered: tones in tune and in quadrature, in every
\* channel of the mode, and the whole of a sine.
CoresFollow == TonesFollowRate /\ Quadrature /\ CoresFollowMode /\ SinePlayed
=============================================================================
