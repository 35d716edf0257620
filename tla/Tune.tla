-------------------------------- MODULE Tune ---------------------------------
(***************************************************************************)
(* The tuning of the data interface between the AD9361 and the FPGA         *)
(* (sw/ad9361_conv.c) and what the driver uses for it and has to put back:  *)
(* the attenuation, the test patterns, the loopbacks, the sampling rate and *)
(* the registers of the FPGA's cores.  The enable state machine, which the   *)
(* tuning moves too, is in module Ensm.                                     *)
(*                                                                         *)
(* A call is an operator on the record `tune`.  Its fields are              *)
(*   rx, tx          <<clock delay, data delay>> in the chip                *)
(*   pdRx, pdTx      the delays in pdata, which set-up writes into the chip *)
(*   speed           the sampling rate, one of 1..3                         *)
(*   fir             the FIR filters are not bypassed                       *)
(*   atten, cached   the attenuation, and the one a mute remembers          *)
(*   chipBist, bist  REG_BIST_CONFIG, and phy->bist_config                  *)
(*   chipLoop, loop  the loop in the chip, and bist_loopback_mode           *)
(*   dacSource, scratch   what the DAC core sends, and what it sent before  *)
(*                   the loop; adcControl, the channels of the ADC core     *)
(*   ok              the tuning in progress has found delays                *)
(*   found, kept     ghosts: by side, the filters and rates the delays were *)
(*                   found for, in the chip and in pdata                    *)
(***************************************************************************)
EXTENDS Search, FiniteSets

CONSTANTS
  TuneBoards,    \* pdata and cores: [skip, firTune, newCore, slave]
  Eyes,          \* what the wiring lets through: [side, fir, speed], a set of
                 \* differences of data delay and clock delay
  LastDelay,     \* 15 in the code
  MaxTuneCalls   \* bound: the calls made after set-up
ASSUME TuneAssumption ==
  /\ TuneBoards \subseteq [skip : 0..2, firTune : BOOLEAN, newCore : BOOLEAN, slave : BOOLEAN]
  /\ LastDelay \in Nat \ {0} /\ MaxTuneCalls \in Nat

VARIABLES
  tuneBoard, eye, tune, tuneCalls,
  attenAsked,    \* ghost: the attenuation set last
  speedAsked,    \* ghost: the rate set last; 0 after a set-up that failed
  loopLost       \* ghost: the FPGA's loop was asked for twice, or not restored after a reset

tuneVars == <<tuneBoard, eye, tune, tuneCalls, attenAsked, speedAsked, loopLost>>

Speeds == 1..3
PdSpeed == 1                   \* of pdata's clock chain
PdAtten == 40                  \* pdata's attenuation
FullyMuted == 359
TuneSides == {"rx", "tx"}

-----------------------------------------------------------------------------
(***************************************************************************)
(* Parts.                                                                  *)
(***************************************************************************)

\* ad9361_tx_mute
Mute(x) == [x EXCEPT !.cached = x.atten, !.atten = FullyMuted]
Unmute(x) == [x EXCEPT !.atten = x.cached]

\* ad9361_hdl_loopback.  A new core is asked a second time: the loop ends.
HdlLoopback(x, on) ==
  IF ~tuneBoard.newCore
    THEN [x EXCEPT !.dacSource = IF on THEN "loop" ELSE IF @ = "loop" THEN x.scratch ELSE @]
  ELSE IF on /\ x.dacSource # "loop"
    THEN [x EXCEPT !.scratch = x.dacSource, !.dacSource = "loop"]
  ELSE IF x.dacSource = "loop" THEN [x EXCEPT !.dacSource = x.scratch]
  ELSE x

\* ad9361_bist_loopback: modes 0 to 2
LoopMode(x, mode) == [HdlLoopback(x, mode = 2) EXCEPT !.loop = mode, !.chipLoop = (mode = 1)]

\* ad9361_bist_prbs
Prbs(x, pattern) == [x EXCEPT !.chipBist = pattern, !.bist = pattern]

\* ad9361_check_pn and ad9361_set_intf_delay: whether the pattern arrives
Passes(x, side, speed, clock, data) == data - clock \in eye[side][x.fir][speed]

\* ad9361_dig_tune_delay: the data delay is varied with the least clock delay,
\* then with the most; a delay has to pass at every rate that is tried.
Rows(x, side, speeds) ==
  [late \in BOOLEAN |->
     FindOpt([d \in 0..LastDelay |->
                \E s \in speeds :
                  IF late THEN ~Passes(x, side, s, LastDelay, LastDelay - d)
                          ELSE ~Passes(x, side, s, 0, d)],
             LastDelay + 1)]
Longer(run) == run[TRUE].cnt > run[FALSE].cnt
SetMiddle(x, side, run, conditions) ==
  IF run[FALSE].cnt = 0 /\ run[TRUE].cnt = 0
    THEN [x EXCEPT ![side] = <<LastDelay, 0>>, !.ok = FALSE]
  ELSE [x EXCEPT ![side] = IF Longer(run) THEN <<Middle(run[TRUE]), 0>>
                                         ELSE <<0, Middle(run[FALSE])>>,
                 !.found[side] = conditions]
ScanDelay(x, side, speeds) == SetMiddle(x, side, Rows(x, side, speeds), {x.fir} \X speeds)

-----------------------------------------------------------------------------
(***************************************************************************)
(* The tuning.  Setting a rate may tune the interface at that rate, and     *)
(* tuning it at all rates sets them.                                        *)
(***************************************************************************)

\* ad9361_dig_tune_rx and ad9361_dig_tune_tx, before the scan.  For the transmit
\* side the DAC core sends a pattern; after the scan the cores are set back.
ReadyRx(x) == Prbs(LoopMode(x, 0), "rx")
ReadyTx(x) == LoopMode(Prbs(x, "off"), 1)
Sending(x) == [x EXCEPT !.adcControl = "tune", !.dacSource = "pattern"]
CoresOf(x, y) == [x EXCEPT !.adcControl = y.adcControl, !.dacSource = y.dacSource]

\* ad9361_dig_tune before and after those.  The pattern the chip is given back is
\* phy->bist_config from before, which the tuning itself has changed in phy.
Begun(x) == Mute([x EXCEPT !.ok = TRUE])
TxToo(x) == x.ok /\ tuneBoard.skip = 0
Ended(x, before) == [LoopMode(x, before.loop) EXCEPT !.chipBist = before.bist]

Stored(x) == [x EXCEPT !.pdRx = x.rx, !.pdTx = x.tx, !.kept = x.found]
\* Delays that were not found are those of pdata.
Settle(x, store) ==
  IF ~x.ok THEN [x EXCEPT !.rx = x.pdRx, !.tx = x.pdTx, !.found = x.kept]
  ELSE IF store THEN Stored(x) ELSE x
\* The unmute comes whether there was a mute or not.
Concluded(x, skipped, store) == [Unmute(Settle(x, store)) EXCEPT !.ok = x.ok \/ skipped]
Skipped(lazy) == lazy \/ tuneBoard.skip = 2

\* At the rate that is set
TuneRxHere(x) == ScanDelay(ReadyRx(x), "rx", {x.speed})
TuneTxHere(x) == CoresOf(ScanDelay(Sending(ReadyTx(x)), "tx", {x.speed}), ReadyTx(x))
TxHereToo(x) == IF TxToo(x) THEN TuneTxHere(x) ELSE x
SearchHere(x) == Ended(TxHereToo(TuneRxHere(Begun(x))), x)

\* ad9361_dig_tune: lazy is RESTORE_DEFAULT, store not SKIP_STORE_RESULT.
DigTune(x, lazy, store) ==
  Concluded(IF Skipped(lazy) THEN [x EXCEPT !.ok = FALSE] ELSE SearchHere(x), Skipped(lazy), store)

\* ad9361_set_trx_clock_chain: with the filters on the interface is tuned for
\* them, and the result dropped.
TunedForFir(x) ==
  IF tuneBoard.firTune /\ x.fir THEN [DigTune(x, FALSE, FALSE) EXCEPT !.ok = x.ok] ELSE x
SetClockChain(x, speed) == TunedForFir([x EXCEPT !.speed = speed])

\* With a maximal rate: at the three rates, which are set one after the other
AllSpeeds(x) == SetClockChain(SetClockChain(SetClockChain(x, 1), 2), 3)
TuneRxAll(x) == ScanDelay(AllSpeeds(ReadyRx(x)), "rx", Speeds)
TuneTxAll(x) == CoresOf(ScanDelay(AllSpeeds(Sending(ReadyTx(x))), "tx", Speeds), ReadyTx(x))
TxAllToo(x) == IF TxToo(x) THEN TuneTxAll(x) ELSE x
SearchAll(x) == Ended(TxAllToo(TuneRxAll(Begun(x))), x)
DigTuneAll(x) ==
  Concluded(IF Skipped(FALSE) THEN [x EXCEPT !.ok = FALSE] ELSE SearchAll(x), Skipped(FALSE), TRUE)

\* ad9361_post_setup: a core with an ID is not the master and is tuned at one
\* rate, where a failure is none; an error returns before the rate is set.
PostTune(x) ==
  IF tuneBoard.slave THEN [DigTune(x, FALSE, TRUE) EXCEPT !.ok = TRUE] ELSE DigTuneAll(x)
RateIfOk(x) == IF x.ok THEN SetClockChain(x, PdSpeed) ELSE x
PostSetup(x) == RateIfOk(PostTune(x))

\* ad9361_setup, as far as it sets these fields, on a chip that was reset
Reset(x) ==
  [x EXCEPT !.rx = <<0, 0>>, !.tx = <<0, 0>>, !.chipBist = "off", !.chipLoop = FALSE, !.atten = 0]
FromPdata(x) == [x EXCEPT !.rx = x.pdRx, !.tx = x.pdTx, !.atten = PdAtten]
ChipSetup(x) == FromPdata(SetClockChain(Reset(x), PdSpeed))

-----------------------------------------------------------------------------
(***************************************************************************)
(* The calls.                                                              *)
(***************************************************************************)

Nothing == [side \in TuneSides |-> {}]
Powered ==
  [rx |-> <<0, 0>>, tx |-> <<0, 0>>, pdRx |-> <<0, 1>>, pdTx |-> <<1, 0>>,
   speed |-> PdSpeed, fir |-> FALSE, atten |-> 0, cached |-> 0,
   chipBist |-> "off", bist |-> "off", chipLoop |-> FALSE, loop |-> 0,
   dacSource |-> "user", scratch |-> "user", adcControl |-> "user", ok |-> FALSE,
   found |-> Nothing, kept |-> Nothing]
TuneInit ==
  /\ tuneBoard \in TuneBoards /\ eye \in Eyes /\ tuneCalls = 0
  /\ tune = Powered
  /\ attenAsked = 0 /\ speedAsked = PdSpeed /\ loopLost = FALSE

\* ad9361_init: set-up and the tuning after it; the cores were reset.
SetUpTuned ==
  /\ ~tune.ok
  /\ tune' = PostSetup(ChipSetup([tune EXCEPT !.ok = TRUE]))
  /\ tune'.ok
  /\ attenAsked' = PdAtten
  /\ UNCHANGED <<speedAsked, loopLost>>

\* ad9361_set_tx_sampling_freq
SetSpeed ==
  \E s \in Speeds :
    /\ tune' = SetClockChain(tune, s)
    /\ speedAsked' = s
    /\ UNCHANGED <<attenAsked, loopLost>>

\* Mutant: the delays of the filters stay when the filters go.
FirEnableKeeps(x, on) == SetClockChain([x EXCEPT !.fir = on], x.speed)
\* ad9361_validate_enable_fir: without the filters the delays of the first
\* tuning come back.
FirEnable(x, on) ==
  IF tuneBoard.firTune /\ ~on THEN DigTune(SetClockChain([x EXCEPT !.fir = on], x.speed), TRUE, TRUE)
  ELSE SetClockChain([x EXCEPT !.fir = on], x.speed)

\* ad9361_set_trx_fir_en_dis
SetFirOn ==
  \E on \in BOOLEAN :
    /\ on # tune.fir
    /\ tune' = FirEnable(tune, on)
    /\ UNCHANGED <<attenAsked, speedAsked, loopLost>>

\* ad9361_set_tx_attenuation
SetAtten ==
  \E a \in {40, 120} :
    /\ tune' = [tune EXCEPT !.atten = a] /\ attenAsked' = a
    /\ UNCHANGED <<speedAsked, loopLost>>

\* ad9361_bist_prbs
SetPrbs ==
  \E p \in {"off", "rx", "tx"} :
    /\ tune' = Prbs(tune, p)
    /\ UNCHANGED <<attenAsked, speedAsked, loopLost>>

\* ad9361_bist_loopback
SetLoop ==
  \E mode \in 0..2 :
    /\ tune' = LoopMode(tune, mode)
    /\ loopLost' = (tuneBoard.newCore /\ mode = 2 /\ tune.loop = 2)
    /\ UNCHANGED <<attenAsked, speedAsked>>

\* ad9361_dig_interface_timing_analysis
TimingScan ==
  /\ tune' = Unmute([LoopMode(Prbs(LoopMode(Mute(tune), 0), "rx"), tune.loop)
                       EXCEPT !.chipBist = tune.bist])
  /\ UNCHANGED <<attenAsked, speedAsked, loopLost>>

\* ad9361_set_no_ch_mode: the chip is reset and set up again, phy and pdata stay,
\* and the results are dropped.
SetNoChMode ==
  LET y == PostSetup(ChipSetup([tune EXCEPT !.dacSource = "user", !.adcControl = "user", !.ok = TRUE]))
  IN /\ tune' = [y EXCEPT !.ok = TRUE]
     /\ attenAsked' = PdAtten
     /\ speedAsked' = IF y.ok THEN PdSpeed ELSE 0
     /\ loopLost' = (tuneBoard.skip = 2)

TuneNext ==
  /\ tuneCalls < MaxTuneCalls /\ tuneCalls' = tuneCalls + 1
  /\ UNCHANGED <<tuneBoard, eye>>
  /\ \/ SetUpTuned
     \/ /\ tune.ok
        /\ \/ SetSpeed \/ SetFirOn \/ SetAtten \/ SetPrbs \/ SetLoop \/ TimingScan \/ SetNoChMode

TuneSpec == TuneInit /\ [][TuneNext]_tuneVars

-----------------------------------------------------------------------------
(***************************************************************************)
(* Properties.                                                             *)
(***************************************************************************)

TuneTypeOK ==
  /\ tuneBoard \in TuneBoards
  /\ \A side \in TuneSides : tune[side] \in (0..LastDelay) \X (0..LastDelay)
  /\ tune.loop \in 0..2 /\ tune.speed \in Speeds

\* Delays that were found for the filters in use pass at every rate they were
\* found for, also when another rate is set since; they are the middle of a run
\* of delays that pass, and no run in the two rows is longer.
FoundDelaysPass ==
  \A side \in TuneSides :
    LET speeds == {c[2] : c \in {k \in tune.found[side] : k[1] = tune.fir}}
        good == {d \in -LastDelay..LastDelay : \A s \in speeds : Passes(tune, side, s, 0, d)}
        runs == {ab \in (-LastDelay..LastDelay) \X (-LastDelay..LastDelay) :
                   /\ ab[1] <= ab[2] /\ (ab[1] >= 0 \/ ab[2] <= 0)
                   /\ ab[1]..ab[2] \subseteq good}
        set == tune[side][2] - tune[side][1]
    IN speeds # {} =>
         /\ set \in good
         /\ \E ab \in runs :
              /\ 2 * set - ab[1] - ab[2] \in -1..1
              /\ \A other \in runs : other[2] - other[1] <= ab[2] - ab[1]

\* Without the filters the delays are those of the tuning at set-up: a tuning for
\* the filters, however it ends, leaves no trace when they go.
DelaysOfSetup ==
  tune.ok /\ tuneBoard.firTune /\ ~tune.fir =>
    tune.found = tune.kept /\ <<tune.rx, tune.tx>> = <<tune.pdRx, tune.pdTx>>
\* What is kept for that was not found with the filters on, unless the chip was
\* set up with them on.
KeptOfSetup ==
  [][\A side \in TuneSides : tune.kept'[side] = tune.kept[side] \/ ~tune.ok \/ SetNoChMode]_tuneVars

\* After a call the cores send and receive what the user had set, and the loop
\* is the one asked for, whatever a tuning did with them in between.
CoresRestored ==
  /\ tune.adcControl = "user"
  /\ tune.dacSource \in {"user", "loop"}
  /\ ~loopLost => /\ (tune.dacSource = "loop") = (tune.loop = 2)
                  /\ tune.chipLoop = (tune.loop = 1)

\* The rate is the one that was asked for last, and not one a tuning tried.
SpeedAsAsked == speedAsked # 0 => tune.speed = speedAsked

\* What the transmitter is attenuated by is what was asked for last.  (The code
\* does not keep it: a tuning that is skipped unmutes a transmitter that it has
\* not muted, with the attenuation of the mute before.)
AttenAsAsked == tune.atten = attenAsked

\* Of what a tuning changes for its own use the filters' delays go with the filters,
\* cores and loops work for the user again, and the rate is the user's. (For the
\* attenuation see AttenAsAsked; a test pattern is not judged.)
TuningLeavesNoTrace == [](DelaysOfSetup /\ CoresRestored /\ SpeedAsAsked) /\ KeptOfSetup
=============================================================================
