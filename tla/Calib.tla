-------------------------------- MODULE Calib --------------------------------
(***************************************************************************)
(* The calibrations of the AD9361 that run after set-up, and what they      *)
(* change for their time and have to put back: the analog filters, the      *)
(* inversion of the second receiver, the power of the transmitter's LO, the *)
(* tracking (sw/ad9361.c).                                                  *)
(*                                                                         *)
(* The fields of `cal` are                                                  *)
(*   bwNow, bw        bandwidths <<RX, TX>> of the filters, and in phy       *)
(*   nco              the words of the two NCOs <<TX, RX>>                   *)
(*   phase, lastPhase the phase in the chip, and last_tx_quad_cal_phase     *)
(*   inverted, both   the inversion of RX 2 and of its RF DC word           *)
(*   track, want      the trackings that run, and those phy wants           *)
(*   loOff, loPower   the LO is to be off, and it has power                 *)
(*   dcRange          the RF DC calibration was for <<low, high>> LOs       *)
(*   rssiMode         when the RSSI is measured                             *)
(* A calibration meets an environment: the phases that converge, and what   *)
(* goes wrong in it.                                                       *)
(***************************************************************************)
EXTENDS ClockChain, Search

CONSTANTS
  CalBoards,     \* pdata: [inverted, managed]
  CalClocks,     \* [rf, tf, half]: the clocks CLKRF and CLKTF in kHz, and whether
                 \* the TX filters are set to 0x22
  CalBandwidths, \* half the RF bandwidths <<RX, TX>>, in kHz
  PhaseSets,     \* the sets of phases that converge
  MaxCalibCalls  \* bound: the calls made

ASSUME CalibAssumption ==
  /\ CalBoards \subseteq [inverted : BOOLEAN, managed : BOOLEAN]
  /\ CalClocks \subseteq [rf : Nat \ {0}, tf : Nat \ {0}, half : BOOLEAN]
  /\ CalBandwidths \subseteq Nat \X Nat
  /\ PhaseSets \subseteq SUBSET (0..31)

VARIABLES
  calBoard, calClock, cal, calibCalls,
  made,       \* ghost: the last calibration [good, phase, searched, wide, clean]
  spoilt,     \* ghost: the filters failed to be tuned since they were set
  stopped     \* ghost: a change of the bandwidth returned with the tracking off

calibVars == <<calBoard, calClock, cal, calibCalls, made, spoilt, stopped>>

Phases == 0..31
LastPhases == {0, 20, 31}   \* of the calibration in ad9361_setup
Trackings == {"bbdc", "rfdc", "quad"}
Faults == {"none", "first", "garbage", "last", "search", "widen", "restore"}

-----------------------------------------------------------------------------
(***************************************************************************)
(* ad9361_tx_quad_calib.                                                    *)
(***************************************************************************)

TxWord(bwTx, tf) == LET w == RoundDiv(8 * bwTx, tf) - 1 IN IF w < 0 THEN 0 ELSE IF w > 3 THEN 3 ELSE w
\* The words of the NCOs and the first phase, from the word closest to BW / 4
Nco(clk, w) ==
  IF clk.rf = 2 * clk.tf
    THEN <<[tx |-> 1, rx |-> 0, phase |-> 14], [tx |-> 1, rx |-> 0, phase |-> 14],
           [tx |-> 1, rx |-> 0, phase |-> 14], [tx |-> 3, rx |-> 1, phase |-> 8]>>[w + 1]
  ELSE IF clk.rf = clk.tf
    THEN [tx |-> w, rx |-> w, phase |-> <<21, IF clk.half THEN 21 ELSE 26, 31, 21>>[w + 1]]
  ELSE [tx |-> w, rx |-> w, phase |-> 0]

\* Mutant: the row of phases is not doubled.
BestPhaseCut(good) == Middle(FindOpt([i \in 0..31 |-> i \notin good], 32)) % 32
\* ad9361_tx_quad_phase_search: the row of phases is doubled for the runs that
\* pass 31.
BestPhase(good) == Middle(FindOpt([i \in 0..63 |-> i % 32 \notin good], 64)) % 32

\* The runs of a calibration: with the first phase, with the last one that was
\* good, with all.  A run that times out leaves the status as it was, which is
\* read uninitialised after the first ("garbage": as if it had converged).
Runs(x, first, good, fault) ==
  LET ok1 == IF fault = "first" THEN FALSE ELSE IF fault = "garbage" THEN TRUE ELSE first \in good
      again == ~ok1 /\ x.lastPhase < 31
      ok2 == again /\ fault # "last" /\ x.lastPhase \in good
      best == BestPhase(good)
  IN IF ok1 THEN [phase |-> first, last |-> first, searched |-> FALSE, ok |-> fault # "garbage"]
     ELSE IF ok2 THEN [phase |-> x.lastPhase, last |-> x.lastPhase, searched |-> FALSE, ok |-> TRUE]
     ELSE IF fault = "search" THEN [phase |-> 0, last |-> x.lastPhase, searched |-> FALSE, ok |-> FALSE]
     ELSE [phase |-> best, last |-> best, searched |-> TRUE, ok |-> TRUE]

\* The filters are too narrow for the NCO.
TooNarrow(freq, bw) == freq > bw[1] \div 4 \/ freq > bw[2] \div 4

\* For the runs the inversion of RX 2 is off.
Uninvert(x) == [x EXCEPT !.inverted = FALSE, !.both = TRUE]
Reinvert(x, before) == [x EXCEPT !.inverted = TRUE, !.both = before.both]

\* Mutant: the filters stay wide when the runs have timed out.
FilteredIfOk(x, ok) == IF ok THEN [x EXCEPT !.bwNow = x.bw] ELSE x
\* The filters get back the bandwidths of phy, whether the runs converged or not.
Filtered(x, ok) == [x EXCEPT !.bwNow = x.bw]

\* The LO is off, and nothing lets the calibration turn it on.
Aborts(x) == x.loOff /\ ~calBoard.managed

LoRestored(x) == IF calBoard.managed /\ x.loOff THEN [x EXCEPT !.loPower = FALSE] ELSE x

\* The calibration with the phase rxPhase, or the table's if that is negative:
\* the new state, the result, and what the ghosts record
QuadCalib(x, bw, rxPhase, env) ==
  LET clk == calClock
      n == Nco(clk, TxWord(bw[2], clk.tf))
      first == IF rxPhase >= 0 THEN rxPhase ELSE n.phase
      freq == (clk.tf * (n.tx + 1)) \div 32
      narrow == TooNarrow(freq, bw)
      on == [x EXCEPT !.loPower = TRUE]
      wide == IF narrow THEN [on EXCEPT !.bwNow = <<4 * freq, 4 * freq>>] ELSE on
      quiet == IF calBoard.inverted THEN Uninvert(wide) ELSE wide
      r == Runs(x, first, env.good, env.fault)
      done == [quiet EXCEPT !.nco = <<n.tx, n.rx>>, !.phase = r.phase, !.lastPhase = r.last]
      back == IF calBoard.inverted THEN Reinvert(done, x) ELSE done
      filtered == IF ~narrow THEN back
                  ELSE IF env.fault = "restore" THEN [back EXCEPT !.bwNow[1] = x.bw[1]]
                  ELSE Filtered(back, r.ok)
      failed == narrow /\ env.fault = "widen"
  IN IF Aborts(x)
       THEN [x |-> x, ok |-> FALSE, made |-> made, spoilt |-> FALSE]
     ELSE IF failed
       THEN [x |-> LoRestored([on EXCEPT !.bwNow[1] = 4 * freq]), ok |-> FALSE,
             made |-> made, spoilt |-> TRUE]
     ELSE [x |-> LoRestored(filtered), ok |-> r.ok,
           made |-> [good |-> env.good, phase |-> r.phase, searched |-> r.searched,
                     wide |-> \/ x.bwNow # x.bw
                              \/ freq <= wide.bwNow[1] \div 4 /\ freq <= wide.bwNow[2] \div 4,
                     clean |-> env.fault \in {"none", "widen", "restore"}],
           spoilt |-> narrow /\ env.fault = "restore"]

-----------------------------------------------------------------------------
(***************************************************************************)
(* The calls.                                                              *)
(***************************************************************************)

Environments == [good : PhaseSets, fault : Faults]

\* ad9361_setup has calibrated with the filters of pdata; with this environment
\* nothing failed.
CalibInit ==
  /\ calBoard \in CalBoards /\ calClock \in CalClocks /\ calibCalls = 0
  /\ \E bw \in CalBandwidths, last \in LastPhases :
     LET n == Nco(calClock, TxWord(bw[2], calClock.tf)) IN
       cal = [bwNow |-> bw, bw |-> bw, nco |-> <<n.tx, n.rx>>, phase |-> last, lastPhase |-> last,
              inverted |-> calBoard.inverted, both |-> ~calBoard.inverted,
              track |-> Trackings, want |-> Trackings, loOff |-> FALSE, loPower |-> TRUE,
              dcRange |-> "low", rssiMode |-> "user"]
  /\ made = [good |-> {}, phase |-> 0, searched |-> FALSE, wide |-> TRUE, clean |-> TRUE]
  /\ spoilt = FALSE /\ stopped = FALSE

\* Tracking off, and on again as phy wants it (ad9361_tracking_control)
Untracked(x) == [x EXCEPT !.track = {}]
Tracked(x) == [x EXCEPT !.track = x.want]

\* ad9361_do_calib_run: the trackings come back whatever the result.
AfterRun(q) ==
  /\ cal' = Tracked(q.x)
  /\ made' = q.made /\ spoilt' = (spoilt \/ q.spoilt) /\ stopped' = FALSE
DoQuadCal ==
  \E env \in Environments, arg \in {-1, 3} :
    AfterRun(QuadCalib(Untracked(cal), cal.bw, arg, env))

\* The same for the RF DC offset: its words depend on the LO.
DoRfDcCal ==
  \E range \in {"low", "high"} :
    /\ cal' = Tracked([cal EXCEPT !.dcRange = range, !.both = ~calBoard.inverted])
    /\ stopped' = FALSE /\ UNCHANGED <<made, spoilt>>

\* ad9361_update_rf_bandwidth: each error returns at once, with the trackings off.
AfterTune(q) ==
  /\ cal' = IF q.ok THEN Tracked(q.x) ELSE q.x
  /\ made' = q.made /\ spoilt' = q.spoilt /\ stopped' = ~q.ok
UpdateBandwidth ==
  \E bw \in CalBandwidths :
    \/ \E env \in Environments :
         AfterTune(QuadCalib([Untracked(cal) EXCEPT !.bwNow = bw, !.bw = bw], bw, -1, env))
    \/ /\ cal' = [Untracked(cal) EXCEPT !.bwNow[1] = bw[1]]
       /\ spoilt' = TRUE /\ stopped' = TRUE /\ UNCHANGED made

\* ad9361_set_rx_rfdc_track_en_dis, .._bbdc_.., .._quad_..: nothing is done when
\* phy has the setting already.
SetTracking ==
  \E t \in Trackings :
    LET x == [cal EXCEPT !.want = IF t \in @ THEN @ \ {t} ELSE @ \cup {t}]
    IN cal' = Tracked(x) /\ stopped' = FALSE /\ UNCHANGED <<made, spoilt>>

\* ad9361_tx_lo_powerdown
SetTxLoPower ==
  \E off \in BOOLEAN :
    /\ cal' = [cal EXCEPT !.loOff = off, !.loPower = ~off]
    /\ UNCHANGED <<made, spoilt, stopped>>

\* ad9361_rssi_gain_step_calib: the set-up of the RSSI is that of the calibration
\* from then on.
GainStepCal ==
  /\ cal' = [cal EXCEPT !.rssiMode = "calibration"]
  /\ UNCHANGED <<made, spoilt, stopped>>

CalibNext ==
  /\ calibCalls < MaxCalibCalls /\ calibCalls' = calibCalls + 1
  /\ UNCHANGED <<calBoard, calClock>>
  /\ \/ DoQuadCal \/ DoRfDcCal \/ UpdateBandwidth \/ SetTracking \/ SetTxLoPower
     \/ GainStepCal

CalibSpec == CalibInit /\ [][CalibNext]_calibVars

-----------------------------------------------------------------------------
(***************************************************************************)
(* Properties.                                                             *)
(***************************************************************************)

CalibTypeOK ==
  /\ calBoard \in CalBoards /\ calClock \in CalClocks
  /\ {cal.phase, cal.lastPhase} \subseteq Phases
  /\ cal.nco \in (0..3) \X (0..3) /\ cal.track \subseteq Trackings
  /\ cal.dcRange \in {"low", "high"}

\* However a calibration ends, the filters have the bandwidth the user set,
\* unless tuning them failed.
BandwidthRestored == ~spoilt => cal.bwNow = cal.bw

\* The inversion of the second receiver, which a calibration turns off, is on
\* again after it, with the bits it had.
InversionRestored == cal.inverted = calBoard.inverted /\ cal.both = ~calBoard.inverted

\* The LO is as it was asked for, though a calibration needs it.
LoPowerRestored == cal.loPower = ~cal.loOff

\* The trackings run that the user asked for, unless a change of the bandwidth
\* failed; one that is switched on or off by itself brings back the others.
TrackingRestored == ~stopped => cal.track = cal.want

\* "Find NCO frequency that matches this equation: BW / 4 = Rx NCO freq = Tx NCO
\* freq": for the ratios of clocks the table handles the two frequencies agree.
NcosAgree ==
  calClock.rf \in {calClock.tf, 2 * calClock.tf} =>
    calClock.rf * (cal.nco[2] + 1) = calClock.tf * (cal.nco[1] + 1)

\* "Make sure the BW during calibration is wide enough": the tone lies within a
\* fourth of both filters.
CalibratedWide == made.wide

\* A calibration without a time-out converges if any phase does; after a search
\* no phase is farther from the ones that fail than the one that was set.
Margin(p, good) ==
  IF good = Phases THEN 32
  ELSE CHOOSE k \in 0..32 : /\ (p + k) % 32 \notin good \/ (p + 32 - k) % 32 \notin good
                            /\ \A j \in 0..k - 1 : (p + j) % 32 \in good /\ (p + 32 - j) % 32 \in good
BestPhaseSet ==
  made.clean =>
    /\ made.good # {} => made.phase \in made.good
    /\ made.searched => \A p \in Phases : Margin(p, made.good) <= Margin(made.phase, made.good)

\* What a calibration changes for its own use is back after it, however it ended.
CalibrationUndone ==
  BandwidthRestored /\ InversionRestored /\ LoPowerRestored /\ TrackingRestored

\* The tone of the quadrature calibration is where both sides can hear it, and the
\* phase it ends with is the best there is.
QuadratureBest == NcosAgree /\ CalibratedWide /\ BestPhaseSet
=============================================================================
