------------------------------- MODULE MCRadio -------------------------------
(* Instances of the models of the chip's settings for TLC, one at a time:    *)
(* `focus` names the one that moves, the others rest in one state.           *)
EXTENDS Baseband, Synth, Gain, Agc

CONSTANT Foci     \* the models that are in focus in a run
VARIABLE focus

MCSamplFreqs == {250, 4002, 6144}
MCBandwidths == {100, 1800}
MCFirConfigs ==
  { [dec |-> 2, int |-> 2, rxTaps |-> 128, txTaps |-> 128],
    [dec |-> 4, int |-> 4, rxTaps |-> 64, txTaps |-> 40] }
MCFilterFiles ==
  { [cfg |-> [dec |-> 2, int |-> 2, rxTaps |-> 128, txTaps |-> 128],
     clks |-> [bb |-> 98304, rx |-> <<24576, 12288, 6144, 3072, 1536>>,
               tx |-> <<12288, 12288, 6144, 3072, 1536>>],
     rxBw |-> 1800, txBw |-> 0],
    [cfg |-> [dec |-> 1, int |-> 1, rxTaps |-> 64, txTaps |-> 64],
     clks |-> [bb |-> 81920, rx |-> <<20480, 10240, 2560, 2560, 2560>>,
               tx |-> <<10240, 10240, 5120, 2560, 2560>>],
     rxBw |-> 1800, txBw |-> 1800] }
MCWirings == {[rx2tx2 |-> b, lvds |-> ~b, twice |-> FALSE] : b \in BOOLEAN}
MCLoFreqs == {60, 104, 2400, 6000}
MCLoBoards ==
  { [dev |-> "AD9361", fdd |-> TRUE, indep |-> FALSE, skipCal |-> FALSE,
     first |-> [RX |-> 220, TX |-> 104]],
    [dev |-> "AD9363A", fdd |-> FALSE, indep |-> FALSE, skipCal |-> TRUE,
     first |-> [RX |-> 2400, TX |-> 2400]] }

MCGainBoards ==
  { [rx2tx2 |-> TRUE, rxNum |-> 1, txNum |-> 1, split |-> FALSE, alert |-> FALSE],
    [rx2tx2 |-> FALSE, rxNum |-> 2, txNum |-> 1, split |-> FALSE, alert |-> TRUE],
    [rx2tx2 |-> FALSE, rxNum |-> 1, txNum |-> 2, split |-> TRUE, alert |-> FALSE] }
MCGainsAsked == {-10, -3, 1, 71, 77}
MCAgcClocks ==
  {[clkrf |-> c[1], rate |-> c[2]] :
     c \in {<<61440, 61440>>, <<30720, 15360>>, <<2577, 2577>>, <<5156, 1289>>, <<8000, 2000>>}}
MCAgcConf ==
  [lnaNs |-> 0, marginUs |-> 1, intervalUs |-> 1000, waitNs |-> 260,
   fastDur |-> 64, slowDur |-> 8192, state5Dur |-> 64,
   adcSmall |-> 47, adcLarge |-> 58, lmtHigh |-> 800, lmtLow |-> 704,
   innerHigh |-> 10, innerLow |-> 12, outerHigh |-> 5, outerLow |-> 18,
   adcSamples |-> 4, up |-> 2, down |-> 2, lowPower |-> 24, increments |-> 1,
   onStronger |-> TRUE, onLost |-> TRUE, onAdc |-> TRUE, onLmt |-> TRUE,
   lostToOptimized |-> TRUE, pin |-> FALSE, pinMode |-> "set",
   fast |-> [f \in DOMAIN FastLimits |-> IF f = "lpfSteps" THEN 5 ELSE 3]]
MCAgcConfs ==
  { MCAgcConf,
    [MCAgcConf EXCEPT !.lnaNs = 333, !.intervalUs = 3000, !.adcSmall = 58, !.adcLarge = 47,
                      !.pin = TRUE, !.pinMode = "max", !.increments = 0],
    [MCAgcConf EXCEPT !.intervalUs = 1, !.lmtLow = 0, !.lmtHigh = 1100, !.marginUs = 40,
                      !.pin = TRUE, !.pinMode = "optimized", !.slowDur = 64],
    [MCAgcConf EXCEPT !.lnaNs = 90, !.intervalUs = 20] }
MCRssiConfs ==
  { [samples |-> s, delay |-> 1, wait |-> 1, duration |-> d, mode |-> m] :
     s \in BOOLEAN, d \in {1, 11, 500, 1000}, m \in {"pin", "gain change"} }

\* The states in which a model rests that is not in focus
BbRests == wiring = CHOOSE w \in Wirings : TRUE
SynthRests == /\ loBoard = CHOOSE b \in LoBoards : TRUE
              /\ lo["RX"].alc = CHOOSE a \in AlcWords : TRUE
GainRests == gainBoard = (CHOOSE b \in GainBoards : TRUE) /\ gain.agc = <<"slow", "slow">>
AgcRests == /\ agcConf = MCAgcConf /\ rssiConf = CHOOSE c \in RssiConfs : TRUE
            /\ agcClock = CHOOSE k \in AgcClocks : TRUE
            /\ agcFast = FALSE
Init ==
  /\ focus \in Foci
  /\ BbInit /\ (focus = "baseband" \/ BbRests)
  /\ SynthInit /\ (focus = "synth" \/ SynthRests)
  /\ GainInit /\ (focus = "gain" \/ GainRests)
  /\ AgcInit /\ (focus = "agc" \/ AgcRests)
Next ==
  /\ UNCHANGED focus
  /\ \/ focus = "baseband" /\ BbNext /\ UNCHANGED <<loVars, gainVars, agcVars>>
     \/ focus = "synth" /\ SynthNext /\ UNCHANGED <<bbVars, gainVars, agcVars>>
     \/ focus = "gain" /\ GainNext /\ UNCHANGED <<bbVars, loVars, agcVars>>
     \/ focus = "agc" /\ AgcNext /\ UNCHANGED <<bbVars, loVars, gainVars>>
Spec == Init /\ [][Next]_<<focus, bbVars, loVars, gainVars, agcVars>>

\* What the models of the chip's settings keep of their types.
RadioTypeOK == BbTypeOK /\ SynthTypeOK /\ GainTypeOK
=============================================================================
