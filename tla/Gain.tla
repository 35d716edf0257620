-------------------------------- MODULE Gain ---------------------------------
(***************************************************************************)
(* What a user sets per channel of the AD9361 (sw/ad9361.c, ad9361_api.c):  *)
(* the mode and the gain of a receiver, the attenuation of a transmitter     *)
(* and its muting, the RF ports and the loopback for tests.                 *)
(*                                                                         *)
(* Gains are in dB, attenuations in words of a quarter dB.  A chip          *)
(* register that the driver reads back is a field of `gain`.                *)
(***************************************************************************)
EXTENDS Integers, FiniteSets

CONSTANTS
  GainBoards,    \* the boards: [rx2tx2, rxNum, txNum, split, alert]
  GainsAsked,    \* the gains asked for
  AttensAsked,   \* the attenuations asked for, in mdB
  MaxGainCalls   \* bound: the calls made after set-up

ASSUME GainAssumption ==
  /\ GainBoards \subseteq [rx2tx2 : BOOLEAN, rxNum : {1, 2}, txNum : {1, 2},
                            split : BOOLEAN, alert : BOOLEAN]
  /\ GainsAsked \subseteq Int /\ AttensAsked \subseteq Nat

VARIABLES
  gainBoard,     \* pdata, as far as it stays
  gain,          \* chip and phy, described below
  gainCalls,     \* the calls made so far
  gainHeld,      \* ghost, by channel: the gain granted and since then neither
                 \* replaced nor made meaningless; NoGain for none
  attenHeld,     \* ghost, by channel: the word granted last
  modeHeld,      \* ghost, by channel: the mode asked for last, or "none"
  muteBase       \* ghost: the words when a mute began; <<>> when not muted, or
                 \* when a second mute or a set came in between

gainVars == <<gainBoard, gain, gainCalls, gainHeld, attenHeld, modeHeld, muteBase>>

Bands == {"low", "middle", "high"}
Modes == {"manual", "fast", "slow", "hybrid"}
SIZE_FULL_TABLE == 77
SIZE_SPLIT_TABLE == 41
MutedWord == 359               \* 89.75 dB
NoGain == 1000

-----------------------------------------------------------------------------
(***************************************************************************)
(* Channels.                                                               *)
(***************************************************************************)

\* ad9361_1rx1tx_channel_map
ChannelMap(used, n) == IF ~gainBoard.rx2tx2 /\ used = 2 THEN n + 1 ELSE n

\* A channel of the API (from 0) as a receiver and as a transmitter (from 1)
Receiver(ch) == ChannelMap(gainBoard.rxNum, ch + 1)

Transmitter(ch) == ChannelMap(gainBoard.txNum, ch + 1)
Channels == IF gainBoard.rx2tx2 THEN {0, 1} ELSE {0}

\* What ad9361_setup enables
EnabledBySetup(num) == IF gainBoard.rx2tx2 THEN {1, 2} ELSE {num}

-----------------------------------------------------------------------------
(***************************************************************************)
(* The receiver's gain.                                                    *)
(***************************************************************************)

\* ad9361_init_gain_tables: per band the gains of the full table, and the index
\* from which they rise by one dB each.
GainInfo ==
  [low |-> [start |-> 1, max |-> 77, offset |-> 0],
   middle |-> [start |-> -3, max |-> 71, offset |-> 1],
   high |-> [start |-> -10, max |-> 62, offset |-> 4]]

\* Mutant: the index counts from 1.
GainIndexOver(band, g) == g - GainInfo[band].start + GainInfo[band].offset + 1
\* set_full_table_gain
GainIndex(band, g) == g - GainInfo[band].start + GainInfo[band].offset
ValidGain(band, g) == g \in GainInfo[band].start .. GainInfo[band].max

\* ad9361_get_full_table_gain
GainAt(band, index) ==
  LET i == GainInfo[band]
  IN IF index > i.offset THEN i.start + index - i.offset ELSE i.start

\* ad9361_set_rx_gain in the band of the LO's clock.  Of the split table the API
\* gives no index, and the driver refuses that all are 0.
SetRxGainTo(x, rx, g) ==
  IF x.mode[rx] # "manual" \/ gainBoard.split \/ ~ValidGain(x.band, g)
    THEN [x EXCEPT !.ok = FALSE]
    ELSE [x EXCEPT !.index[rx] = GainIndex(x.band, g)]

\* ad9361_set_rx_rf_gain
SetRxRfGain ==
  \E ch \in Channels, g \in GainsAsked :
    LET y == SetRxGainTo(gain, Receiver(ch), g)
    IN /\ gain' = [y EXCEPT !.ok = TRUE]
       /\ gainHeld' = [gainHeld EXCEPT ![ch] = IF y.ok THEN g ELSE @]
       /\ UNCHANGED <<attenHeld, modeHeld, muteBase>>

\* ad9361_get_rx_rf_gain through ad9361_get_rx_gain, when the receiver is on
\* and its gain is set by hand
GainTold(ch) == GainAt(gain.band, gain.index[Receiver(ch)])

\* ad9361_gc_update: which duration of a power measurement goes into the chip
GcDuration(agc) == IF agc[1] = "fast" \/ agc[2] = "fast" THEN "fast" ELSE "slow"

\* ad9361_set_gain_ctrl_mode: the receiver is off while its mode changes; the
\* bit of the hybrid mode is one for both receivers.
GainCtrlMode(x, rx, mode) ==
  IF mode \notin Modes THEN x
  ELSE [x EXCEPT !.mode[rx] = mode, !.hybrid = (mode = "hybrid"),
                 !.rxOn = @ \cup {rx}, !.duration = GcDuration(x.agc)]

\* ad9361_set_rx_gain_control_mode: phy remembers the mode by the channel of the
\* API, also one that is then refused, and the result is dropped.
SetRxGainControlMode ==
  \E ch \in Channels, mode \in Modes \cup {"invalid"} :
    LET y == [gain EXCEPT !.agc[ch + 1] = mode]
    IN /\ gain' = GainCtrlMode(y, Receiver(ch), mode)
       /\ modeHeld' = [modeHeld EXCEPT ![ch] = mode]
       /\ UNCHANGED <<gainHeld, attenHeld, muteBase>>

\* The receiver's LO, set through ad9361_rfpll_set_rate: the table of its band
\* is loaded (ad9361_load_gt), the indices stay.
LoadGt ==
  \E band \in Bands \ {gain.band} :
    /\ gain' = [gain EXCEPT !.band = band, !.table = band]
    /\ gainHeld' = [ch \in Channels |-> NoGain]
    /\ UNCHANGED <<attenHeld, modeHeld, muteBase>>

-----------------------------------------------------------------------------
(***************************************************************************)
(* The transmitter's attenuation.                                          *)
(***************************************************************************)

\* ad9361_set_tx_atten: the words are written with the immediate update off;
\* turning it on puts every word written into force.
SetTxAtten(x, word, txs, immed) ==
  LET y == [x EXCEPT !.atten = [t \in {1, 2} |-> IF t \in txs THEN word ELSE @[t]]]
  IN IF immed THEN [y EXCEPT !.force = y.atten, !.immediate = TRUE]
              ELSE [y EXCEPT !.immediate = FALSE]
ValidAtten(mdb) == mdb <= 89750
AttenWord(mdb) == mdb \div 250

\* ad9361_set_tx_attenuation
SetTxAttenuation ==
  \E ch \in Channels, mdb \in AttensAsked :
    LET tx == ChannelMap(gainBoard.txNum, ch) + 1
        granted == ValidAtten(mdb)
    IN /\ gain' = IF ~granted THEN gain
                  ELSE SetTxAtten(gain, AttenWord(mdb), {tx}, ~gainBoard.alert)
       /\ attenHeld' = [attenHeld EXCEPT ![ch] = IF granted THEN AttenWord(mdb) ELSE @]
       /\ muteBase' = IF granted THEN <<>> ELSE muteBase
       /\ UNCHANGED <<gainHeld, modeHeld>>

\* ad9361_get_tx_attenuation
AttenTold(ch) == gain.atten[Transmitter(ch)]

\* Mutant: both transmitters come back with the attenuation of the first.
TxMuteOne(x, on) ==
  IF on THEN SetTxAtten([x EXCEPT !.cached = x.atten], MutedWord, {1, 2}, TRUE)
  ELSE SetTxAtten(x, x.cached[1], {1, 2}, TRUE)
\* ad9361_tx_mute: state 1 mutes.  Unequal words come back one by one.
TxMute(x, on) ==
  IF on THEN SetTxAtten([x EXCEPT !.cached = x.atten], MutedWord, {1, 2}, TRUE)
  ELSE IF x.cached[1] = x.cached[2] THEN SetTxAtten(x, x.cached[1], {1, 2}, TRUE)
  ELSE SetTxAtten(SetTxAtten(x, x.cached[1], {1}, TRUE), x.cached[2], {2}, TRUE)

MuteTx ==
  /\ gain' = [TxMute(gain, TRUE) EXCEPT !.muted = TRUE]
  /\ muteBase' = IF gain.muted THEN <<>> ELSE gain.atten
  /\ attenHeld' = [ch \in Channels |-> MutedWord]
  /\ UNCHANGED <<gainHeld, modeHeld>>
UnmuteTx ==
  /\ gain.muted
  /\ gain' = [TxMute(gain, FALSE) EXCEPT !.muted = FALSE]
  /\ muteBase' = <<>>
  /\ attenHeld' = [ch \in Channels |-> gain.cached[Transmitter(ch)]]
  /\ UNCHANGED <<gainHeld, modeHeld>>

\* External: the chip goes through ALERT, where the written words come into
\* force when the update waits for it.
PassAlert ==
  /\ gainBoard.alert /\ gain.force # gain.atten
  /\ gain' = [gain EXCEPT !.force = gain.atten]
  /\ UNCHANGED <<gainHeld, attenHeld, modeHeld, muteBase>>

-----------------------------------------------------------------------------
(***************************************************************************)
(* RF ports and loopback.                                                  *)
(***************************************************************************)

\* ad9361_rf_port_setup: an input of 9 to 11 is a transmitter's monitor, which
\* leaves the inputs alone.  Asked about the output, the same number shifts a
\* bit past the inputs: 9 hits the bit of the output, 10 and 11 none (12).
RfPortSetup(x, out, rx, tx) ==
  IF rx > 11 THEN [x EXCEPT !.ok = FALSE]
  ELSE IF ~out /\ rx > 8
    THEN [x EXCEPT !.monitors = {t \in {1, 2} : (rx \div t) % 2 = 1}]
  ELSE [x EXCEPT !.monitors = IF out THEN @ ELSE {},
                 !.input = IF rx < 9 THEN rx ELSE 12,
                 !.output = IF rx = 9 THEN 1 ELSE tx]

\* ad9361_set_rx_rf_port_input: pdata remembers the port before it is looked at.
SetRxRfPortInput ==
  \E rx \in {0, 3, 9, 10, 12} :
    /\ gain' = [RfPortSetup([gain EXCEPT !.rxPort = rx], FALSE, rx, gain.txPort)
                EXCEPT !.ok = TRUE]
    /\ UNCHANGED <<gainHeld, attenHeld, modeHeld, muteBase>>
\* ad9361_set_tx_rf_port_output
SetTxRfPortOutput ==
  \E tx \in {0, 1} :
    LET y == RfPortSetup([gain EXCEPT !.txPort = tx], TRUE, gain.rxPort, tx)
    IN /\ gain' = [y EXCEPT !.ok = TRUE]
       /\ UNCHANGED <<gainHeld, attenHeld, modeHeld, muteBase>>

\* ad9361_int_loopback_fix_ch_cross: inside the chip a transmitter only reaches
\* the receiver of its number.
FixChCross(x, on) ==
  IF gainBoard.rx2tx2 \/ gainBoard.rxNum = gainBoard.txNum THEN x
  ELSE [x EXCEPT !.txOn = {IF on THEN gainBoard.rxNum ELSE gainBoard.txNum}]

\* ad9361_bist_loopback; the mode is remembered, also one that is refused.
BistLoopback(x, mode) ==
  CASE mode = 0 -> [FixChCross(x, FALSE) EXCEPT !.chipLoop = FALSE, !.hdlLoop = FALSE]
    [] mode = 1 -> [FixChCross(x, TRUE) EXCEPT !.chipLoop = TRUE, !.hdlLoop = FALSE]
    [] mode = 2 -> [FixChCross(x, FALSE) EXCEPT !.chipLoop = FALSE, !.hdlLoop = TRUE]
    [] OTHER -> x
SetLoopback ==
  \E mode \in 0..3 :
    /\ gain' = [BistLoopback(gain, mode) EXCEPT !.loopMode = mode]
    /\ UNCHANGED <<gainHeld, attenHeld, modeHeld, muteBase>>

-----------------------------------------------------------------------------
(***************************************************************************)
(* The state after ad9361_setup, and the steps.                            *)
(*   mode, hybrid, index, rxOn, duration   the receivers' registers         *)
(*   agc                 agc_mode                                          *)
(*   band, table         of the LO's clock; current_table                  *)
(*   atten, force, immediate   words written, in force, the update's bit   *)
(*   cached, muted       tx1_atten_cached and tx2_; whether mute came last *)
(*   input, output, monitors   the chip's ports; rxPort, txPort pdata's    *)
(*   chipLoop, hdlLoop, loopMode, txOn   the loopback                      *)
(***************************************************************************)

\* The attenuation of a transmitter that is not used
AttenSetup == [t \in {1, 2} |-> IF gainBoard.rx2tx2 \/ t = gainBoard.txNum THEN 40 ELSE MutedWord]

\* gc_setup puts both indices at the end of the table.
GainSetup(rx1, rx2) ==
  [mode |-> <<rx1, rx2>>, hybrid |-> "hybrid" \in {rx1, rx2},
   index |-> [r \in {1, 2} |->
               (IF gainBoard.split THEN SIZE_SPLIT_TABLE ELSE SIZE_FULL_TABLE) - 1],
   rxOn |-> EnabledBySetup(gainBoard.rxNum), agc |-> <<rx1, rx2>>,
   duration |-> IF "fast" \in {rx1, rx2} THEN "fast" ELSE "slow",
   band |-> "middle", table |-> "middle",
   atten |-> AttenSetup, force |-> AttenSetup, immediate |-> TRUE,
   cached |-> <<0, 0>>, muted |-> FALSE,
   input |-> 0, output |-> 0, monitors |-> {}, rxPort |-> 0, txPort |-> 0,
   chipLoop |-> FALSE, hdlLoop |-> FALSE, loopMode |-> 0,
   txOn |-> EnabledBySetup(gainBoard.txNum), ok |-> TRUE]

GainInit ==
  /\ gainBoard \in GainBoards /\ gainCalls = 0
  /\ \E rx1, rx2 \in {"manual", "slow", "fast"} : gain = GainSetup(rx1, rx2)
  /\ gainHeld = [ch \in Channels |-> NoGain]
  /\ attenHeld = [ch \in Channels |-> 40]
  /\ modeHeld = [ch \in Channels |-> "none"]
  /\ muteBase = <<>>

GainNext ==
  /\ gainCalls < MaxGainCalls /\ gainCalls' = gainCalls + 1 /\ UNCHANGED gainBoard
  /\ \/ SetRxRfGain \/ SetRxGainControlMode \/ LoadGt
     \/ SetTxAttenuation \/ MuteTx \/ UnmuteTx \/ PassAlert
     \/ SetRxRfPortInput \/ SetTxRfPortOutput \/ SetLoopback

GainSpec == GainInit /\ [][GainNext]_gainVars

-----------------------------------------------------------------------------
(***************************************************************************)
(* Properties.                                                             *)
(***************************************************************************)

GainTypeOK ==
  /\ gainBoard \in GainBoards /\ gain.ok
  /\ \A r \in {1, 2} : /\ gain.index[r] \in 0..SIZE_FULL_TABLE - 1
                       /\ gain.mode[r] \in Modes
                       /\ gain.atten[r] \in 0..MutedWord
                       /\ gain.force[r] \in 0..MutedWord

\* A gain that was granted is the gain told, in every band, for the receiver the
\* channel stands for, whatever is done to the other one, until the LO changes
\* its band.
GainKept == \A ch \in Channels : gainHeld[ch] # NoGain => GainTold(ch) = gainHeld[ch]

\* An accepted mode is the mode told for the channel and the mode of its
\* receiver, which is on again.
ModeInForce ==
  \A ch \in Channels :
    modeHeld[ch] \in Modes => /\ gain.agc[ch + 1] = modeHeld[ch]
                              /\ gain.mode[Receiver(ch)] = modeHeld[ch]
                              /\ Receiver(ch) \in gain.rxOn

\* The power measurement has the duration of the fast attack exactly when a
\* receiver is in that mode, unless a mode was refused.
DurationFollowsModes ==
  (\A ch \in Channels : modeHeld[ch] # "invalid") =>
    (gain.duration = "fast" <=> "fast" \in {gain.agc[1], gain.agc[2]})

\* The attenuation told is the one granted last, muted or not; without the
\* update in ALERT it is in force.
AttenKept ==
  \A ch \in Channels :
    /\ AttenTold(ch) = attenHeld[ch]
    /\ ~gainBoard.alert => gain.force[Transmitter(ch)] = attenHeld[ch]

\* Unmuting brings back the words from before the mute, unless the transmitter
\* was muted a second time or set in between.
MuteReturns ==
  [][gain.muted /\ ~gain'.muted /\ muteBase # <<>> =>
       gain'.atten = muteBase /\ gain'.force = muteBase]_gainVars

\* The monitors of the transmitters are on only while one of them is the input
\* selected.
MonitorsFollowPort ==
  gain.monitors # {} => gain.rxPort > 8

\* The transmitter that is on is the receiver's during a loopback inside the
\* chip, and otherwise the board's; the two loopbacks never work at once.
LoopbackPairs ==
  /\ ~(gain.chipLoop /\ gain.hdlLoop)
  /\ ~gainBoard.rx2tx2 =>
       gain.txOn = {IF gain.chipLoop THEN gainBoard.rxNum ELSE gainBoard.txNum}

\* Gains, modes and attenuations are in force as they were granted, on the receiver
\* or transmitter the channel stands for, through mutes, loopbacks and ports.
GainsKept ==
  [](GainKept /\ ModeInForce /\ DurationFollowsModes /\ AttenKept
       /\ MonitorsFollowPort /\ LoopbackPairs) /\ MuteReturns
=============================================================================
