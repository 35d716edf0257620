------------------------------ MODULE RadioProofs ------------------------------
(***************************************************************************)
(* Proofs about what a user sets of the AD9361, for every board, setting   *)
(* and number of calls: what was granted for a channel is what its         *)
(* receiver or transmitter has (Gain); an LO that was granted stays, and   *)
(* the driver knows what each synthesizer runs from (Synth); the clock     *)
(* rates the driver remembers are the chip's, and what depends on them     *)
(* follows (Baseband); the times of the gain control and of the RSSI are   *)
(* those of the clocks in force (Agc).                                     *)
(***************************************************************************)
EXTENDS Gain, Synth, Baseband, Agc, TLAPS

-----------------------------------------------------------------------------
(* The channels.                                                           *)


GainFields ==
  {"mode", "hybrid", "index", "rxOn", "agc", "duration", "band", "table", "atten",
   "force", "immediate", "cached", "muted", "input", "output", "monitors", "rxPort",
   "txPort", "chipLoop", "hdlLoop", "loopMode", "txOn", "ok"}
Words == 0..MutedWord

-----------------------------------------------------------------------------
(***************************************************************************)
(* The inductive invariant, by what is set.                                 *)
(***************************************************************************)

\* The chip has its fields.
ChipInv == gainBoard \in GainBoards /\ DOMAIN gain = GainFields /\ gain.ok = TRUE

\* The receivers: the types, and what was granted to them.
ReceiverInv ==
  /\ gain.index \in [{1, 2} -> 0..SIZE_FULL_TABLE - 1]
  /\ gain.mode \in [{1, 2} -> Modes]
  /\ gain.agc \in [{1, 2} -> Modes \cup {"invalid"}]
  /\ gain.rxOn \subseteq {1, 2} /\ gain.band \in Bands
  /\ gainHeld \in [Channels -> Int]
  /\ modeHeld \in [Channels -> Modes \cup {"invalid", "none"}]
  /\ GainKept /\ ModeInForce /\ DurationFollowsModes

\* The transmitters: the types, what was granted to them, and that a mute which
\* nothing came between has stored the words before it.
TransmitterInv ==
  /\ gain.atten \in [{1, 2} -> Words] /\ gain.force \in [{1, 2} -> Words]
  /\ gain.cached \in [{1, 2} -> Words] /\ gain.muted \in BOOLEAN
  /\ attenHeld \in [Channels -> Words]
  /\ AttenKept
  /\ gain.muted /\ muteBase # <<>> => gain.cached = muteBase

\* The ports and loopbacks.
PathInv == MonitorsFollowPort /\ LoopbackPairs

GainInv == ChipInv /\ ReceiverInv /\ TransmitterInv /\ PathInv

\* What each part is about.
receiverFields == <<gain.index, gain.mode, gain.agc, gain.rxOn, gain.band, gain.duration,
                    gainHeld, modeHeld>>
transmitterFields == <<gain.atten, gain.force, gain.cached, gain.muted, attenHeld, muteBase>>
pathFields == <<gain.monitors, gain.rxPort, gain.chipLoop, gain.hdlLoop, gain.txOn>>

\* A part is kept when what it is about does not change.
LEMMA ReceiverRests ==
  ASSUME GainInv, UNCHANGED gainBoard, UNCHANGED receiverFields PROVE ReceiverInv'
<1>1. /\ gain'.index = gain.index /\ gain'.mode = gain.mode /\ gain'.agc = gain.agc
      /\ gain'.rxOn = gain.rxOn /\ gain'.band = gain.band /\ gain'.duration = gain.duration
      /\ gainHeld' = gainHeld /\ modeHeld' = modeHeld
  BY DEF receiverFields
<1>2. QED
  BY <1>1 DEF GainInv, ReceiverInv, GainKept, ModeInForce, DurationFollowsModes, GainTold,
     Receiver, Channels, ChannelMap

\* The same for the transmitters,
LEMMA TransmitterRests ==
  ASSUME GainInv, UNCHANGED gainBoard, UNCHANGED transmitterFields PROVE TransmitterInv'
<1>1. /\ gain'.atten = gain.atten /\ gain'.force = gain.force /\ gain'.cached = gain.cached
      /\ gain'.muted = gain.muted /\ attenHeld' = attenHeld /\ muteBase' = muteBase
  BY DEF transmitterFields
<1>2. QED
  BY <1>1 DEF GainInv, TransmitterInv, AttenKept, AttenTold, Transmitter, Channels, ChannelMap

\* ... and for the ports and loopbacks.
LEMMA PathRests ==
  ASSUME GainInv, UNCHANGED gainBoard, UNCHANGED pathFields PROVE PathInv'
BY DEF GainInv, PathInv, pathFields, MonitorsFollowPort, LoopbackPairs

-----------------------------------------------------------------------------
(***************************************************************************)
(* Channels.                                                               *)
(***************************************************************************)

\* A channel stands for one receiver and one transmitter, and two channels for
\* different ones (ad9361_1rx1tx_channel_map); setting an attenuation and telling
\* it reach the same transmitter.
LEMMA ChannelFacts ==
  ASSUME gainBoard \in GainBoards
  PROVE  /\ \A ch \in Channels : /\ ch \in {0, 1} /\ ch + 1 \in {1, 2}
                                 /\ Receiver(ch) \in {1, 2} /\ Transmitter(ch) \in {1, 2}
                                 /\ ChannelMap(gainBoard.txNum, ch) + 1 = Transmitter(ch)
         /\ \A ch, d \in Channels : ch # d => /\ Receiver(ch) # Receiver(d)
                                              /\ Transmitter(ch) # Transmitter(d)
                                              /\ ch + 1 # d + 1
<1>1. /\ gainBoard.rx2tx2 \in BOOLEAN
      /\ gainBoard.rxNum \in {1, 2} /\ gainBoard.txNum \in {1, 2}
  BY GainAssumption
<1>2. CASE gainBoard.rx2tx2
  BY <1>2 DEF Channels, Receiver, Transmitter, ChannelMap
<1>3. CASE ~gainBoard.rx2tx2
  BY <1>1, <1>3 DEF Channels, Receiver, Transmitter, ChannelMap
<1>4. QED BY <1>2, <1>3

\* The gain that is set is the gain that is told (set_full_table_gain,
\* ad9361_get_full_table_gain), at an index of the table.
LEMMA IndexToldBack ==
  ASSUME NEW band \in Bands, NEW g \in Int, ValidGain(band, g)
  PROVE  /\ GainIndex(band, g) \in 0..SIZE_FULL_TABLE - 1
         /\ GainAt(band, GainIndex(band, g)) = g
<1>1. CASE band = "low"
  BY <1>1 DEF ValidGain, GainIndex, GainAt, GainInfo, SIZE_FULL_TABLE
<1>2. CASE band = "middle"
  BY <1>2 DEF ValidGain, GainIndex, GainAt, GainInfo, SIZE_FULL_TABLE
<1>3. CASE band = "high"
  BY <1>3 DEF ValidGain, GainIndex, GainAt, GainInfo, SIZE_FULL_TABLE
<1>4. QED BY <1>1, <1>2, <1>3 DEF Bands

-----------------------------------------------------------------------------
(***************************************************************************)
(* The receivers.                                                          *)
(***************************************************************************)

\* A gain that is granted goes to one receiver; a refused one goes nowhere.
LEMMA SetRxRfGain_Inv ==
  ASSUME GainInv, SetRxRfGain, UNCHANGED gainBoard PROVE GainInv'
<1>1. PICK ch \in Channels, g \in GainsAsked :
        /\ gain' = [SetRxGainTo(gain, Receiver(ch), g) EXCEPT !.ok = TRUE]
        /\ gainHeld' = [gainHeld EXCEPT ![ch] =
                          IF SetRxGainTo(gain, Receiver(ch), g).ok THEN g ELSE @]
        /\ UNCHANGED <<attenHeld, modeHeld, muteBase>>
  BY DEF SetRxRfGain
<1>2. g \in Int
  BY GainAssumption
<1>3. DOMAIN gain = GainFields /\ gain.ok = TRUE /\ gainBoard \in GainBoards
  BY DEF GainInv, ChipInv
<1>4. Receiver(ch) \in {1, 2}
  BY <1>3, ChannelFacts
<1>5. CASE gain.mode[Receiver(ch)] # "manual" \/ gainBoard.split \/ ~ValidGain(gain.band, g)
  <2>1. SetRxGainTo(gain, Receiver(ch), g) = [gain EXCEPT !.ok = FALSE]
    BY <1>5 DEF SetRxGainTo
  <2>2. /\ UNCHANGED <<receiverFields, transmitterFields, pathFields>>
        /\ DOMAIN gain' = GainFields /\ gain'.ok = TRUE
    BY <1>1, <1>3, <2>1 DEF GainFields, receiverFields, transmitterFields, pathFields,
       GainInv, ReceiverInv
  <2>3. QED
    BY <1>3, <2>2, ReceiverRests, TransmitterRests, PathRests DEF GainInv, ChipInv
<1>6. CASE ~(gain.mode[Receiver(ch)] # "manual" \/ gainBoard.split \/ ~ValidGain(gain.band, g))
  <2>1. SetRxGainTo(gain, Receiver(ch), g) =
          [gain EXCEPT !.index[Receiver(ch)] = GainIndex(gain.band, g)]
    BY <1>6 DEF SetRxGainTo
  <2>2. /\ gain'.index = [gain.index EXCEPT ![Receiver(ch)] = GainIndex(gain.band, g)]
        /\ gainHeld' = [gainHeld EXCEPT ![ch] = g]
        /\ UNCHANGED <<gain.mode, gain.agc, gain.rxOn, gain.band, gain.duration, modeHeld>>
        /\ UNCHANGED <<transmitterFields, pathFields>>
        /\ DOMAIN gain' = GainFields /\ gain'.ok = TRUE
    BY <1>1, <1>3, <2>1 DEF GainFields, transmitterFields, pathFields
  <2>3. /\ GainIndex(gain.band, g) \in 0..SIZE_FULL_TABLE - 1
        /\ GainAt(gain.band, GainIndex(gain.band, g)) = g
    BY <1>2, <1>6, IndexToldBack DEF GainInv, ReceiverInv
  <2>4. /\ gain'.index \in [{1, 2} -> 0..SIZE_FULL_TABLE - 1]
        /\ gainHeld' \in [Channels -> Int]
    <3>1. /\ gain.index \in [{1, 2} -> 0..SIZE_FULL_TABLE - 1]
          /\ gainHeld \in [Channels -> Int]
      BY DEF GainInv, ReceiverInv
    <3>2. gain'.index \in [{1, 2} -> 0..SIZE_FULL_TABLE - 1]
      BY <2>2, <2>3, <3>1
    <3>3. gainHeld' \in [Channels -> Int]
      BY <1>2, <2>2, <3>1
    <3>4. QED BY <3>2, <3>3
  <2>5. GainKept'
    <3> SUFFICES ASSUME NEW d \in Channels, gainHeld'[d] # NoGain
                 PROVE  GainAt(gain.band, gain'.index[Receiver(d)]) = gainHeld'[d]
      BY <2>2 DEF GainKept, GainTold, Receiver, Channels, ChannelMap
    <3>1. CASE d = ch
      BY <1>4, <2>2, <2>3, <3>1 DEF GainInv, ReceiverInv
    <3>2. CASE d # ch
      <4>1. Receiver(d) # Receiver(ch) /\ Receiver(d) \in {1, 2}
        BY <1>3, <3>2, ChannelFacts
      <4>2. gain'.index[Receiver(d)] = gain.index[Receiver(d)] /\ gainHeld'[d] = gainHeld[d]
        BY <2>2, <3>2, <4>1 DEF GainInv, ReceiverInv
      <4>3. QED BY <4>2 DEF GainInv, ReceiverInv, GainKept, GainTold
    <3>3. QED BY <3>1, <3>2
  <2>6. ModeInForce' /\ DurationFollowsModes'
    BY <2>2 DEF GainInv, ReceiverInv, ModeInForce, DurationFollowsModes, Receiver, Channels,
       ChannelMap
  <2>7. ReceiverInv'
    BY <2>2, <2>4, <2>5, <2>6 DEF GainInv, ReceiverInv, Channels
  <2>8. QED BY <1>3, <2>2, <2>7, TransmitterRests, PathRests DEF GainInv, ChipInv
<1>7. QED BY <1>5, <1>6

\* A mode that is accepted is set for one receiver, and the duration of the
\* measurement from the modes of both; a refused one is only remembered.
LEMMA SetRxGainControlMode_Inv ==
  ASSUME GainInv, SetRxGainControlMode, UNCHANGED gainBoard PROVE GainInv'
<1>1. PICK ch \in Channels, mode \in Modes \cup {"invalid"} :
        /\ gain' = GainCtrlMode([gain EXCEPT !.agc[ch + 1] = mode], Receiver(ch), mode)
        /\ modeHeld' = [modeHeld EXCEPT ![ch] = mode]
        /\ UNCHANGED <<gainHeld, attenHeld, muteBase>>
  BY DEF SetRxGainControlMode
<1>2. DOMAIN gain = GainFields /\ gain.ok = TRUE /\ gainBoard \in GainBoards
  BY DEF GainInv, ChipInv
<1>3. Receiver(ch) \in {1, 2} /\ ch + 1 \in {1, 2}
  BY <1>2, ChannelFacts
<1>4. /\ gain'.agc = [gain.agc EXCEPT ![ch + 1] = mode]
      /\ gain'.mode = IF mode \in Modes THEN [gain.mode EXCEPT ![Receiver(ch)] = mode]
                                        ELSE gain.mode
      /\ gain'.rxOn = IF mode \in Modes THEN gain.rxOn \cup {Receiver(ch)} ELSE gain.rxOn
      /\ mode \in Modes => gain'.duration = GcDuration(gain'.agc)
      /\ UNCHANGED <<gain.index, gain.band>>
      /\ UNCHANGED <<transmitterFields, pathFields>>
      /\ DOMAIN gain' = GainFields /\ gain'.ok = TRUE
  <2>1. CASE mode \in Modes
    BY <1>1, <1>2, <2>1 DEF GainCtrlMode, GainFields, transmitterFields, pathFields
  <2>2. CASE mode \notin Modes
    BY <1>1, <1>2, <2>2 DEF GainCtrlMode, GainFields, transmitterFields, pathFields
  <2>3. QED BY <2>1, <2>2
<1>5. /\ gain'.agc \in [{1, 2} -> Modes \cup {"invalid"}]
      /\ gain'.mode \in [{1, 2} -> Modes]
      /\ gain'.rxOn \subseteq {1, 2}
      /\ modeHeld' \in [Channels -> Modes \cup {"invalid", "none"}]
  BY <1>1, <1>3, <1>4 DEF GainInv, ReceiverInv
<1>6. GainKept'
  BY <1>1, <1>4 DEF GainInv, ReceiverInv, GainKept, GainTold, Receiver, Channels, ChannelMap
<1>7. ModeInForce'
  <2> SUFFICES ASSUME NEW d \in Channels, modeHeld'[d] \in Modes
               PROVE  /\ gain'.agc[d + 1] = modeHeld'[d]
                      /\ gain'.mode[Receiver(d)] = modeHeld'[d]
                      /\ Receiver(d) \in gain'.rxOn
    BY DEF ModeInForce, Receiver, Channels, ChannelMap
  <2>1. CASE d = ch
    BY <1>1, <1>3, <1>4, <2>1 DEF GainInv, ReceiverInv
  <2>2. CASE d # ch
    <3>1. Receiver(d) # Receiver(ch) /\ Receiver(d) \in {1, 2} /\ d + 1 # ch + 1 /\ d + 1 \in {1, 2}
      BY <1>2, <2>2, ChannelFacts
    <3>2. modeHeld'[d] = modeHeld[d]
      BY <1>1, <2>2 DEF GainInv, ReceiverInv
    <3>3. /\ gain.agc[d + 1] = modeHeld[d] /\ gain.mode[Receiver(d)] = modeHeld[d]
          /\ Receiver(d) \in gain.rxOn
      BY <3>2 DEF GainInv, ReceiverInv, ModeInForce
    <3>4. /\ gain'.agc[d + 1] = gain.agc[d + 1]
          /\ gain'.mode[Receiver(d)] = gain.mode[Receiver(d)]
      BY <1>4, <3>1 DEF GainInv, ReceiverInv
    <3>5. QED BY <1>4, <3>2, <3>3, <3>4
  <2>3. QED BY <2>1, <2>2
<1>8. DurationFollowsModes'
  <2> SUFFICES ASSUME \A d \in Channels : modeHeld'[d] # "invalid"
               PROVE  gain'.duration = "fast" <=> "fast" \in {gain'.agc[1], gain'.agc[2]}
    BY DEF DurationFollowsModes, Channels
  <2>1. modeHeld'[ch] = mode
    BY <1>1 DEF GainInv, ReceiverInv
  <2>2. mode \in Modes
    BY <2>1
  <2>3. QED BY <1>4, <2>2 DEF GcDuration
<1>9. ReceiverInv'
  BY <1>1, <1>4, <1>5, <1>6, <1>7, <1>8 DEF GainInv, ReceiverInv, Channels
<1>10. QED BY <1>2, <1>4, <1>9, TransmitterRests, PathRests DEF GainInv, ChipInv

\* The table of another band makes a gain that was granted meaningless.
LEMMA LoadGt_Inv == ASSUME GainInv, LoadGt, UNCHANGED gainBoard PROVE GainInv'
<1>1. PICK band \in Bands \ {gain.band} :
        /\ gain' = [gain EXCEPT !.band = band, !.table = band]
        /\ gainHeld' = [ch \in Channels |-> NoGain]
        /\ UNCHANGED <<attenHeld, modeHeld, muteBase>>
  BY DEF LoadGt
<1>2. DOMAIN gain = GainFields /\ gain.ok = TRUE /\ gainBoard \in GainBoards
  BY DEF GainInv, ChipInv
<1>3. /\ gain'.band = band
      /\ UNCHANGED <<gain.index, gain.mode, gain.agc, gain.rxOn, gain.duration>>
      /\ UNCHANGED <<transmitterFields, pathFields>>
      /\ DOMAIN gain' = GainFields /\ gain'.ok = TRUE
  BY <1>1, <1>2 DEF GainFields, transmitterFields, pathFields
<1>4. GainKept' /\ gainHeld' \in [Channels -> Int]
  BY <1>1 DEF GainKept, Channels, NoGain
<1>5. ModeInForce' /\ DurationFollowsModes'
  BY <1>1, <1>3 DEF GainInv, ReceiverInv, ModeInForce, DurationFollowsModes, Receiver, Channels,
     ChannelMap
<1>6. ReceiverInv'
  BY <1>1, <1>3, <1>4, <1>5 DEF GainInv, ReceiverInv, Channels
<1>7. QED BY <1>2, <1>3, <1>6, TransmitterRests, PathRests DEF GainInv, ChipInv

-----------------------------------------------------------------------------
(***************************************************************************)
(* The transmitters.                                                       *)
(***************************************************************************)

\* What is not of the transmitters, and does not change with them.
ElsewhereSame ==
  /\ UNCHANGED <<receiverFields, pathFields, gainBoard>>
  /\ DOMAIN gain' = GainFields /\ gain'.ok = TRUE

\* y is x with the word written for the transmitters txs.
Written(x, y, word, txs, immed) ==
  /\ DOMAIN y = GainFields
  /\ y.atten = [t \in {1, 2} |-> IF t \in txs THEN word ELSE x.atten[t]]
  /\ y.force = IF immed THEN y.atten ELSE x.force
  /\ \A f \in GainFields \ {"atten", "force", "immediate"} : y[f] = x[f]

\* ad9361_set_tx_atten writes words, and puts all that is written into force if it
\* updates at once.
LEMMA WordsWritten ==
  ASSUME NEW x, DOMAIN x = GainFields, NEW word, NEW txs, NEW immed \in BOOLEAN
  PROVE  Written(x, SetTxAtten(x, word, txs, immed), word, txs, immed)
<1>1. CASE immed
  BY <1>1 DEF SetTxAtten, GainFields, Written
<1>2. CASE ~immed
  BY <1>2 DEF SetTxAtten, GainFields, Written
<1>3. QED BY <1>1, <1>2

\* A word that is written reaches the transmitter of the channel and no other.
LEMMA SetTxAttenuation_Inv ==
  ASSUME GainInv, SetTxAttenuation, UNCHANGED gainBoard PROVE GainInv'
<1>1. PICK ch \in Channels, mdb \in AttensAsked :
        LET tx == ChannelMap(gainBoard.txNum, ch) + 1
        IN /\ gain' = IF ~ValidAtten(mdb) THEN gain
                      ELSE SetTxAtten(gain, AttenWord(mdb), {tx}, ~gainBoard.alert)
           /\ attenHeld' = [attenHeld EXCEPT ![ch] = IF ValidAtten(mdb) THEN AttenWord(mdb) ELSE @]
           /\ muteBase' = IF ValidAtten(mdb) THEN <<>> ELSE muteBase
           /\ UNCHANGED <<gainHeld, modeHeld>>
  BY DEF SetTxAttenuation
<1>2. DOMAIN gain = GainFields /\ gain.ok = TRUE /\ gainBoard \in GainBoards
  BY DEF GainInv, ChipInv
<1>3. CASE ~ValidAtten(mdb)
  <2>1. attenHeld' = attenHeld
    BY <1>1, <1>3 DEF GainInv, TransmitterInv
  <2>2. UNCHANGED <<receiverFields, transmitterFields, pathFields>> /\ gain' = gain
    BY <1>1, <1>3, <2>1 DEF receiverFields, transmitterFields, pathFields
  <2>3. QED BY <1>2, <2>2, ReceiverRests, TransmitterRests, PathRests DEF GainInv, ChipInv
<1>4. CASE ValidAtten(mdb)
  <2> DEFINE word == AttenWord(mdb)
             tx == Transmitter(ch)
             y == SetTxAtten(gain, word, {tx}, ~gainBoard.alert)
  <2>1. word \in Words
    <3>1. mdb \in Nat /\ mdb <= 89750
      BY <1>4, GainAssumption, SMT DEF ValidAtten
    <3>2. mdb \div 250 \in 0..359
      BY <3>1, SMT
    <3>3. QED BY <3>2, SMT DEF AttenWord, Words, MutedWord
  <2>2. tx \in {1, 2} /\ ChannelMap(gainBoard.txNum, ch) + 1 = tx
    BY <1>2, ChannelFacts
  <2>3. gain' = y /\ attenHeld' = [attenHeld EXCEPT ![ch] = word] /\ muteBase' = <<>>
    BY <1>1, <1>4, <2>2
  <2>4. gainBoard.alert \in BOOLEAN
    BY <1>2, GainAssumption
  <2>5. /\ gain'.atten = [t \in {1, 2} |-> IF t \in {tx} THEN word ELSE gain.atten[t]]
        /\ gain'.force = IF ~gainBoard.alert THEN gain'.atten ELSE gain.force
        /\ \A f \in GainFields \ {"atten", "force", "immediate"} : gain'[f] = gain[f]
        /\ DOMAIN gain' = GainFields
    <3>1. (~gainBoard.alert) \in BOOLEAN
      OBVIOUS
    <3>2. Written(gain, gain', word, {tx}, ~gainBoard.alert)
      BY <1>2, <2>3, <3>1, WordsWritten
    <3>3. QED BY <3>2 DEF Written
  <2> HIDE DEF word, tx, y
  <2>6. ElsewhereSame /\ gain'.cached = gain.cached /\ gain'.muted = gain.muted
    BY <1>1, <1>2, <2>5 DEF ElsewhereSame, GainFields, receiverFields, pathFields
  <2>7. /\ gain'.atten \in [{1, 2} -> Words] /\ gain'.force \in [{1, 2} -> Words]
        /\ attenHeld' \in [Channels -> Words]
    BY <2>1, <2>3, <2>5 DEF GainInv, TransmitterInv
  <2>8. AttenKept'
    <3> SUFFICES ASSUME NEW d \in Channels
                 PROVE  /\ gain'.atten[Transmitter(d)] = attenHeld'[d]
                        /\ ~gainBoard.alert => gain'.force[Transmitter(d)] = attenHeld'[d]
      BY DEF AttenKept, AttenTold, Transmitter, Channels, ChannelMap
    <3>1. gain'.atten[Transmitter(d)] = attenHeld'[d]
      <4>1. CASE d = ch
        BY <2>2, <2>3, <2>5, <4>1 DEF GainInv, TransmitterInv, tx
      <4>2. CASE d # ch
        <5>1. Transmitter(d) # tx /\ Transmitter(d) \in {1, 2}
          BY <1>2, <4>2, ChannelFacts DEF tx
        <5>2. /\ gain'.atten[Transmitter(d)] = gain.atten[Transmitter(d)]
              /\ attenHeld'[d] = attenHeld[d]
          BY <2>3, <2>5, <4>2, <5>1 DEF GainInv, TransmitterInv
        <5>3. QED BY <5>2 DEF GainInv, TransmitterInv, AttenKept, AttenTold
      <4>3. QED BY <4>1, <4>2
    <3>2. QED BY <2>5, <3>1
  <2>9. TransmitterInv'
    BY <2>3, <2>6, <2>7, <2>8 DEF GainInv, TransmitterInv, Channels
  <2>10. QED BY <1>2, <2>6, <2>9, ReceiverRests, PathRests DEF GainInv, ChipInv, ElsewhereSame
<1>5. QED BY <1>3, <1>4

\* Muting keeps the words and writes others to both transmitters.
LEMMA MuteTx_Inv == ASSUME GainInv, MuteTx, UNCHANGED gainBoard PROVE GainInv'
<1>1. /\ gain' = [TxMute(gain, TRUE) EXCEPT !.muted = TRUE]
      /\ muteBase' = IF gain.muted THEN <<>> ELSE gain.atten
      /\ attenHeld' = [ch \in Channels |-> MutedWord]
      /\ UNCHANGED <<gainHeld, modeHeld>>
  BY DEF MuteTx
<1>2. DOMAIN gain = GainFields /\ gain.ok = TRUE /\ gainBoard \in GainBoards
  BY DEF GainInv, ChipInv
<1>3. PICK x : x = [gain EXCEPT !.cached = gain.atten]
  OBVIOUS
<1>4. PICK y : y = SetTxAtten(x, MutedWord, {1, 2}, TRUE)
  OBVIOUS
<1>5. gain' = [y EXCEPT !.muted = TRUE]
  BY <1>1, <1>3, <1>4 DEF TxMute
<1>6. /\ DOMAIN x = GainFields /\ x.cached = gain.atten
      /\ \A f \in GainFields \ {"cached"} : x[f] = gain[f]
  BY <1>2, <1>3 DEF GainFields
<1>7. /\ DOMAIN y = GainFields
      /\ y.atten = [t \in {1, 2} |-> IF t \in {1, 2} THEN MutedWord ELSE x.atten[t]]
      /\ y.force = y.atten
      /\ \A f \in GainFields \ {"atten", "force", "immediate"} : y[f] = x[f]
  <2>1. Written(x, y, MutedWord, {1, 2}, TRUE)
    BY <1>4, <1>6, WordsWritten
  <2>2. QED BY <2>1 DEF Written
<1>8. /\ gain'.atten = [t \in {1, 2} |-> MutedWord] /\ gain'.force = gain'.atten
      /\ gain'.cached = gain.atten /\ gain'.muted = TRUE
      /\ DOMAIN gain' = GainFields
      /\ \A f \in GainFields \ {"atten", "force", "immediate", "cached", "muted"} :
           gain'[f] = gain[f]
  BY <1>5, <1>6, <1>7 DEF GainFields
<1>9. ElsewhereSame
  BY <1>1, <1>2, <1>8 DEF ElsewhereSame, GainFields, receiverFields, pathFields
<1>10. /\ gain'.atten \in [{1, 2} -> Words] /\ gain'.force \in [{1, 2} -> Words]
       /\ gain'.cached \in [{1, 2} -> Words] /\ gain'.muted \in BOOLEAN
       /\ attenHeld' \in [Channels -> Words]
  <2>1. MutedWord \in Words /\ gain.atten \in [{1, 2} -> Words]
    BY DEF GainInv, TransmitterInv, Words, MutedWord
  <2>2. gain'.atten \in [{1, 2} -> Words]
    BY <1>8, <2>1
  <2>3. gain'.cached \in [{1, 2} -> Words] /\ gain'.force \in [{1, 2} -> Words]
    BY <1>8, <2>1, <2>2
  <2>4. gain'.muted \in BOOLEAN
    BY <1>8
  <2>5. attenHeld' \in [Channels -> Words]
    BY <1>1, <2>1
  <2>6. QED BY <2>2, <2>3, <2>4, <2>5
<1>11. \A d \in Channels : Transmitter(d) \in {1, 2}
  BY <1>2, ChannelFacts
<1>12. AttenKept'
  <2> SUFFICES ASSUME NEW d \in Channels
               PROVE  /\ gain'.atten[Transmitter(d)] = attenHeld'[d]
                      /\ gain'.force[Transmitter(d)] = attenHeld'[d]
    BY DEF AttenKept, AttenTold, Transmitter, Channels, ChannelMap
  <2>1. Transmitter(d) \in {1, 2}
    BY <1>11
  <2>2. attenHeld'[d] = MutedWord
    BY <1>1
  <2>3. gain'.atten[Transmitter(d)] = MutedWord
    BY <1>8, <2>1
  <2>4. QED BY <1>8, <2>2, <2>3
<1>13. TransmitterInv'
  BY <1>1, <1>8, <1>10, <1>12 DEF TransmitterInv, Channels
<1>14. QED BY <1>2, <1>9, <1>13, ReceiverRests, PathRests DEF GainInv, ChipInv, ElsewhereSame

\* Unmuting writes the words that were kept, to both transmitters at once or one
\* after the other, and puts them into force.
LEMMA WordsReturn ==
  ASSUME GainInv, UnmuteTx
  PROVE  /\ gain'.atten = gain.cached /\ gain'.force = gain.cached /\ ~gain'.muted
         /\ DOMAIN gain' = GainFields
         /\ \A f \in GainFields \ {"atten", "force", "immediate", "muted"} : gain'[f] = gain[f]
<1>1. gain' = [TxMute(gain, FALSE) EXCEPT !.muted = FALSE]
  BY DEF UnmuteTx
<1>2. DOMAIN gain = GainFields /\ gain.cached \in [{1, 2} -> Words]
  BY DEF GainInv, ChipInv, TransmitterInv
<1>3. PICK y : y = TxMute(gain, FALSE)
  OBVIOUS
<1>4. /\ DOMAIN y = GainFields /\ y.atten = gain.cached /\ y.force = y.atten
      /\ \A f \in GainFields \ {"atten", "force", "immediate"} : y[f] = gain[f]
  <2>1. CASE gain.cached[1] = gain.cached[2]
    <3>1. y = SetTxAtten(gain, gain.cached[1], {1, 2}, TRUE)
      BY <1>3, <2>1 DEF TxMute
    <3>2. /\ DOMAIN y = GainFields
          /\ y.atten = [t \in {1, 2} |-> IF t \in {1, 2} THEN gain.cached[1] ELSE gain.atten[t]]
          /\ y.force = y.atten
          /\ \A f \in GainFields \ {"atten", "force", "immediate"} : y[f] = gain[f]
      <4>1. Written(gain, y, gain.cached[1], {1, 2}, TRUE)
        BY <1>2, <3>1, WordsWritten
      <4>2. QED BY <4>1 DEF Written
    <3>3. [t \in {1, 2} |-> IF t \in {1, 2} THEN gain.cached[1] ELSE gain.atten[t]] = gain.cached
      BY <1>2, <2>1
    <3>4. QED BY <3>2, <3>3
  <2>2. CASE gain.cached[1] # gain.cached[2]
    <3>1. PICK z : z = SetTxAtten(gain, gain.cached[1], {1}, TRUE)
      OBVIOUS
    <3>2. y = SetTxAtten(z, gain.cached[2], {2}, TRUE)
      BY <1>3, <2>2, <3>1 DEF TxMute
    <3>3. /\ DOMAIN z = GainFields
          /\ z.atten = [t \in {1, 2} |-> IF t \in {1} THEN gain.cached[1] ELSE gain.atten[t]]
          /\ \A f \in GainFields \ {"atten", "force", "immediate"} : z[f] = gain[f]
      <4>1. Written(gain, z, gain.cached[1], {1}, TRUE)
        BY <1>2, <3>1, WordsWritten
      <4>2. QED BY <4>1 DEF Written
    <3>4. /\ DOMAIN y = GainFields
          /\ y.atten = [t \in {1, 2} |-> IF t \in {2} THEN gain.cached[2] ELSE z.atten[t]]
          /\ y.force = y.atten
          /\ \A f \in GainFields \ {"atten", "force", "immediate"} : y[f] = z[f]
      <4>1. Written(z, y, gain.cached[2], {2}, TRUE)
        BY <3>2, <3>3, WordsWritten
      <4>2. QED BY <4>1 DEF Written
    <3>5. [t \in {1, 2} |-> IF t \in {2} THEN gain.cached[2] ELSE z.atten[t]] = gain.cached
      BY <1>2, <3>3
    <3>6. QED BY <3>3, <3>4, <3>5
  <2>3. QED BY <2>1, <2>2
<1>5. QED BY <1>1, <1>3, <1>4 DEF GainFields

\* An unmute writes them back.
LEMMA UnmuteTx_Inv == ASSUME GainInv, UnmuteTx, UNCHANGED gainBoard PROVE GainInv'
<1>1. /\ gain'.atten = gain.cached /\ gain'.force = gain.cached /\ ~gain'.muted
      /\ DOMAIN gain' = GainFields
      /\ \A f \in GainFields \ {"atten", "force", "immediate", "muted"} : gain'[f] = gain[f]
  BY WordsReturn
<1>2. /\ muteBase' = <<>> /\ attenHeld' = [ch \in Channels |-> gain.cached[Transmitter(ch)]]
      /\ UNCHANGED <<gainHeld, modeHeld>> /\ gain' = [TxMute(gain, FALSE) EXCEPT !.muted = FALSE]
  BY DEF UnmuteTx
<1>3. DOMAIN gain = GainFields /\ gain.ok = TRUE /\ gainBoard \in GainBoards
  BY DEF GainInv, ChipInv
<1>4. ElsewhereSame /\ gain'.cached = gain.cached
  BY <1>1, <1>2, <1>3 DEF ElsewhereSame, GainFields, receiverFields, pathFields
<1>5. \A d \in Channels : Transmitter(d) \in {1, 2}
  BY <1>3, ChannelFacts
<1>6. gain'.muted = FALSE
  BY <1>2, <1>3, <1>1 DEF GainFields
<1>7. /\ gain'.atten \in [{1, 2} -> Words] /\ gain'.force \in [{1, 2} -> Words]
      /\ gain'.cached \in [{1, 2} -> Words]
      /\ attenHeld' \in [Channels -> Words]
  BY <1>1, <1>2, <1>4, <1>5 DEF GainInv, TransmitterInv
<1>8. AttenKept'
  BY <1>1, <1>2 DEF AttenKept, AttenTold, Transmitter, Channels, ChannelMap
<1>9. TransmitterInv'
  BY <1>2, <1>6, <1>7, <1>8 DEF TransmitterInv, Channels
<1>10. QED BY <1>3, <1>4, <1>9, ReceiverRests, PathRests DEF GainInv, ChipInv, ElsewhereSame

\* Passing ALERT puts into force what waits for it.
LEMMA PassAlert_Inv == ASSUME GainInv, PassAlert, UNCHANGED gainBoard PROVE GainInv'
<1>1. /\ gainBoard.alert /\ gain' = [gain EXCEPT !.force = gain.atten]
      /\ UNCHANGED <<gainHeld, attenHeld, modeHeld, muteBase>>
  BY DEF PassAlert
<1>2. DOMAIN gain = GainFields /\ gain.ok = TRUE /\ gainBoard \in GainBoards
  BY DEF GainInv, ChipInv
<1>3. /\ gain'.force = gain.atten
      /\ UNCHANGED <<gain.atten, gain.cached, gain.muted>> /\ ElsewhereSame
  BY <1>1, <1>2 DEF GainFields, ElsewhereSame, receiverFields, pathFields
<1>4. TransmitterInv'
  BY <1>1, <1>3 DEF GainInv, TransmitterInv, AttenKept, AttenTold, Transmitter, Channels, ChannelMap
<1>5. QED BY <1>2, <1>3, <1>4, ReceiverRests, PathRests DEF GainInv, ChipInv, ElsewhereSame

-----------------------------------------------------------------------------
(***************************************************************************)
(* Ports and loopbacks.                                                    *)
(***************************************************************************)

\* The monitors of the transmitters are put on by the numbers of their inputs, and
\* off by every other input; the choice of an output leaves them alone.
LEMMA RfPortFrame ==
  ASSUME GainInv, SetRxRfPortInput \/ SetTxRfPortOutput
  PROVE  /\ UNCHANGED <<receiverFields, transmitterFields>>
         /\ UNCHANGED <<gain.chipLoop, gain.hdlLoop, gain.txOn>>
         /\ DOMAIN gain' = GainFields /\ gain'.ok = TRUE
         /\ MonitorsFollowPort'
<1>1. DOMAIN gain = GainFields /\ gain.ok = TRUE
  BY DEF GainInv, ChipInv
<1>2. CASE SetRxRfPortInput
  <2>1. PICK rx \in {0, 3, 9, 10, 12} :
          /\ gain' = [RfPortSetup([gain EXCEPT !.rxPort = rx], FALSE, rx, gain.txPort)
                      EXCEPT !.ok = TRUE]
          /\ UNCHANGED <<gainHeld, attenHeld, modeHeld, muteBase>>
    BY <1>2 DEF SetRxRfPortInput
  <2>2. PICK x : x = [gain EXCEPT !.rxPort = rx]
    OBVIOUS
  <2>3. \/ rx > 8 /\ RfPortSetup(x, FALSE, rx, gain.txPort) = [x EXCEPT !.ok = FALSE]
        \/ /\ rx > 8
           /\ RfPortSetup(x, FALSE, rx, gain.txPort) =
                [x EXCEPT !.monitors = {t \in {1, 2} : (rx \div t) % 2 = 1}]
        \/ RfPortSetup(x, FALSE, rx, gain.txPort) =
             [x EXCEPT !.monitors = {}, !.input = rx, !.output = gain.txPort]
    <3>1. rx > 11 \/ rx \in {9, 10} \/ rx < 9
      OBVIOUS
    <3>2. CASE rx > 11
      BY <3>2 DEF RfPortSetup
    <3>3. CASE rx \in {9, 10}
      <4>1. ~(rx > 11) /\ rx > 8
        BY <3>3
      <4>2. QED BY <4>1 DEF RfPortSetup
    <3>4. CASE rx < 9
      <4>1. ~(rx > 11) /\ ~(rx > 8) /\ rx < 9 /\ rx # 9
        BY <3>4
      <4>2. QED BY <4>1 DEF RfPortSetup
    <3>5. QED BY <3>1, <3>2, <3>3, <3>4
  <2>4. PICK y : y = RfPortSetup(x, FALSE, rx, gain.txPort)
    OBVIOUS
  <2>5. gain' = [y EXCEPT !.ok = TRUE]
    BY <2>1, <2>2, <2>4
  <2>6. /\ DOMAIN y = GainFields
        /\ \A f \in GainFields \ {"rxPort", "monitors", "input", "output", "ok"} : y[f] = gain[f]
        /\ y.monitors = {} \/ y.rxPort > 8
    BY <1>1, <2>2, <2>3, <2>4 DEF GainInv, PathInv, MonitorsFollowPort, GainFields
  <2>7. MonitorsFollowPort'
    BY <2>5, <2>6 DEF MonitorsFollowPort, GainFields
  <2>8. QED
    BY <2>1, <2>5, <2>6, <2>7 DEF GainFields, receiverFields, transmitterFields
<1>3. CASE SetTxRfPortOutput
  <2>1. PICK tx \in {0, 1} :
          /\ gain' = [RfPortSetup([gain EXCEPT !.txPort = tx], TRUE, gain.rxPort, tx)
                      EXCEPT !.ok = TRUE]
          /\ UNCHANGED <<gainHeld, attenHeld, modeHeld, muteBase>>
    BY <1>3 DEF SetTxRfPortOutput
  <2>2. PICK x : x = [gain EXCEPT !.txPort = tx]
    OBVIOUS
  <2>3. PICK y : y = RfPortSetup(x, TRUE, gain.rxPort, tx)
    OBVIOUS
  <2>4. gain' = [y EXCEPT !.ok = TRUE]
    BY <2>1, <2>2, <2>3
  <2>5. \/ y = [x EXCEPT !.ok = FALSE]
        \/ \E in, out : y = [x EXCEPT !.monitors = x.monitors, !.input = in, !.output = out]
    BY <2>3 DEF RfPortSetup
  <2>6. /\ DOMAIN y = GainFields
        /\ \A f \in GainFields \ {"txPort", "input", "output", "ok"} : y[f] = gain[f]
    BY <1>1, <2>2, <2>5 DEF GainFields
  <2>7. MonitorsFollowPort'
    BY <2>4, <2>6 DEF GainInv, PathInv, MonitorsFollowPort, GainFields
  <2>8. QED
    BY <2>1, <2>4, <2>6, <2>7 DEF GainFields, receiverFields, transmitterFields
<1>4. QED BY <1>2, <1>3

\* The ports disturb nothing else.
LEMMA RfPort_Inv ==
  ASSUME GainInv, SetRxRfPortInput \/ SetTxRfPortOutput, UNCHANGED gainBoard PROVE GainInv'
<1>1. LoopbackPairs'
  BY RfPortFrame DEF GainInv, PathInv, LoopbackPairs
<1>2. QED BY <1>1, RfPortFrame, ReceiverRests, TransmitterRests DEF GainInv, ChipInv, PathInv

\* A loopback in the chip needs the transmitter of the receiver's number, and
\* every other mode gives the board's back.
LEMMA SetLoopback_Inv == ASSUME GainInv, SetLoopback, UNCHANGED gainBoard PROVE GainInv'
<1>1. PICK mode \in 0..3 :
        /\ gain' = [BistLoopback(gain, mode) EXCEPT !.loopMode = mode]
        /\ UNCHANGED <<gainHeld, attenHeld, modeHeld, muteBase>>
  BY DEF SetLoopback
<1>2. DOMAIN gain = GainFields /\ gain.ok = TRUE /\ gainBoard \in GainBoards
  BY DEF GainInv, ChipInv
<1>3. gainBoard.rxNum \in {1, 2} /\ gainBoard.txNum \in {1, 2}
  BY <1>2, GainAssumption
<1>4. PICK off : off = FixChCross(gain, FALSE)
  OBVIOUS
<1>5. PICK on : on = FixChCross(gain, TRUE)
  OBVIOUS
<1>6. \A y \in {off, on} : DOMAIN y = GainFields /\ \A f \in GainFields \ {"txOn"} : y[f] = gain[f]
  <2>1. \/ off = gain
        \/ off = [gain EXCEPT !.txOn = {gainBoard.txNum}]
    BY <1>4 DEF FixChCross
  <2>2. \/ on = gain
        \/ on = [gain EXCEPT !.txOn = {gainBoard.rxNum}]
    BY <1>5 DEF FixChCross
  <2>3. DOMAIN off = GainFields /\ \A f \in GainFields \ {"txOn"} : off[f] = gain[f]
    BY <1>2, <2>1 DEF GainFields
  <2>4. DOMAIN on = GainFields /\ \A f \in GainFields \ {"txOn"} : on[f] = gain[f]
    BY <1>2, <2>2 DEF GainFields
  <2>5. QED BY <2>3, <2>4
<1>7. ~gainBoard.rx2tx2 => off.txOn = {gainBoard.txNum} /\ on.txOn = {gainBoard.rxNum}
  <2> SUFFICES ASSUME ~gainBoard.rx2tx2
               PROVE  off.txOn = {gainBoard.txNum} /\ on.txOn = {gainBoard.rxNum}
    OBVIOUS
  <2>1. CASE gainBoard.rxNum = gainBoard.txNum
    <3>1. off = gain /\ on = gain
      BY <1>4, <1>5, <2>1 DEF FixChCross
    <3>2. gain.txOn = {gainBoard.txNum}
      BY <2>1 DEF GainInv, PathInv, LoopbackPairs
    <3>3. QED BY <2>1, <3>1, <3>2
  <2>2. CASE gainBoard.rxNum # gainBoard.txNum
    <3>1. off = [gain EXCEPT !.txOn = {gainBoard.txNum}]
      BY <1>4, <2>2 DEF FixChCross
    <3>2. on = [gain EXCEPT !.txOn = {gainBoard.rxNum}]
      BY <1>5, <2>2 DEF FixChCross
    <3>3. QED BY <1>2, <3>1, <3>2 DEF GainFields
  <2>3. QED BY <2>1, <2>2
<1>8. \/ gain' = [[off EXCEPT !.chipLoop = FALSE, !.hdlLoop = FALSE] EXCEPT !.loopMode = mode]
      \/ gain' = [[on EXCEPT !.chipLoop = TRUE, !.hdlLoop = FALSE] EXCEPT !.loopMode = mode]
      \/ gain' = [[off EXCEPT !.chipLoop = FALSE, !.hdlLoop = TRUE] EXCEPT !.loopMode = mode]
      \/ gain' = [gain EXCEPT !.loopMode = mode]
  <2>1. CASE mode = 0
    BY <1>1, <1>4, <2>1 DEF BistLoopback
  <2>2. CASE mode = 1
    BY <1>1, <1>5, <2>2 DEF BistLoopback
  <2>3. CASE mode = 2
    BY <1>1, <1>4, <2>3 DEF BistLoopback
  <2>4. CASE mode = 3
    BY <1>1, <2>4 DEF BistLoopback
  <2>5. QED BY <2>1, <2>2, <2>3, <2>4
<1>9. /\ DOMAIN gain' = GainFields
      /\ \A f \in GainFields \ {"txOn", "chipLoop", "hdlLoop", "loopMode"} : gain'[f] = gain[f]
  BY <1>2, <1>6, <1>8 DEF GainFields
<1>10. \/ gain'.chipLoop = FALSE /\ gain'.hdlLoop = FALSE /\ gain'.txOn = off.txOn
       \/ gain'.chipLoop = TRUE /\ gain'.hdlLoop = FALSE /\ gain'.txOn = on.txOn
       \/ gain'.chipLoop = FALSE /\ gain'.hdlLoop = TRUE /\ gain'.txOn = off.txOn
       \/ gain'.chipLoop = gain.chipLoop /\ gain'.hdlLoop = gain.hdlLoop /\ gain'.txOn = gain.txOn
  BY <1>2, <1>6, <1>8 DEF GainFields
<1>11. /\ UNCHANGED <<receiverFields, transmitterFields>> /\ gain'.ok = TRUE
       /\ UNCHANGED <<gain.monitors, gain.rxPort>>
  BY <1>1, <1>2, <1>9 DEF GainFields, receiverFields, transmitterFields
<1>12. PathInv'
  <2>1. MonitorsFollowPort'
    BY <1>11 DEF GainInv, PathInv, MonitorsFollowPort
  <2>2. LoopbackPairs'
    BY <1>7, <1>10 DEF GainInv, PathInv, LoopbackPairs
  <2>3. QED BY <2>1, <2>2 DEF PathInv
<1>13. QED BY <1>2, <1>9, <1>11, <1>12, ReceiverRests, TransmitterRests DEF GainInv, ChipInv

-----------------------------------------------------------------------------
(***************************************************************************)
(* The specification.                                                      *)
(***************************************************************************)

\* After set-up.
LEMMA GainInit_Inv == GainInit => GainInv
<1> SUFFICES ASSUME GainInit PROVE GainInv
  OBVIOUS
<1>1. PICK rx1 \in {"manual", "slow", "fast"}, rx2 \in {"manual", "slow", "fast"} :
        gain = GainSetup(rx1, rx2)
  BY DEF GainInit
<1>2. /\ gainBoard \in GainBoards /\ gainHeld = [ch \in Channels |-> NoGain]
      /\ attenHeld = [ch \in Channels |-> 40] /\ modeHeld = [ch \in Channels |-> "none"]
      /\ muteBase = <<>>
  BY DEF GainInit
<1>3. /\ gainBoard.rx2tx2 \in BOOLEAN /\ gainBoard.split \in BOOLEAN
      /\ gainBoard.rxNum \in {1, 2} /\ gainBoard.txNum \in {1, 2}
  BY <1>2, GainAssumption
<1>4. ChipInv
  BY <1>1, <1>2 DEF ChipInv, GainSetup, GainFields
<1>5. ReceiverInv
  <2>1. gain.mode = <<rx1, rx2>> /\ gain.agc = <<rx1, rx2>>
    BY <1>1 DEF GainSetup
  <2>2. /\ gain.mode \in [{1, 2} -> Modes] /\ gain.agc \in [{1, 2} -> Modes \cup {"invalid"}]
    BY <2>1 DEF Modes
  <2>3. /\ gain.index \in [{1, 2} -> 0..SIZE_FULL_TABLE - 1]
        /\ gain.rxOn \subseteq {1, 2} /\ gain.band \in Bands
    BY <1>1, <1>3 DEF GainSetup, SIZE_FULL_TABLE, SIZE_SPLIT_TABLE, EnabledBySetup, Bands
  <2>4. GainKept /\ ModeInForce
    BY <1>2 DEF GainKept, ModeInForce, Modes
  <2>5. gain.duration = IF "fast" \in {rx1, rx2} THEN "fast" ELSE "slow"
    BY <1>1 DEF GainSetup
  <2>6. DurationFollowsModes
    BY <2>1, <2>5 DEF DurationFollowsModes
  <2>7. QED BY <1>2, <2>2, <2>3, <2>4, <2>6 DEF ReceiverInv, NoGain
<1>6. TransmitterInv
  <2>1. /\ gain.atten = AttenSetup /\ gain.force = AttenSetup /\ gain.cached = <<0, 0>>
        /\ gain.muted = FALSE
    BY <1>1 DEF GainSetup
  <2>2. AttenSetup \in [{1, 2} -> Words] /\ <<0, 0>> \in [{1, 2} -> Words]
    BY DEF AttenSetup, Words, MutedWord
  <2>3. \A ch \in Channels : AttenSetup[Transmitter(ch)] = 40
    BY <1>3 DEF AttenSetup, Channels, Transmitter, ChannelMap
  <2>4. AttenKept
    BY <1>2, <2>1, <2>3 DEF AttenKept, AttenTold
  <2>5. attenHeld \in [Channels -> Words]
    BY <1>2 DEF Words, MutedWord
  <2>6. QED BY <1>2, <2>1, <2>2, <2>4, <2>5 DEF TransmitterInv
<1>7. PathInv
  BY <1>1 DEF GainSetup, PathInv, MonitorsFollowPort, LoopbackPairs, EnabledBySetup
<1>8. QED BY <1>4, <1>5, <1>6, <1>7 DEF GainInv

\* Every call.
LEMMA GainNext_Inv == GainInv /\ [GainNext]_gainVars => GainInv'
<1> SUFFICES ASSUME GainInv, [GainNext]_gainVars PROVE GainInv'
  OBVIOUS
<1>1. CASE UNCHANGED gainVars
  <2>1. UNCHANGED <<receiverFields, transmitterFields, pathFields, gainBoard, gain>>
    BY <1>1 DEF gainVars, receiverFields, transmitterFields, pathFields
  <2>2. QED BY <2>1, ReceiverRests, TransmitterRests, PathRests DEF GainInv, ChipInv
<1>2. CASE GainNext
  BY <1>2, SetRxRfGain_Inv, SetRxGainControlMode_Inv, LoadGt_Inv, SetTxAttenuation_Inv,
     MuteTx_Inv, UnmuteTx_Inv, PassAlert_Inv, RfPort_Inv, SetLoopback_Inv DEF GainNext
<1>3. QED BY <1>1, <1>2

\* The invariant holds after every sequence of calls.
LEMMA GainInvariant == GainSpec => []GainInv
BY GainInit_Inv, GainNext_Inv, PTL DEF GainSpec

\* Only an unmute ends a mute.
LEMMA MuteEnds ==
  ASSUME GainInv, [GainNext]_gainVars, gain.muted, ~gain'.muted PROVE UnmuteTx
<1>1. DOMAIN gain = GainFields /\ gainBoard \in GainBoards
  BY DEF GainInv, ChipInv
<1>2. gain # gain'
  OBVIOUS
<1>3. ~MuteTx
  <2> SUFFICES ASSUME MuteTx PROVE FALSE
    OBVIOUS
  <2>1. PICK y : y = SetTxAtten([gain EXCEPT !.cached = gain.atten], MutedWord, {1, 2}, TRUE)
    OBVIOUS
  <2>2. gain' = [y EXCEPT !.muted = TRUE] /\ DOMAIN y = GainFields
    BY <1>1, <2>1 DEF MuteTx, TxMute, SetTxAtten
  <2>3. QED BY <2>2 DEF GainFields
<1>4. ~SetRxRfGain
  BY <1>1 DEF SetRxRfGain, SetRxGainTo, GainFields
<1>5. ~SetRxGainControlMode
  BY <1>1 DEF SetRxGainControlMode, GainCtrlMode, GainFields
<1>6. ~LoadGt /\ ~PassAlert
  BY <1>1 DEF LoadGt, PassAlert, GainFields
<1>7. ~SetTxAttenuation
  BY <1>1 DEF SetTxAttenuation, SetTxAtten, GainFields
<1>8. ~SetRxRfPortInput /\ ~SetTxRfPortOutput
  BY RfPortFrame DEF transmitterFields
<1>9. ~SetLoopback
  BY <1>1 DEF SetLoopback, BistLoopback, FixChCross, GainFields
<1>10. QED
  BY <1>2, <1>3, <1>4, <1>5, <1>6, <1>7, <1>8, <1>9 DEF GainNext, gainVars

\* What was granted for a channel (a gain, a mode, an attenuation) is what its
\* receiver or transmitter has, whatever is set for the other one, refused, muted,
\* routed or looped back since; an unmute brings back what the mute put away
\* (ad9361_set_rx_rf_gain to ad9361_bist_loopback of ad9361_api.c).
THEOREM GainsAreKept == GainSpec => GainsKept
<1>1. GainInv => /\ GainKept /\ ModeInForce /\ DurationFollowsModes /\ AttenKept
                 /\ MonitorsFollowPort /\ LoopbackPairs
  BY DEF GainInv, ReceiverInv, TransmitterInv, PathInv
<1>2. GainInv /\ [GainNext]_gainVars =>
        [gain.muted /\ ~gain'.muted /\ muteBase # <<>> =>
           gain'.atten = muteBase /\ gain'.force = muteBase]_gainVars
  <2> SUFFICES ASSUME GainInv, [GainNext]_gainVars, gain.muted, ~gain'.muted, muteBase # <<>>
               PROVE  gain'.atten = muteBase /\ gain'.force = muteBase
    OBVIOUS
  <2>1. UnmuteTx
    BY MuteEnds
  <2>2. gain.cached = muteBase
    BY DEF GainInv, TransmitterInv
  <2>3. QED BY <2>1, <2>2, WordsReturn
<1>3. QED
  BY <1>1, <1>2, GainInvariant, PTL DEF GainSpec, GainsKept, MuteReturns

\* The registers of the gain keep their ranges.
THEOREM GainTypes == GainSpec => []GainTypeOK
<1>1. GainInv => GainTypeOK
  BY DEF GainInv, ChipInv, ReceiverInv, TransmitterInv, GainTypeOK, Words
<1>2. QED BY <1>1, GainInvariant, PTL

-----------------------------------------------------------------------------
(* The synthesizers.                                                       *)


LoFields == {"RX", "TX", "ok", "table", "auto", "quad"}
SideFields ==
  {"vco", "div", "lut", "alc", "fast", "slot", "used", "ready", "cal", "pd", "ext", "rate",
   "dummy", "want", "cachedDiv", "tdd", "profile", "cachedPd", "useExt", "entry"}
Carriers == 70..6000

-----------------------------------------------------------------------------
(***************************************************************************)
(* The inductive invariant, about one side, both, and what was granted.      *)
(***************************************************************************)

\* A profile and its entry in phy
EntryInv(v, e) ==
  /\ DOMAIN v = {"vco", "div", "alc"} /\ DOMAIN e = {"init", "orig", "written"}
  /\ v.alc = e.written /\ e.written \in 0..255 /\ e.orig \in 0..255

\* The words of the ALC: a side on its own synthesizer was locked with the
\* register's, and a profile is written as its entry says.
AlcInv(s) ==
  /\ s.alc \in 0..255 /\ (s.profile = 0 => s.used = s.alc)
  /\ DOMAIN s.slot = LoProfiles /\ DOMAIN s.entry = LoProfiles
  /\ \A p \in LoProfiles : EntryInv(s.slot[p], s.entry[p])

\* A side: profiles, external LO and powering down as ProfilesObeyed has them
SideCore(s) ==
  /\ DOMAIN s = SideFields
  /\ s.fast = s.profile /\ (s.profile = 0 \/ \E p \in LoProfiles : s.profile = p + 1)
  /\ (s.ready <=> s.profile # 0) /\ (s.profile # 0 => ~s.cal)
  /\ (~s.useExt => s.div \in 0..6)
  /\ s.pd = s.cachedPd /\ ("VCO" \in s.pd <=> s.ext)
  /\ AlcInv(s)

\* Once an LO was set, the divider to come back to is one of an LO, and the VCO was set
\* up from the row of its frequency.
SideInv(s) ==
  /\ SideCore(s) /\ s.want \in Carriers /\ s.cachedDiv \in 0..6
  /\ s.lut = << IF s.tdd THEN "TDD" ELSE "FDD", VcoRow(s.vco) >>

\* The tables of both sides
PairInv(rx, tx) ==
  loBoard.fdd /\ ~loBoard.indep =>
    (rx.tdd <=> rx.want = tx.want) /\ (tx.tdd <=> rx.want = tx.want)

\* h is granted and not given up: the side is on its own synthesizer, at h.
Granted(s, h) ==
  h # 0 => /\ s.want = h /\ ~s.useExt /\ s.profile = 0
           /\ s.vco = VcoFor(h) /\ s.div = LoDivider(h)

\* The chip and what the driver knows of it
LoInv(x) ==
  /\ DOMAIN x = LoFields /\ SideInv(x["RX"]) /\ SideInv(x["TX"])
  /\ PairInv(x["RX"], x["TX"])

\* What was granted
HeldInv(x, held) ==
  /\ DOMAIN held = LoSides
  /\ Granted(x["RX"], held["RX"]) /\ Granted(x["TX"], held["TX"])
  /\ held["RX"] # 0 => x.table = GainTable(held["RX"])

SynthInv == loBoard \in LoBoards /\ LoInv(lo) /\ lo.ok = TRUE /\ HeldInv(lo, loHeld)

-----------------------------------------------------------------------------
(***************************************************************************)
(* Frequencies.                                                            *)
(***************************************************************************)

\* Seven doublings reach above the VCO's minimum from every carrier.
LEMMA DividerExists ==
  ASSUME NEW f \in Carriers
  PROVE  \E d \in 1..7 : f * 2^d > MIN_VCO_FREQ /\ f * 2^(d - 1) <= MIN_VCO_FREQ
<1>1. /\ 2^0 = 1 /\ 2^1 = 2 /\ 2^2 = 4 /\ 2^3 = 8 /\ 2^4 = 16 /\ 2^5 = 32 /\ 2^6 = 64
      /\ 2^7 = 128
  BY SMT
<1>2. f \in Int /\ f <= 6000 /\ f * 128 > 6000
  BY SMT DEF Carriers
<1>3. CASE f * 2 > 6000
  BY <1>1, <1>2, <1>3, SMT DEF MIN_VCO_FREQ
<1>4. CASE f * 2 <= 6000 /\ f * 4 > 6000
  BY <1>1, <1>4, SMT DEF MIN_VCO_FREQ
<1>5. CASE f * 4 <= 6000 /\ f * 8 > 6000
  BY <1>1, <1>5, SMT DEF MIN_VCO_FREQ
<1>6. CASE f * 8 <= 6000 /\ f * 16 > 6000
  BY <1>1, <1>6, SMT DEF MIN_VCO_FREQ
<1>7. CASE f * 16 <= 6000 /\ f * 32 > 6000
  BY <1>1, <1>7, SMT DEF MIN_VCO_FREQ
<1>8. CASE f * 32 <= 6000 /\ f * 64 > 6000
  BY <1>1, <1>8, SMT DEF MIN_VCO_FREQ
<1>9. CASE f * 64 <= 6000
  BY <1>1, <1>2, <1>9, SMT DEF MIN_VCO_FREQ
<1>10. QED BY <1>2, <1>3, <1>4, <1>5, <1>6, <1>7, <1>8, <1>9, SMT

\* A divider of an LO is none of the external LO, and the synthesizer that is set
\* up for a carrier gives it (ad9361_calc_rfpll_int_divder, _freq).
LEMMA CarrierGiven ==
  ASSUME NEW f \in Carriers
  PROVE  /\ LoDivider(f) \in 0..6
         /\ LoFrequency(VcoFor(f), LoDivider(f)) = f
<1>1. PICK d \in 1..7 : d = CHOOSE e \in 1..7 : /\ f * 2^e > MIN_VCO_FREQ
                                                /\ f * 2^(e - 1) <= MIN_VCO_FREQ
  BY DividerExists
<1>2. LoDivider(f) = d - 1
  BY <1>1 DEF LoDivider
<1>3. LoDivider(f) \in 0..6 /\ LoDivider(f) + 1 = d
  BY <1>2
<1>4. VcoFor(f) = f * 2^d
  BY <1>3 DEF VcoFor
<1>5. LoFrequency(f * 2^d, LoDivider(f)) = (f * 2^d) \div 2^d
  BY <1>3 DEF LoFrequency
<1>6. (f * 2^d) \div 2^d = f
  <2>1. /\ 2^1 = 2 /\ 2^2 = 4 /\ 2^3 = 8 /\ 2^4 = 16 /\ 2^5 = 32 /\ 2^6 = 64 /\ 2^7 = 128
    BY SMT
  <2>2. f \in Int
    BY SMT DEF Carriers
  <2>3. CASE d = 1 BY <2>1, <2>2, <2>3, SMT
  <2>4. CASE d = 2 BY <2>1, <2>2, <2>4, SMT
  <2>5. CASE d = 3 BY <2>1, <2>2, <2>5, SMT
  <2>6. CASE d = 4 BY <2>1, <2>2, <2>6, SMT
  <2>7. CASE d = 5 BY <2>1, <2>2, <2>7, SMT
  <2>8. CASE d = 6 BY <2>1, <2>2, <2>8, SMT
  <2>9. CASE d = 7 BY <2>1, <2>2, <2>9, SMT
  <2>10. QED BY <2>3, <2>4, <2>5, <2>6, <2>7, <2>8, <2>9, SMT
<1>7. QED BY <1>3, <1>4, <1>5, <1>6

\* What can be tuned is a carrier, and rounding keeps it.
LEMMA ValidIsCarrier ==
  ASSUME NEW x, NEW f \in Int, ValidLo(RoundLo(x, f))
  PROVE  f \in Carriers /\ RoundLo(x, f) = f
<1>1. ValidLo(f) => f \in Carriers
  BY SMT DEF ValidLo, InCarrierRange, Carriers
<1>2. ~ValidLo(Garbage)
  BY SMT DEF ValidLo, InCarrierRange, Garbage
<1>3. QED BY <1>1, <1>2 DEF RoundLo

-----------------------------------------------------------------------------
(***************************************************************************)
(* What the steps of a setting change.                                      *)
(***************************************************************************)

\* Of x only the fields F of side t change in y.
SideChanged(x, y, t, F) ==
  /\ DOMAIN y = LoFields /\ DOMAIN y[t] = SideFields
  /\ \A k \in LoFields \ {t} : y[k] = x[k]
  /\ \A k \in SideFields \ F : y[t][k] = x[t][k]

\* The sides are two.
LEMMA TwoSides ==
  ASSUME NEW t \in LoSides
  PROVE  /\ OtherSide(t) \in LoSides /\ OtherSide(t) # t /\ OtherSide(OtherSide(t)) = t
         /\ LoSides = {t, OtherSide(t)} /\ {t, OtherSide(t)} \subseteq LoFields
         /\ t \in {"RX", "TX"}
BY DEF LoSides, OtherSide, LoFields

\* The words of the ALC are the same when the fields that tell them are.
LEMMA AlcSame ==
  ASSUME NEW s, NEW r, AlcInv(s),
         r.alc = s.alc, r.profile = s.profile, r.used = s.used, r.slot = s.slot, r.entry = s.entry
  PROVE  AlcInv(r)
BY DEF AlcInv

\* Leaving a profile changes what says that there is one; the word of the ALC in
\* use is the register's again.
LeftProfile(x, y, t) ==
  /\ SideChanged(x, y, t, {"fast", "profile", "ready", "cal", "used"})
  /\ y[t].profile = 0 /\ SideCore(y[t]) /\ (SideInv(x[t]) => SideInv(y[t]))

\* ad9361_fastlock_prepare, to leave.
LEMMA LeaveProfile_Side ==
  ASSUME NEW x, NEW t \in LoSides, DOMAIN x = LoFields, SideCore(x[t])
  PROVE  LeftProfile(x, LeaveProfile(x, t), t)
<1>1. CASE x[t].profile = 0
  BY <1>1 DEF LeaveProfile, LeftProfile, SideChanged, SideCore
<1>2. CASE x[t].profile # 0
  <2>1. PICK y : y = LeaveProfile(x, t)
    OBVIOUS
  <2>2. y = [x EXCEPT ![t].fast = 0, ![t].profile = 0, ![t].ready = FALSE,
                      ![t].cal = TRUE, ![t].used = x[t].alc]
    BY <1>2, <2>1 DEF LeaveProfile
  <2>3. t \in LoFields /\ DOMAIN x[t] = SideFields
    BY TwoSides DEF SideCore
  <2>4. /\ SideChanged(x, y, t, {"fast", "profile", "ready", "cal", "used"})
        /\ y[t].fast = 0 /\ y[t].profile = 0 /\ y[t].ready = FALSE /\ y[t].cal = TRUE
        /\ y[t].used = x[t].alc
    BY <2>2, <2>3 DEF SideChanged, SideFields
  <2>5. AlcInv(y[t])
    BY <2>4 DEF SideCore, AlcInv, SideChanged, SideFields
  <2>6. SideCore(y[t])
    BY <2>4, <2>5 DEF SideCore, SideChanged, SideFields
  <2>7. SideInv(x[t]) => SideInv(y[t])
    BY <2>4, <2>6 DEF SideInv, SideChanged, SideFields
  <2>8. QED BY <2>1, <2>4, <2>6, <2>7 DEF LeftProfile
<1>3. QED BY <1>1, <1>2

\* Setting up a synthesizer changes its words and the row and table of its VCO.
SynthTuned(x, y, t, f) ==
  /\ SideChanged(x, y, t, {"vco", "div", "lut", "tdd", "alc", "used"})
  /\ y[t].vco = VcoFor(f) /\ y[t].div = LoDivider(f)
  /\ y[t].tdd <=> ~(loBoard.fdd /\ ~loBoard.indep /\ x["RX"].want # x["TX"].want)
  /\ f \in Carriers /\ SideCore(x[t]) /\ x[t].want \in Carriers /\ x[t].cachedDiv \in 0..6 =>
       SideInv(y[t])

\* One round of ad9361_rfpll_int_set_rate.
LEMMA TuneVco_Side ==
  ASSUME NEW x, NEW t \in LoSides, DOMAIN x = LoFields, DOMAIN x[t] = SideFields,
         NEW f, NEW alc \in AlcWords
  PROVE  SynthTuned(x, TuneVco(x, t, f, alc), t, f)
<1>1. PICK y : y = TuneVco(x, t, f, alc)
  OBVIOUS
<1>2. PICK l : l = LutFor(x, t, VcoFor(f))
  OBVIOUS
<1>3. y = [x EXCEPT ![t].vco = VcoFor(f), ![t].div = LoDivider(f), ![t].lut = l,
                    ![t].tdd = (l[1] = "TDD"), ![t].alc = alc, ![t].used = alc]
  BY <1>1, <1>2 DEF TuneVco
<1>4. t \in LoFields
  BY TwoSides
<1>5. /\ SideChanged(x, y, t, {"vco", "div", "lut", "tdd", "alc", "used"})
      /\ y[t].vco = VcoFor(f) /\ y[t].div = LoDivider(f) /\ y[t].lut = l
      /\ y[t].tdd = (l[1] = "TDD") /\ y[t].alc = alc /\ y[t].used = alc
  BY <1>3, <1>4 DEF SideChanged, SideFields
<1>6. l[2] = VcoRow(VcoFor(f)) /\ l = <<l[1], l[2]>> /\ l[1] \in {"FDD", "TDD"}
  BY <1>2 DEF LutFor
<1>7. l[1] = "TDD" <=> ~(loBoard.fdd /\ ~loBoard.indep /\ x["RX"].want # x["TX"].want)
  BY <1>2 DEF LutFor
<1>8. ASSUME f \in Carriers, SideCore(x[t]), x[t].want \in Carriers, x[t].cachedDiv \in 0..6
      PROVE  SideInv(y[t])
  <2>1. LoDivider(f) \in 0..6
    BY <1>8, CarrierGiven
  <2>2. y[t].lut = << IF y[t].tdd THEN "TDD" ELSE "FDD", VcoRow(y[t].vco) >>
    BY <1>5, <1>6
  <2>3. alc \in 0..255
    BY SynthAssumption
  <2>4. AlcInv(y[t])
    BY <1>5, <1>8, <2>3 DEF SideCore, AlcInv, SideChanged, SideFields
  <2>5. SideCore(y[t])
    BY <1>5, <1>8, <2>1, <2>4 DEF SideCore, SideChanged, SideFields
  <2>6. QED BY <1>5, <1>8, <2>2, <2>5 DEF SideInv, SideChanged, SideFields
<1>9. QED BY <1>1, <1>5, <1>7, <1>8 DEF SynthTuned

\* The fix-up sets the other side up for the LO that is remembered of it, and takes
\* it off its profile when the LOs differ.
FixedUp(x, y, t) ==
  LET u == OtherSide(t)
  IN /\ DOMAIN y = LoFields /\ \A k \in LoFields \ {u} : y[k] = x[k]
     /\ SideInv(y[u])
     /\ y[u].want = x[u].want /\ y[u].useExt = x[u].useExt
     /\ y[u].vco = VcoFor(y[u].want) /\ y[u].div = LoDivider(y[u].want)
     /\ y[u].tdd <=> ~(loBoard.fdd /\ ~loBoard.indep /\ x["RX"].want # x["TX"].want)
     /\ y[u].profile \in {0, x[u].profile}

\* The second round of ad9361_rfpll_int_set_rate.
LEMMA Fixup_Side ==
  ASSUME NEW x, NEW t \in LoSides, DOMAIN x = LoFields, SideInv(x[OtherSide(t)]),
         NEW alc \in AlcWords
  PROVE  FixedUp(x, Fixup(x, t, alc), t)
<1>1. PICK u : u = OtherSide(t)
  OBVIOUS
<1>2. /\ u \in LoSides /\ u \in LoFields /\ SideInv(x[u])
      /\ SideCore(x[u]) /\ x[u].want \in Carriers
  BY <1>1, TwoSides DEF SideInv
<1>3. PICK z : z = IF x[t].want # x[u].want THEN LeaveProfile(x, u) ELSE x
  OBVIOUS
<1>4. /\ SideChanged(x, z, u, {"fast", "profile", "ready", "cal", "used"}) /\ SideInv(z[u])
      /\ z[u].profile \in {0, x[u].profile}
  <2>1. CASE x[t].want # x[u].want
    BY <1>2, <1>3, <2>1, LeaveProfile_Side DEF LeftProfile
  <2>2. CASE x[t].want = x[u].want
    BY <1>2, <1>3, <2>2 DEF SideChanged, SideCore
  <2>3. QED BY <2>1, <2>2
<1>5. PICK y : y = TuneVco(z, u, x[u].want, alc)
  OBVIOUS
<1>6. SynthTuned(z, y, u, x[u].want)
  BY <1>2, <1>4, <1>5, TuneVco_Side DEF SideChanged
<1>7. Fixup(x, t, alc) = y
  BY <1>1, <1>3, <1>5 DEF Fixup
<1>8. z["RX"].want = x["RX"].want /\ z["TX"].want = x["TX"].want
  BY <1>2, <1>4 DEF SideChanged, SideFields, LoFields, LoSides
<1>9. SideInv(y[u])
  <2>1. SideCore(z[u]) /\ z[u].want \in Carriers /\ z[u].cachedDiv \in 0..6
    BY <1>4 DEF SideInv
  <2>2. QED BY <1>2, <1>6, <2>1 DEF SynthTuned
<1>10. DOMAIN y = LoFields /\ \A k \in LoFields \ {u} : y[k] = x[k]
  BY <1>4, <1>6 DEF SynthTuned, SideChanged
<1>11. /\ y[u].want = x[u].want /\ y[u].useExt = x[u].useExt
       /\ y[u].profile \in {0, x[u].profile}
  BY <1>4, <1>6 DEF SynthTuned, SideChanged, SideFields
<1>12. y[u].vco = VcoFor(y[u].want) /\ y[u].div = LoDivider(y[u].want)
  BY <1>6, <1>11 DEF SynthTuned
<1>13. y[u].tdd <=> ~(loBoard.fdd /\ ~loBoard.indep /\ x["RX"].want # x["TX"].want)
  BY <1>6, <1>8 DEF SynthTuned
<1>14. QED BY <1>1, <1>7, <1>9, <1>10, <1>11, <1>12, <1>13 DEF FixedUp

\* Setting the internal synthesizer of t for f that can be tuned: t is at f, and the
\* other side, when it was set up or needs no fix-up, is at what it was granted.
SynthSet(x, y, t, f) ==
  LET u == OtherSide(t)
  IN /\ DOMAIN y = LoFields /\ y.ok \in BOOLEAN
     /\ \A k \in {"table", "auto", "quad"} : y[k] = x[k]
     /\ SideInv(y[t]) /\ y[t].useExt = x[t].useExt /\ y[t].profile = 0 /\ y[t].want = f
     /\ y[t].vco = VcoFor(f) /\ y[t].div = LoDivider(f)
     /\ y[u] = x[u] \/ SideInv(y[u])
     /\ x[u].want # f /\ x[u].tdd = FALSE => y[u] = x[u]
     /\ y[u].useExt = x[u].useExt /\ y[u].profile \in {0, x[u].profile}
     /\ \A h : Granted(x[u], h) => Granted(y[u], h)
     /\ PairInv(y["RX"], y["TX"])

\* The part of ad9361_rfpll_int_set_rate after the test of the frequency.
LEMMA IntSetRate_Set ==
  ASSUME NEW x, NEW t \in LoSides, NEW f \in Carriers, NEW alc \in AlcWords, ValidLo(f),
         DOMAIN x = LoFields, SideCore(x[t]),
         \/ SideInv(x[OtherSide(t)])
         \/ x[OtherSide(t)].want # f /\ x[OtherSide(t)].tdd = FALSE,
         NEW l1 \in BOOLEAN, NEW l2 \in BOOLEAN
  PROVE  SynthSet(x, IntSetRate(x, t, f, alc, l1, l2), t, f)
<1>1. PICK u : u = OtherSide(t)
  OBVIOUS
<1>2. /\ u \in LoSides /\ u # t /\ {t, u} \subseteq LoFields /\ LoSides = {t, u}
      /\ (t = "RX" /\ u = "TX") \/ (t = "TX" /\ u = "RX")
  <2>1. (t = "RX" /\ u = "TX") \/ (t = "TX" /\ u = "RX")
    BY <1>1 DEF LoSides, OtherSide
  <2>2. QED BY <2>1 DEF LoSides, LoFields
<1>3. SideInv(x[u]) \/ (x[u].want # f /\ x[u].tdd = FALSE)
  BY <1>1
<1>4. PICK y : y = LeaveProfile(x, t)
  OBVIOUS
<1>5. /\ SideChanged(x, y, t, {"fast", "profile", "ready", "cal", "used"})
      /\ y[t].profile = 0 /\ SideCore(y[t])
  BY <1>4, LeaveProfile_Side DEF LeftProfile
<1>6. PICK r : r = IntSetRate(x, t, f, alc, l1, l2)
  OBVIOUS
<1>7. LoDivider(f) \in 0..6
  BY CarrierGiven
<1>8. PICK z : z = [y EXCEPT ![t].want = f, ![t].cachedDiv = LoDivider(f)]
  OBVIOUS
<1>9. /\ SideChanged(y, z, t, {"want", "cachedDiv"})
      /\ z[t].want = f /\ z[t].cachedDiv = LoDivider(f)
  BY <1>2, <1>5, <1>8 DEF SideChanged, SideFields
<1>10. SideCore(z[t])
  <2>1. AlcInv(z[t])
    BY <1>5, <1>9, AlcSame DEF SideCore, SideChanged, SideFields
  <2>2. QED BY <1>5, <1>9, <2>1 DEF SideCore, SideChanged, SideFields
<1>11. PICK v : v = TuneVco(z, t, f, alc)
  OBVIOUS
<1>12. SynthTuned(z, v, t, f)
  BY <1>9, <1>11, TuneVco_Side DEF SideChanged
<1>13. /\ DOMAIN v = LoFields /\ SideInv(v[t]) /\ v[u] = x[u]
       /\ \A k \in {"table", "auto", "quad"} : v[k] = x[k]
       /\ v[t].want = f /\ v[t].useExt = x[t].useExt /\ v[t].profile = 0
       /\ v[t].vco = VcoFor(f) /\ v[t].div = LoDivider(f)
  <2>1. DOMAIN v = LoFields /\ v[u] = x[u] /\ \A k \in {"table", "auto", "quad"} : v[k] = x[k]
    BY <1>2, <1>5, <1>9, <1>12 DEF SynthTuned, SideChanged, LoFields
  <2>2. SideInv(v[t])
    BY <1>7, <1>9, <1>10, <1>12 DEF SynthTuned
  <2>3. v[t].want = f /\ v[t].useExt = x[t].useExt /\ v[t].profile = 0
    BY <1>5, <1>9, <1>12 DEF SynthTuned, SideChanged, SideFields
  <2>4. v[t].vco = VcoFor(f) /\ v[t].div = LoDivider(f)
    BY <1>12 DEF SynthTuned
  <2>5. QED BY <2>1, <2>2, <2>3, <2>4
<1>14. v[t].tdd <=> ~(loBoard.fdd /\ ~loBoard.indep /\ v["RX"].want # v["TX"].want)
  <2>1. z["RX"].want = v["RX"].want /\ z["TX"].want = v["TX"].want
    BY <1>2, <1>12 DEF SynthTuned, SideChanged, SideFields, LoFields
  <2>2. QED BY <1>12, <2>1 DEF SynthTuned
<1>15. PICK w : w = IF NeedsFixup(v) THEN Fixup(v, t, alc) ELSE v
  OBVIOUS
<1>16. /\ DOMAIN w = LoFields /\ w[t] = v[t] /\ (w[u] = x[u] \/ SideInv(w[u]))
       /\ \A k \in {"table", "auto", "quad"} : w[k] = x[k]
       /\ w[u].useExt = x[u].useExt /\ w[u].profile \in {0, x[u].profile}
       /\ \A h : Granted(x[u], h) => Granted(w[u], h)
       /\ PairInv(w["RX"], w["TX"])
       /\ x[u].want # f /\ x[u].tdd = FALSE => w[u] = x[u]
  <2>1. CASE NeedsFixup(v)
    <3>8. ~(x[u].want # f /\ x[u].tdd = FALSE)
      BY <1>2, <1>13, <1>14, <2>1 DEF NeedsFixup
    <3>1. SideInv(x[u])
      BY <1>2, <1>3, <1>13, <1>14, <2>1 DEF NeedsFixup
    <3>2. FixedUp(v, w, t)
      BY <1>1, <1>13, <1>15, <2>1, <3>1, Fixup_Side
    <3>3. /\ DOMAIN w = LoFields /\ w[t] = v[t] /\ SideInv(w[u])
          /\ \A k \in {"table", "auto", "quad"} : w[k] = x[k]
      BY <1>1, <1>2, <1>13, <3>2 DEF FixedUp, LoFields
    <3>4. /\ w[u].want = x[u].want /\ w[u].useExt = x[u].useExt
          /\ w[u].profile \in {0, x[u].profile}
          /\ w[u].vco = VcoFor(w[u].want) /\ w[u].div = LoDivider(w[u].want)
          /\ w[u].tdd <=> ~(loBoard.fdd /\ ~loBoard.indep /\ v["RX"].want # v["TX"].want)
      BY <1>1, <1>13, <3>2 DEF FixedUp
    <3>5. \A h : Granted(x[u], h) => Granted(w[u], h)
      BY <3>4 DEF Granted
    <3>6. PairInv(w["RX"], w["TX"])
      BY <1>2, <1>13, <1>14, <3>3, <3>4 DEF PairInv
    <3>7. QED BY <3>3, <3>4, <3>5, <3>6, <3>8
  <2>2. CASE ~NeedsFixup(v)
    <3>1. w = v
      BY <1>15, <2>2
    <3>2. PairInv(w["RX"], w["TX"])
      BY <1>2, <1>14, <2>2, <3>1 DEF PairInv, NeedsFixup
    <3>3. QED BY <1>13, <3>1, <3>2
  <2>3. QED BY <2>1, <2>2
<1>17. PICK s : s = IF loBoard.skipCal THEN [w EXCEPT ![t].cal = FALSE] ELSE w
  OBVIOUS
<1>18. SideChanged(w, s, t, {"cal"}) /\ s[t].cal \in {FALSE, w[t].cal}
  BY <1>2, <1>13, <1>16, <1>17 DEF SideChanged, SideFields, SideInv, SideCore
<1>19. SideInv(s[t])
  <2>1. /\ DOMAIN s[t] = SideFields /\ \A k \in SideFields \ {"cal"} : s[t][k] = v[t][k]
        /\ s[t].cal \in {FALSE, v[t].cal}
    BY <1>16, <1>18 DEF SideChanged
  <2>2. AlcInv(s[t])
    BY <1>13, <2>1, AlcSame DEF SideInv, SideCore, SideFields
  <2>3. SideCore(s[t])
    BY <1>13, <2>1, <2>2 DEF SideInv, SideCore, SideFields
  <2>4. QED BY <1>13, <2>1, <2>3 DEF SideInv, SideFields
<1>20. r = [s EXCEPT !.ok = IF NeedsFixup(v) THEN l2 ELSE l1]
  BY <1>4, <1>6, <1>8, <1>11, <1>15, <1>17 DEF IntSetRate
<1>21. /\ DOMAIN r = LoFields /\ r[t] = s[t] /\ r[u] = w[u] /\ r.ok \in BOOLEAN
       /\ \A k \in {"table", "auto", "quad"} : r[k] = x[k]
  BY <1>2, <1>16, <1>18, <1>20 DEF SideChanged, LoFields
<1>22. /\ r[t].want = f /\ r[t].useExt = x[t].useExt /\ r[t].profile = 0
       /\ r[t].vco = VcoFor(f) /\ r[t].div = LoDivider(f) /\ r[t].tdd = w[t].tdd
       /\ r[t].want = w[t].want
  BY <1>13, <1>16, <1>18, <1>21 DEF SideChanged, SideFields
<1>23. PairInv(r["RX"], r["TX"])
  BY <1>2, <1>16, <1>21, <1>22 DEF PairInv
<1>24. SynthSet(x, r, t, f)
  BY <1>1, <1>16, <1>19, <1>21, <1>22, <1>23 DEF SynthSet
<1>25. QED BY <1>6, <1>24

\* The same from any state, and when the frequency is refused: the profile is left.
RateSet(x, y, t, f) ==
  LET u == OtherSide(t)
  IN /\ LoInv(y) /\ y.ok \in BOOLEAN
     /\ \A k \in {"table", "auto", "quad"} : y[k] = x[k]
     /\ y[t].profile = 0 /\ y[u].profile \in {0, x[u].profile}
     /\ \A h : Granted(x[u], h) => Granted(y[u], h)
     /\ y.ok => ValidLo(f) /\ (~x[t].useExt => Granted(y[t], f))

\* ad9361_rfpll_int_set_rate
LEMMA IntSetRate_Rate ==
  ASSUME NEW x, NEW t \in LoSides, LoInv(x), NEW f, NEW alc \in AlcWords,
         NEW l1 \in BOOLEAN, NEW l2 \in BOOLEAN, ValidLo(f) => f \in Carriers
  PROVE  RateSet(x, IntSetRate(x, t, f, alc, l1, l2), t, f)
<1>1. PICK u : u = OtherSide(t)
  OBVIOUS
<1>2. /\ u \in LoSides /\ u # t /\ {t, u} \subseteq LoFields /\ LoSides = {t, u}
      /\ (t = "RX" /\ u = "TX") \/ (t = "TX" /\ u = "RX")
  <2>1. (t = "RX" /\ u = "TX") \/ (t = "TX" /\ u = "RX")
    BY <1>1 DEF LoSides, OtherSide
  <2>2. QED BY <2>1 DEF LoSides, LoFields
<1>3. /\ DOMAIN x = LoFields /\ SideInv(x[t]) /\ SideInv(x[u])
      /\ SideCore(x[t])
  BY <1>2 DEF LoInv, SideInv
<1>4. PICK r : r = IntSetRate(x, t, f, alc, l1, l2)
  OBVIOUS
<1>5. CASE ~ValidLo(f)
  <2>1. PICK y : y = LeaveProfile(x, t)
    OBVIOUS
  <2>2. /\ SideChanged(x, y, t, {"fast", "profile", "ready", "cal", "used"})
        /\ y[t].profile = 0 /\ SideInv(y[t])
    BY <1>3, <2>1, LeaveProfile_Side DEF LeftProfile
  <2>3. r = [y EXCEPT !.ok = FALSE]
    BY <1>4, <1>5, <2>1 DEF IntSetRate
  <2>4. /\ DOMAIN r = LoFields /\ r[t] = y[t] /\ r[u] = x[u] /\ r.ok = FALSE
        /\ \A k \in {"table", "auto", "quad"} : r[k] = x[k]
    BY <1>2, <2>2, <2>3 DEF SideChanged, LoFields
  <2>5. r[t].want = x[t].want /\ r[t].tdd = x[t].tdd
    BY <2>2, <2>4 DEF SideChanged, SideFields
  <2>6. LoInv(r)
    BY <1>2, <1>3, <2>2, <2>4, <2>5 DEF LoInv, PairInv
  <2>7. RateSet(x, r, t, f)
    BY <1>1, <2>2, <2>4, <2>6 DEF RateSet
  <2>8. QED BY <1>4, <2>7
<1>6. CASE ValidLo(f)
  <2>1. SynthSet(x, r, t, f)
    BY <1>1, <1>3, <1>4, <1>6, IntSetRate_Set
  <2>2. LoInv(r)
    BY <1>1, <1>2, <1>3, <2>1 DEF SynthSet, LoInv
  <2>3. ~x[t].useExt => Granted(r[t], f)
    BY <2>1 DEF SynthSet, Granted
  <2>4. RateSet(x, r, t, f)
    BY <1>1, <1>6, <2>1, <2>2, <2>3 DEF RateSet, SynthSet
  <2>5. QED BY <1>4, <2>4
<1>7. QED BY <1>5, <1>6

-----------------------------------------------------------------------------
(***************************************************************************)
(* A call that sets an LO.                                                  *)
(***************************************************************************)

\* Rates that are remembered decide nothing that is kept.
SameSide(s, r) ==
  DOMAIN r = SideFields /\ \A k \in SideFields \ {"rate", "dummy"} : r[k] = s[k]
SameButRates(x, y) ==
  DOMAIN y = LoFields /\ \A t \in LoSides : SameSide(x[t], y[t])

\* Neither does what is granted to a side depend on them.
LEMMA SideRates ==
  ASSUME NEW s, NEW r, SameSide(s, r)
  PROVE  /\ SideCore(s) => SideCore(r)
         /\ SideInv(s) => SideInv(r)
         /\ \A h : Granted(r, h) <=> Granted(s, h)
<1>1. DOMAIN r = SideFields /\ \A k \in SideFields \ {"rate", "dummy"} : r[k] = s[k]
  BY DEF SameSide
<1>2. ASSUME SideCore(s) PROVE SideCore(r)
  <2>1. AlcInv(r)
    BY <1>1, <1>2 DEF SideCore, AlcInv, SideFields
  <2>2. QED BY <1>1, <1>2, <2>1 DEF SideCore, SideFields
<1>3. SideInv(s) => SideInv(r)
  BY <1>1, <1>2 DEF SideInv, SideFields
<1>4. ASSUME NEW h PROVE Granted(r, h) <=> Granted(s, h)
  BY <1>1 DEF Granted, SideFields
<1>5. QED BY <1>2, <1>3, <1>4

\* Neither does what is granted to either.
LEMMA RatesDoNotMatter ==
  ASSUME NEW x, NEW y, LoInv(x), SameButRates(x, y)
  PROVE  LoInv(y) /\ \A t \in LoSides : \A h : Granted(y[t], h) <=> Granted(x[t], h)
<1>1. \A t \in LoSides : SameSide(x[t], y[t])
  BY DEF SameButRates
<1>2. SideInv(y["RX"]) /\ SideInv(y["TX"])
  BY <1>1, SideRates DEF LoInv, LoSides
<1>3. PairInv(y["RX"], y["TX"])
  BY <1>1 DEF LoInv, PairInv, SameSide, LoSides, SideFields
<1>4. \A t \in LoSides : \A h : Granted(y[t], h) <=> Granted(x[t], h)
  BY <1>1, SideRates
<1>5. QED BY <1>2, <1>3, <1>4 DEF LoInv, SameButRates

\* The LO of t is set for f: by the registry's memory of the rate, on the external LO,
\* or by the synthesizer; the tables follow.
LoRateSet(x, y, t, f) ==
  LET u == OtherSide(t)
  IN /\ LoInv(y) /\ y.ok \in BOOLEAN
     /\ \A s \in LoSides : y[s].profile \in {0, x[s].profile}
     /\ \A h : Granted(x[u], h) => Granted(y[u], h)
     /\ x[t].useExt \/ x[t].rate = f => \A h : Granted(x[t], h) => Granted(y[t], h)
     /\ y.ok /\ ~x[t].useExt /\ x[t].rate # f => Granted(y[t], f)
     /\ \/ y.table = x.table /\ (t = "RX" /\ ~x[t].useExt /\ x[t].rate # f => ~y.ok)
        \/ t = "RX" /\ y.ok /\ x[t].rate # f /\ y.table = GainTable(RoundLo(x, f))
              /\ (~x[t].useExt => RoundLo(x, f) = f)

\* clk_set_rate of an LO
LEMMA SetLoRate_Rate ==
  ASSUME NEW x, NEW t \in LoSides, LoInv(x), x.ok = TRUE, NEW f \in Int,
         NEW alc \in AlcWords, NEW l1 \in BOOLEAN, NEW l2 \in BOOLEAN
  PROVE  LoRateSet(x, SetLoRate(x, t, f, alc, l1, l2), t, f)
<1>1. PICK u : u = OtherSide(t)
  OBVIOUS
<1>2. /\ u \in LoSides /\ u # t /\ {t, u} \subseteq LoFields /\ LoSides = {t, u}
      /\ DOMAIN x = LoFields /\ SideInv(x[t]) /\ SideInv(x[u])
  BY <1>1, TwoSides DEF LoInv, LoSides
<1>3. PICK r : r = RoundLo(x, f)
  OBVIOUS
<1>4. PICK z : z = SetLoRate(x, t, f, alc, l1, l2)
  OBVIOUS
<1>5. CASE x[t].rate = f
  <2>1. z = x
    BY <1>4, <1>5 DEF SetLoRate
  <2>2. LoRateSet(x, z, t, f)
    BY <1>5, <2>1 DEF LoRateSet
  <2>3. QED BY <1>4, <2>2
<1>6. CASE x[t].rate # f
  <2> DEFINE y == IF x[t].useExt THEN [x EXCEPT ![t].dummy = r]
                  ELSE IntSetRate(x, t, r, alc, l1, l2)
  <2>1. z = IF ~y.ok THEN y ELSE Recomputed(FollowLo(y, t, r))
    BY <1>3, <1>4, <1>6 DEF SetLoRate
  <2>2. ValidLo(r) => r \in Carriers /\ r = f
    BY <1>3, ValidIsCarrier
  <2>3. /\ LoInv(y) /\ y.ok \in BOOLEAN /\ y.table = x.table
        /\ \A s \in LoSides : y[s].profile \in {0, x[s].profile}
        /\ \A h : Granted(x[u], h) => Granted(y[u], h)
        /\ x[t].useExt => y.ok /\ \A h : Granted(x[t], h) => Granted(y[t], h)
        /\ y.ok /\ ~x[t].useExt => Granted(y[t], f) /\ r = f
    <3>1. CASE x[t].useExt
      <4>1. y = [x EXCEPT ![t].dummy = r]
        BY <3>1
      <4>2. SideChanged(x, y, t, {"dummy"})
        BY <1>2, <4>1 DEF SideChanged, SideFields, SideInv, SideCore
      <4>3. SameButRates(x, y)
        BY <1>2, <4>2 DEF SideChanged, SameButRates, SameSide, SideInv, SideCore
      <4>4. y.ok = TRUE /\ y.table = x.table
        BY <1>2, <4>2 DEF SideChanged, LoFields, LoSides
      <4>5. LoInv(y) /\ \A s \in LoSides : \A h : Granted(y[s], h) <=> Granted(x[s], h)
        BY <4>3, RatesDoNotMatter
      <4>6. \A s \in LoSides : y[s].profile = x[s].profile
        BY <4>3 DEF SameButRates, SameSide, SideFields
      <4>7. QED BY <1>2, <3>1, <4>4, <4>5, <4>6
    <3>2. CASE ~x[t].useExt
      <4>1. RateSet(x, y, t, r)
        BY <2>2, <3>2, IntSetRate_Rate
      <4>2. /\ LoInv(y) /\ y.ok \in BOOLEAN /\ y.table = x.table
            /\ y[t].profile = 0 /\ y[u].profile \in {0, x[u].profile}
            /\ \A h : Granted(x[u], h) => Granted(y[u], h)
            /\ y.ok => ValidLo(r) /\ Granted(y[t], r)
        BY <1>1, <3>2, <4>1 DEF RateSet
      <4>3. QED BY <1>2, <2>2, <3>2, <4>2
    <3>3. QED BY <3>1, <3>2
  <2> HIDE DEF y
  <2>4. CASE ~y.ok
    <3>1. z = y
      BY <2>1, <2>4
    <3>2. LoRateSet(x, z, t, f)
      BY <1>1, <1>6, <2>3, <2>4, <3>1 DEF LoRateSet
    <3>3. QED BY <1>4, <3>2
  <2>5. CASE y.ok
    <3>1. PICK w : w = FollowLo(y, t, r)
      OBVIOUS
    <3>2. /\ DOMAIN w = LoFields /\ w["RX"] = y["RX"] /\ w["TX"] = y["TX"] /\ w.ok = y.ok
          /\ w.table = IF t = "RX" THEN GainTable(r) ELSE y.table
      BY <2>3, <3>1 DEF FollowLo, LoInv, LoFields
    <3>3. z = [w EXCEPT !["RX"].rate = LoRate(w, "RX"), !["TX"].rate = LoRate(w, "TX")]
      BY <2>1, <2>5, <3>1 DEF Recomputed
    <3>4. /\ SameButRates(y, z) /\ z.ok = y.ok /\ z.table = w.table
      BY <2>3, <3>2, <3>3 DEF SameButRates, SameSide, LoInv, SideInv, SideCore, LoFields,
         SideFields, LoSides
    <3>5. LoInv(z) /\ \A s \in LoSides : \A h : Granted(z[s], h) <=> Granted(y[s], h)
      BY <2>3, <3>4, RatesDoNotMatter
    <3>6. \A s \in LoSides : z[s].profile = y[s].profile
      BY <3>4 DEF SameButRates, SameSide, SideFields
    <3>7. \A h : Granted(x[u], h) => Granted(z[u], h)
      BY <1>2, <2>3, <3>5
    <3>8. /\ x[t].useExt => \A h : Granted(x[t], h) => Granted(z[t], h)
          /\ ~x[t].useExt => Granted(z[t], f) /\ r = f
      BY <1>2, <2>3, <2>5, <3>5
    <3>9. LoRateSet(x, z, t, f)
      BY <1>1, <1>3, <1>6, <2>3, <2>5, <3>2, <3>4, <3>5, <3>6, <3>7, <3>8 DEF LoRateSet
    <3>10. QED BY <1>4, <3>9
  <2>6. QED BY <2>4, <2>5
<1>7. QED BY <1>5, <1>6

-----------------------------------------------------------------------------
(***************************************************************************)
(* The calls.                                                              *)
(***************************************************************************)

\* What RecallChangesAlc asks of a step
AlcChanges ==
  \A t \in LoSides :
    (/\ lo'[t].fast # 0 /\ lo'[t].fast # lo[t].fast
     /\ (lo[t].fast # 0 => lo[t].slot[lo[t].fast - 1].alc = lo[t].used))
    => lo'[t].used # lo[t].used

\* The invariant, part by part
LEMMA SynthFacts ==
  ASSUME SynthInv
  PROVE  /\ DOMAIN lo = LoFields /\ lo.ok = TRUE /\ DOMAIN loHeld = LoSides
         /\ \A t \in LoSides : /\ SideInv(lo[t]) /\ SideCore(lo[t]) /\ AlcInv(lo[t])
                               /\ lo[t].fast = lo[t].profile /\ Granted(lo[t], loHeld[t])
BY DEF SynthInv, LoInv, HeldInv, SideInv, SideCore, LoSides

\* A call that grants a frequency grants it to its side, and takes nothing from the
\* other but what is given up.
LEMMA SetLoFreq_Inv ==
  ASSUME SynthInv, NEW t \in LoSides, SetLoFreq(t) PROVE SynthInv' /\ AlcChanges
<1>1. PICK u : u = OtherSide(t)
  OBVIOUS
<1>2. /\ u \in LoSides /\ u # t /\ LoSides = {t, u} /\ LoSides = {"RX", "TX"}
      /\ LoSides \subseteq LoFields \ {"ok", "table"}
  <2>1. (t = "RX" /\ u = "TX") \/ (t = "TX" /\ u = "RX")
    BY <1>1 DEF LoSides, OtherSide
  <2>2. QED BY <2>1 DEF LoSides, LoFields
<1>3. PICK f \in LoFreqs, alc \in AlcWords, l1 \in BOOLEAN, l2 \in BOOLEAN :
        LET y == SetLoRate(lo, t, f, alc, l1, l2)
            skipped == lo[t].useExt \/ lo[t].rate = f
            left == (lo[u].profile # 0 /\ y[u].profile = 0) \/ (~y.ok /\ y[u] # lo[u])
        IN LoEnds(y, [s \in LoSides |->
                       IF s = u THEN IF left THEN 0 ELSE loHeld[u]
                       ELSE IF ~y.ok THEN 0
                       ELSE IF skipped THEN loHeld[t] ELSE f],
                  IF y.ok THEN <<t, f>> ELSE <<>>)
  BY <1>1 DEF SetLoFreq
<1>4. f \in Int
  BY SynthAssumption
<1>5. PICK y : y = SetLoRate(lo, t, f, alc, l1, l2)
  OBVIOUS
<1>6. LoRateSet(lo, y, t, f)
  BY <1>4, <1>5, SynthFacts, SetLoRate_Rate DEF SynthInv
<1>7. /\ lo' = [y EXCEPT !.ok = TRUE] /\ loBoard' = loBoard
      /\ DOMAIN loHeld' = LoSides /\ loHeld'[u] \in {0, loHeld[u]}
      /\ loHeld'[t] = IF ~y.ok THEN 0
                      ELSE IF lo[t].useExt \/ lo[t].rate = f THEN loHeld[t] ELSE f
  BY <1>2, <1>3, <1>5 DEF LoEnds
<1>8. LoInv(y) /\ DOMAIN y = LoFields
  BY <1>6 DEF LoRateSet, LoInv
<1>9. /\ DOMAIN lo' = LoFields /\ lo'.ok = TRUE /\ lo'.table = y.table
      /\ lo'["RX"] = y["RX"] /\ lo'["TX"] = y["TX"] /\ lo'[t] = y[t] /\ lo'[u] = y[u]
  BY <1>2, <1>7, <1>8 DEF LoFields
<1>10. LoInv(lo')
  BY <1>8, <1>9 DEF LoInv
<1>11. Granted(y[u], loHeld'[u])
  BY <1>1, <1>2, <1>6, <1>7, SynthFacts DEF LoRateSet, Granted
<1>12. Granted(y[t], loHeld'[t])
  <2>1. CASE ~y.ok
    BY <1>7, <2>1 DEF Granted
  <2>2. CASE y.ok /\ (lo[t].useExt \/ lo[t].rate = f)
    BY <1>6, <1>7, <2>2, SynthFacts DEF LoRateSet
  <2>3. CASE y.ok /\ ~(lo[t].useExt \/ lo[t].rate = f)
    BY <1>6, <1>7, <2>3 DEF LoRateSet
  <2>4. QED BY <2>1, <2>2, <2>3
<1>13. loHeld'["RX"] # 0 => y.table = GainTable(loHeld'["RX"])
  <2> SUFFICES ASSUME loHeld'["RX"] # 0 PROVE y.table = GainTable(loHeld'["RX"])
    OBVIOUS
  <2>1. loHeld["RX"] # 0 => lo.table = GainTable(loHeld["RX"])
    BY DEF SynthInv, HeldInv
  <2>2. CASE t = "TX"
    <3>1. y.table = lo.table
      BY <1>6, <2>2 DEF LoRateSet
    <3>2. u = "RX"
      BY <1>2, <2>2
    <3>3. QED BY <1>7, <2>1, <3>1, <3>2
  <2>3. CASE t = "RX"
    <3>1. y.ok
      BY <1>7, <2>3
    <3>2. lo[t].useExt => loHeld[t] = 0
      BY SynthFacts DEF Granted
    <3>3. CASE lo[t].useExt
      BY <1>7, <2>3, <3>1, <3>2, <3>3
    <3>4. CASE ~lo[t].useExt /\ lo[t].rate = f
      <4>1. y.table = lo.table
        BY <1>6, <3>4 DEF LoRateSet
      <4>2. QED BY <1>7, <2>1, <2>3, <3>1, <3>4, <4>1
    <3>5. CASE ~lo[t].useExt /\ lo[t].rate # f
      <4>1. y.table = GainTable(f)
        BY <1>6, <2>3, <3>1, <3>5 DEF LoRateSet
      <4>2. QED BY <1>7, <2>3, <3>1, <3>5, <4>1
    <3>6. QED BY <3>3, <3>4, <3>5
  <2>4. QED BY <1>2, <2>2, <2>3
<1>14. HeldInv(lo', loHeld')
  BY <1>2, <1>7, <1>9, <1>11, <1>12, <1>13 DEF HeldInv
<1>15. SynthInv'
  BY <1>7, <1>9, <1>10, <1>14 DEF SynthInv, LoInv, HeldInv, PairInv, Granted
<1>16. AlcChanges
  <2> SUFFICES ASSUME NEW s \in LoSides PROVE lo'[s].fast \in {0, lo[s].fast}
    BY DEF AlcChanges
  <2>1. lo'[s].profile \in {0, lo[s].profile}
    BY <1>2, <1>6, <1>9 DEF LoRateSet
  <2>2. lo'[s].fast = lo'[s].profile
    BY <1>2, <1>8, <1>9 DEF LoInv, SideInv, SideCore
  <2>3. QED BY <2>1, <2>2, SynthFacts
<1>17. QED BY <1>15, <1>16

\* A call that changes one side, neither its LO nor the table of its VCO
OneSide(y, t) ==
  /\ DOMAIN y = LoFields /\ \A k \in LoFields \ {t} : y[k] = lo[k]
  /\ SideInv(y[t]) /\ y[t].want = lo[t].want /\ y[t].tdd = lo[t].tdd

\* Such a call keeps the invariant if it keeps or gives up what was granted.
LEMMA OneSide_Inv ==
  ASSUME SynthInv, NEW t \in LoSides, NEW y, OneSide(y, t), NEW held, NEW asked,
         LoEnds(y, held, asked),
         \/ held = [loHeld EXCEPT ![t] = 0]
         \/ held = loHeld /\ Granted(y[t], loHeld[t])
  PROVE  SynthInv' /\ lo'[t] = y[t] /\ lo'[OtherSide(t)] = lo[OtherSide(t)]
<1>1. PICK u : u = OtherSide(t)
  OBVIOUS
<1>2. /\ u \in LoSides /\ u # t /\ u \in LoFields /\ t \in LoFields
      /\ (t = "RX" /\ u = "TX") \/ (t = "TX" /\ u = "RX")
  <2>1. (t = "RX" /\ u = "TX") \/ (t = "TX" /\ u = "RX")
    BY <1>1 DEF LoSides, OtherSide
  <2>2. QED BY <2>1 DEF LoSides, LoFields
<1>3. lo' = [y EXCEPT !.ok = TRUE] /\ loHeld' = held /\ loBoard' = loBoard
  BY DEF LoEnds
<1>4. /\ DOMAIN lo' = LoFields /\ lo'.ok = TRUE /\ lo'.table = lo.table
      /\ lo'[t] = y[t] /\ lo'[u] = lo[u]
  BY <1>2, <1>3 DEF OneSide, LoFields
<1>5. SideInv(lo'[t]) /\ SideInv(lo'[u])
  BY <1>2, <1>4, SynthFacts DEF OneSide
<1>6. PairInv(lo'["RX"], lo'["TX"])
  BY <1>2, <1>4 DEF OneSide, SynthInv, LoInv, PairInv
<1>7. LoInv(lo')
  BY <1>2, <1>4, <1>5, <1>6 DEF LoInv
<1>8. /\ DOMAIN held = LoSides /\ held[u] = loHeld[u] /\ held["RX"] \in {0, loHeld["RX"]}
      /\ Granted(y[t], held[t])
  BY <1>2, SynthFacts DEF Granted, LoSides
<1>9. HeldInv(lo', held)
  <2>1. Granted(lo'[u], held[u])
    BY <1>2, <1>4, <1>8, SynthFacts
  <2>2. held["RX"] # 0 => lo'.table = GainTable(held["RX"])
    BY <1>4, <1>8 DEF SynthInv, HeldInv
  <2>3. QED BY <1>2, <1>4, <1>8, <2>1, <2>2 DEF HeldInv
<1>10. SynthInv'
  BY <1>3, <1>4, <1>7, <1>9 DEF SynthInv, LoInv, HeldInv, PairInv, Granted
<1>11. QED BY <1>1, <1>4, <1>10

\* A profile that is written changes nothing of the synthesizer.
LEMMA LoadProfile_Inv ==
  ASSUME SynthInv, NEW t \in LoSides, NEW p \in LoProfiles, NEW v, v.alc \in 0..255,
         DOMAIN v = {"vco", "div", "alc"}, NEW asked,
         LoEnds(LoadProfile(lo, t, p, v), loHeld, asked)
  PROVE  SynthInv' /\ AlcChanges
<1>1. PICK y : y = LoadProfile(lo, t, p, v)
  OBVIOUS
<1>2. PICK e : e = [init |-> TRUE, orig |-> v.alc, written |-> v.alc]
  OBVIOUS
<1>3. y = [lo EXCEPT ![t].slot[p] = v, ![t].entry[p] = e]
  BY <1>1, <1>2 DEF LoadProfile
<1>4. /\ t \in LoFields /\ DOMAIN lo = LoFields /\ DOMAIN lo[t] = SideFields
      /\ SideInv(lo[t]) /\ SideCore(lo[t]) /\ AlcInv(lo[t]) /\ Granted(lo[t], loHeld[t])
  BY SynthFacts, TwoSides DEF SideCore
<1>5. /\ SideChanged(lo, y, t, {"slot", "entry"})
      /\ y[t].slot = [lo[t].slot EXCEPT ![p] = v] /\ y[t].entry = [lo[t].entry EXCEPT ![p] = e]
  BY <1>3, <1>4 DEF SideChanged, SideFields
<1>6. AlcInv(y[t])
  <2>1. EntryInv(v, e)
    BY <1>2 DEF EntryInv
  <2>2. y[t].alc = lo[t].alc /\ y[t].profile = lo[t].profile /\ y[t].used = lo[t].used
    BY <1>5 DEF SideChanged, SideFields
  <2>3. QED BY <1>4, <1>5, <2>1, <2>2 DEF AlcInv
<1>7. SideCore(y[t])
  BY <1>4, <1>5, <1>6 DEF SideCore, SideChanged, SideFields
<1>8. OneSide(y, t)
  BY <1>4, <1>5, <1>7 DEF OneSide, SideInv, SideChanged, SideFields
<1>9. Granted(y[t], loHeld[t])
  BY <1>4, <1>5 DEF Granted, SideChanged, SideFields
<1>10. SynthInv' /\ lo'[t] = y[t] /\ lo'[OtherSide(t)] = lo[OtherSide(t)]
  BY <1>1, <1>8, <1>9, OneSide_Inv
<1>11. \A s \in LoSides : lo'[s].fast = lo[s].fast
  BY <1>5, <1>10, TwoSides DEF SideChanged, SideFields
<1>12. QED BY <1>10, <1>11 DEF AlcChanges

\* ad9361_rx_fastlock_store, ad9361_tx_fastlock_store
LEMMA FastlockStore_Inv ==
  ASSUME SynthInv, NEW t \in LoSides, FastlockStore(t) PROVE SynthInv' /\ AlcChanges
<1>1. PICK v : v = StoredProfile(lo, t)
  OBVIOUS
<1>2. v.alc \in 0..255 /\ DOMAIN v = {"vco", "div", "alc"}
  BY <1>1, SynthFacts DEF StoredProfile, AlcInv
<1>3. PICK p \in LoProfiles : LoEnds(LoadProfile(lo, t, p, v), loHeld, <<>>)
  BY <1>1 DEF FastlockStore
<1>4. QED BY <1>2, <1>3, LoadProfile_Inv

\* ad9361_rx_fastlock_load, ad9361_tx_fastlock_load
LEMMA FastlockLoad_Inv ==
  ASSUME SynthInv, NEW t \in LoSides, FastlockLoad(t) PROVE SynthInv' /\ AlcChanges
<1>1. PICK p \in LoProfiles, q \in LoProfiles :
        LoEnds(LoadProfile(lo, t, p, lo[t].slot[q]), loHeld, <<>>)
  BY DEF FastlockLoad
<1>2. PICK v : v = lo[t].slot[q]
  OBVIOUS
<1>3. v.alc \in 0..255 /\ DOMAIN v = {"vco", "div", "alc"}
  <2>1. AlcInv(lo[t])
    BY SynthFacts
  <2>2. EntryInv(lo[t].slot[q], lo[t].entry[q])
    BY <2>1 DEF AlcInv
  <2>3. QED BY <1>2, <2>2 DEF EntryInv
<1>4. QED BY <1>1, <1>2, <1>3, LoadProfile_Inv

\* The workaround of ad9361_fastlock_recall gives another word than the one in use.
LEMMA NextAlcDiffers ==
  ASSUME NEW curr, NEW e, e.written \in 0..255, e.orig \in 0..255
  PROVE  NextAlc(curr, e) \in 0..255 /\ NextAlc(curr, e) # curr
BY DEF NextAlc

\* ad9361_rx_fastlock_recall, ad9361_tx_fastlock_recall
LEMMA FastlockRecall_Inv ==
  ASSUME SynthInv, NEW t \in LoSides, FastlockRecall(t) PROVE SynthInv' /\ AlcChanges
<1>1. PICK p \in LoProfiles :
        LoEnds(RecallProfile(lo, t, p), [loHeld EXCEPT ![t] = 0], <<>>)
  BY DEF FastlockRecall
<1>2. PICK y : y = RecallProfile(lo, t, p)
  OBVIOUS
<1> DEFINE e == lo[t].entry[p]
           curr == IF lo[t].profile = 0 THEN lo[t].alc
                   ELSE lo[t].entry[lo[t].profile - 1].written
           alc == NextAlc(curr, e)
           written == [lo EXCEPT ![t].entry[p].written = alc,
                                 ![t].slot[p].alc = IF curr = e.written THEN alc ELSE @]
           prepared == IF lo[t].profile # 0 THEN written
                       ELSE [written EXCEPT ![t].ready = TRUE, ![t].cal = FALSE]
<1>3. y = [prepared EXCEPT ![t].profile = p + 1, ![t].fast = p + 1,
                           ![t].used = prepared[t].slot[p].alc]
  BY <1>2 DEF RecallProfile
<1>4. /\ e = lo[t].entry[p] /\ alc = NextAlc(curr, e)
      /\ curr = IF lo[t].profile = 0 THEN lo[t].alc
                ELSE lo[t].entry[lo[t].profile - 1].written
  OBVIOUS
<1>6. written = [lo EXCEPT ![t].entry[p].written = alc,
                           ![t].slot[p].alc = IF curr = e.written THEN alc ELSE @]
  OBVIOUS
<1>7. prepared = IF lo[t].profile # 0 THEN written
                 ELSE [written EXCEPT ![t].ready = TRUE, ![t].cal = FALSE]
  OBVIOUS
<1> HIDE DEF e, curr, alc, written, prepared
<1>9. /\ t \in LoFields /\ DOMAIN lo = LoFields /\ DOMAIN lo[t] = SideFields
      /\ SideInv(lo[t]) /\ SideCore(lo[t]) /\ AlcInv(lo[t])
      /\ lo[t].fast = lo[t].profile
  BY SynthFacts, TwoSides DEF SideCore
<1>10. p \in Int /\ p + 1 # 0
  BY SynthAssumption
<1>11. /\ e.written \in 0..255 /\ alc \in 0..255 /\ alc # curr
       /\ lo[t].slot[p].alc = e.written /\ (curr # e.written => alc = e.written)
  <2>1. e.written \in 0..255 /\ e.orig \in 0..255 /\ lo[t].slot[p].alc = e.written
    BY <1>4, <1>9 DEF AlcInv, EntryInv
  <2>2. alc \in 0..255 /\ alc # curr
    BY <1>4, <2>1, NextAlcDiffers
  <2>3. curr # e.written => alc = e.written
    BY <1>4 DEF NextAlc
  <2>4. QED BY <2>1, <2>2, <2>3
<1>12. /\ SideChanged(lo, written, t, {"slot", "entry"})
       /\ written[t].entry = [lo[t].entry EXCEPT ![p].written = alc]
       /\ written[t].slot = [lo[t].slot EXCEPT ![p].alc = alc]
  <2>1. CASE curr = e.written
    <3>1. written = [lo EXCEPT ![t].entry[p].written = alc, ![t].slot[p].alc = alc]
      BY <1>6, <2>1
    <3>2. QED BY <1>9, <3>1 DEF SideChanged, SideFields
  <2>2. CASE curr # e.written
    <3>1. written = [lo EXCEPT ![t].entry[p].written = alc, ![t].slot[p].alc = alc]
      BY <1>6, <1>11, <2>2
    <3>2. QED BY <1>9, <3>1 DEF SideChanged, SideFields
  <2>3. QED BY <2>1, <2>2
<1>13. /\ SideChanged(lo, prepared, t, {"slot", "entry", "ready", "cal"})
       /\ prepared[t].entry = written[t].entry /\ prepared[t].slot = written[t].slot
       /\ prepared[t].ready /\ ~prepared[t].cal
  <2>1. CASE lo[t].profile # 0
    BY <1>7, <1>9, <1>12, <2>1 DEF SideChanged, SideFields, SideCore
  <2>2. CASE lo[t].profile = 0
    <3>1. prepared = [written EXCEPT ![t].ready = TRUE, ![t].cal = FALSE]
      BY <1>7, <2>2
    <3>2. QED BY <1>9, <1>12, <3>1 DEF SideChanged, SideFields
  <2>3. QED BY <2>1, <2>2
<1>14. prepared[t].slot[p].alc = alc
  <2>1. prepared[t].slot = [lo[t].slot EXCEPT ![p].alc = alc]
    BY <1>12, <1>13
  <2>2. p \in DOMAIN lo[t].slot /\ "alc" \in DOMAIN lo[t].slot[p]
    BY <1>9 DEF AlcInv, EntryInv
  <2>3. QED BY <2>1, <2>2
<1>15. /\ SideChanged(lo, y, t, {"slot", "entry", "ready", "cal", "profile", "fast", "used"})
       /\ y[t].entry = [lo[t].entry EXCEPT ![p].written = alc]
       /\ y[t].slot = [lo[t].slot EXCEPT ![p].alc = alc]
       /\ y[t].ready /\ ~y[t].cal /\ y[t].used = alc
       /\ y[t].profile = p + 1 /\ y[t].fast = p + 1
  BY <1>3, <1>9, <1>12, <1>13, <1>14 DEF SideChanged, SideFields
<1>16. AlcInv(y[t])
  <2>1. ASSUME NEW q \in LoProfiles PROVE EntryInv(y[t].slot[q], y[t].entry[q])
    <3>1. EntryInv(lo[t].slot[q], lo[t].entry[q])
      BY <1>9 DEF AlcInv
    <3>2. CASE q # p
      BY <1>9, <1>15, <3>1, <3>2 DEF AlcInv
    <3>3. CASE q = p
      <4>1. /\ y[t].slot[p] = [lo[t].slot[p] EXCEPT !.alc = alc]
            /\ y[t].entry[p] = [lo[t].entry[p] EXCEPT !.written = alc]
        BY <1>9, <1>15 DEF AlcInv
      <4>2. EntryInv([lo[t].slot[p] EXCEPT !.alc = alc],
                     [lo[t].entry[p] EXCEPT !.written = alc])
        BY <1>11, <3>1, <3>3 DEF EntryInv
      <4>3. QED BY <3>3, <4>1, <4>2
    <3>4. QED BY <3>2, <3>3
  <2>2. DOMAIN y[t].slot = LoProfiles /\ DOMAIN y[t].entry = LoProfiles
    BY <1>9, <1>15 DEF AlcInv
  <2>3. y[t].alc = lo[t].alc
    BY <1>15 DEF SideChanged, SideFields
  <2>4. QED BY <1>9, <1>10, <1>15, <2>1, <2>2, <2>3 DEF AlcInv
<1>17. SideCore(y[t])
  BY <1>9, <1>10, <1>15, <1>16 DEF SideCore, SideChanged, SideFields
<1>18. OneSide(y, t)
  BY <1>9, <1>15, <1>17 DEF OneSide, SideInv, SideChanged, SideFields
<1>19. SynthInv' /\ lo'[t] = y[t] /\ lo'[OtherSide(t)] = lo[OtherSide(t)]
  BY <1>1, <1>2, <1>18, OneSide_Inv
<1>20. AlcChanges
  <2>1. lo'[OtherSide(t)].fast = lo[OtherSide(t)].fast
    BY <1>19
  <2>2. ASSUME lo[t].fast # 0 => lo[t].slot[lo[t].fast - 1].alc = lo[t].used
        PROVE  lo[t].used = curr
    <3>1. CASE lo[t].profile = 0
      BY <1>4, <1>9, <3>1 DEF AlcInv
    <3>2. CASE lo[t].profile # 0
      <4>1. PICK q \in LoProfiles : lo[t].profile = q + 1
        BY <1>9, <3>2 DEF SideCore
      <4>2. lo[t].profile - 1 = q
        BY <4>1, SynthAssumption
      <4>3. QED BY <1>4, <1>9, <2>2, <3>2, <4>2 DEF AlcInv, EntryInv
    <3>3. QED BY <3>1, <3>2
  <2>3. QED BY <1>11, <1>15, <1>19, <2>1, <2>2, TwoSides DEF AlcChanges
<1>21. QED BY <1>19, <1>20

\* ad9361_set_rx_lo_int_ext, ad9361_set_tx_lo_int_ext
LEMMA SetLoIntExt_Inv ==
  ASSUME SynthInv, NEW t \in LoSides, SetLoIntExt(t) PROVE SynthInv' /\ AlcChanges
<1>1. PICK on \in BOOLEAN :
        LoEnds(ExtLoControl([lo EXCEPT ![t].useExt = on], t, on),
               [loHeld EXCEPT ![t] = 0], <<>>)
  BY DEF SetLoIntExt
<1>2. PICK x : x = [lo EXCEPT ![t].useExt = on]
  OBVIOUS
<1>3. PICK y : y = ExtLoControl(x, t, on)
  OBVIOUS
<1>4. /\ t \in LoFields /\ DOMAIN lo = LoFields /\ DOMAIN lo[t] = SideFields
      /\ SideInv(lo[t]) /\ SideCore(lo[t]) /\ AlcInv(lo[t])
  BY SynthFacts, TwoSides DEF SideCore
<1>5. SideChanged(lo, x, t, {"useExt"}) /\ x[t].useExt = on
  BY <1>2, <1>4 DEF SideChanged, SideFields
<1>6. PICK pd : pd = IF on THEN x[t].cachedPd \cup {"VCO"} ELSE x[t].cachedPd \ {"VCO"}
  OBVIOUS
<1>7. PICK d : d = IF on THEN 7 ELSE x[t].cachedDiv
  OBVIOUS
<1>8. y = [x EXCEPT ![t].div = d, ![t].cachedPd = pd, ![t].pd = pd, ![t].ext = on]
  BY <1>3, <1>6, <1>7 DEF ExtLoControl
<1>9. /\ SideChanged(lo, y, t, {"useExt", "div", "cachedPd", "pd", "ext"})
      /\ y[t].useExt = on /\ y[t].div = d /\ y[t].cachedPd = pd /\ y[t].pd = pd
      /\ y[t].ext = on
  BY <1>4, <1>5, <1>8 DEF SideChanged, SideFields
<1>10. AlcInv(y[t])
  BY <1>4, <1>9 DEF AlcInv, SideChanged, SideFields
<1>11. ~on => d \in 0..6
  BY <1>4, <1>5, <1>7 DEF SideInv, SideChanged, SideFields
<1>12. "VCO" \in pd <=> on
  BY <1>6
<1>13. SideCore(y[t])
  BY <1>4, <1>9, <1>10, <1>11, <1>12 DEF SideCore, SideChanged, SideFields
<1>14. OneSide(y, t)
  BY <1>4, <1>9, <1>13 DEF OneSide, SideInv, SideChanged, SideFields
<1>15. SynthInv' /\ lo'[t] = y[t] /\ lo'[OtherSide(t)] = lo[OtherSide(t)]
  BY <1>1, <1>2, <1>3, <1>14, OneSide_Inv
<1>16. \A s \in LoSides : lo'[s].fast = lo[s].fast
  BY <1>9, <1>15, TwoSides DEF SideChanged, SideFields
<1>17. QED BY <1>15, <1>16 DEF AlcChanges

\* ad9361_rx_lo_powerdown, ad9361_tx_lo_powerdown
LEMMA SetLoPower_Inv ==
  ASSUME SynthInv, NEW t \in LoSides, SetLoPower(t) PROVE SynthInv' /\ AlcChanges
<1>1. PICK on \in BOOLEAN : LoEnds(LoPowerdown(lo, t, on), loHeld, <<>>)
  BY DEF SetLoPower
<1>2. PICK y : y = LoPowerdown(lo, t, on)
  OBVIOUS
<1>3. PICK pd : pd = IF on THEN lo[t].cachedPd \ {"LO"} ELSE lo[t].cachedPd \cup {"LO"}
  OBVIOUS
<1>4. y = [lo EXCEPT ![t].cachedPd = pd, ![t].pd = pd]
  BY <1>2, <1>3 DEF LoPowerdown
<1>5. /\ t \in LoFields /\ DOMAIN lo = LoFields /\ DOMAIN lo[t] = SideFields
      /\ SideInv(lo[t]) /\ SideCore(lo[t]) /\ AlcInv(lo[t]) /\ Granted(lo[t], loHeld[t])
  BY SynthFacts, TwoSides DEF SideCore
<1>6. /\ SideChanged(lo, y, t, {"cachedPd", "pd"})
      /\ y[t].cachedPd = pd /\ y[t].pd = pd
  BY <1>4, <1>5 DEF SideChanged, SideFields
<1>7. AlcInv(y[t])
  BY <1>5, <1>6 DEF AlcInv, SideChanged, SideFields
<1>8. "VCO" \in pd <=> "VCO" \in lo[t].pd
  BY <1>3, <1>5 DEF SideCore
<1>9. SideCore(y[t])
  BY <1>5, <1>6, <1>7, <1>8 DEF SideCore, SideChanged, SideFields
<1>10. OneSide(y, t)
  BY <1>5, <1>6, <1>9 DEF OneSide, SideInv, SideChanged, SideFields
<1>11. Granted(y[t], loHeld[t])
  BY <1>5, <1>6 DEF Granted, SideChanged, SideFields
<1>12. SynthInv' /\ lo'[t] = y[t] /\ lo'[OtherSide(t)] = lo[OtherSide(t)]
  BY <1>1, <1>2, <1>10, <1>11, OneSide_Inv
<1>13. \A s \in LoSides : lo'[s].fast = lo[s].fast
  BY <1>6, <1>12, TwoSides DEF SideChanged, SideFields
<1>14. QED BY <1>12, <1>13 DEF AlcChanges

\* ad9361_set_tx_auto_cal_en_dis changes no side.
LEMMA SetTxAutoCal_Inv ==
  ASSUME SynthInv, SetTxAutoCal PROVE SynthInv' /\ AlcChanges
<1>1. PICK on \in BOOLEAN : LoEnds([lo EXCEPT !.auto = on], loHeld, <<>>)
  BY DEF SetTxAutoCal
<1>2. PICK y : y = [lo EXCEPT !.auto = on]
  OBVIOUS
<1>3. DOMAIN y = LoFields /\ \A k \in {"RX", "TX", "table", "ok"} : y[k] = lo[k]
  BY <1>2, SynthFacts DEF LoFields
<1>4. lo' = [y EXCEPT !.ok = TRUE] /\ loHeld' = loHeld /\ loBoard' = loBoard
  BY <1>1, <1>2 DEF LoEnds
<1>5. /\ DOMAIN lo' = LoFields /\ lo'.ok = TRUE
      /\ lo'["RX"] = lo["RX"] /\ lo'["TX"] = lo["TX"] /\ lo'.table = lo.table
  BY <1>3, <1>4 DEF LoFields
<1>6. LoInv(lo')
  BY <1>5 DEF SynthInv, LoInv
<1>7. HeldInv(lo', loHeld)
  BY <1>5 DEF SynthInv, HeldInv
<1>8. SynthInv'
  BY <1>4, <1>5, <1>6, <1>7 DEF SynthInv, LoInv, HeldInv, PairInv, Granted
<1>9. AlcChanges
  BY <1>5 DEF AlcChanges, LoSides
<1>10. QED BY <1>8, <1>9

-----------------------------------------------------------------------------
(***************************************************************************)
(* Set-up.                                                                  *)
(***************************************************************************)

\* When every lock succeeds a frequency that can be tuned is set without an error.
LEMMA IntSetRate_Ok ==
  ASSUME NEW x, NEW t \in LoSides, NEW f, ValidLo(f), NEW alc,
         DOMAIN IntSetRate(x, t, f, alc, TRUE, TRUE) = LoFields
  PROVE  IntSetRate(x, t, f, alc, TRUE, TRUE).ok = TRUE
<1>1. PICK s : IntSetRate(x, t, f, alc, TRUE, TRUE) = [s EXCEPT !.ok = TRUE]
  <2> DEFINE y == LeaveProfile(x, t)
             z == [y EXCEPT ![t].want = f, ![t].cachedDiv = LoDivider(f)]
             v == TuneVco(z, t, f, alc)
             w == IF NeedsFixup(v) THEN Fixup(v, t, alc) ELSE v
             s == IF loBoard.skipCal THEN [w EXCEPT ![t].cal = FALSE] ELSE w
  <2>1. IntSetRate(x, t, f, alc, TRUE, TRUE) =
          [s EXCEPT !.ok = IF NeedsFixup(v) THEN TRUE ELSE TRUE]
    BY DEF IntSetRate
  <2> HIDE DEF s, v
  <2>2. QED BY <2>1
<1>2. "ok" \in DOMAIN s
  BY <1>1 DEF LoFields
<1>3. QED BY <1>1, <1>2

\* The first setting of an LO: the synthesizer is set, and what follows it.
FirstSet(x, y, z, t, f) ==
  /\ SynthSet(x, y, t, f) /\ DOMAIN z = LoFields /\ z.ok = TRUE
  /\ \A s \in LoSides : DOMAIN y[s] = SideFields => SameSide(y[s], z[s])
  /\ z.table = IF t = "RX" THEN GainTable(f) ELSE x.table
  /\ DOMAIN y["TX"] = SideFields => z["TX"].rate = LoRate(y, "TX")

\* clk_set_rate of an LO at set-up, when every lock succeeds
LEMMA SetLoRate_First ==
  ASSUME NEW x, NEW t \in LoSides, NEW f \in Carriers, NEW alc \in AlcWords, ValidLo(f),
         DOMAIN x = LoFields, SideCore(x[t]), ~x[t].useExt, x[t].rate # f,
         \/ SideInv(x[OtherSide(t)])
         \/ x[OtherSide(t)].want # f /\ x[OtherSide(t)].tdd = FALSE
  PROVE  \E y : FirstSet(x, y, SetLoRate(x, t, f, alc, TRUE, TRUE), t, f)
<1>1. RoundLo(x, f) = f
  BY SMT DEF RoundLo, InCarrierRange, Carriers
<1>2. PICK y : y = IntSetRate(x, t, f, alc, TRUE, TRUE)
  OBVIOUS
<1>3. SynthSet(x, y, t, f)
  BY <1>2, IntSetRate_Set
<1>4. DOMAIN y = LoFields /\ y.table = x.table
  BY <1>3 DEF SynthSet
<1>5. y.ok = TRUE
  BY <1>2, <1>4, IntSetRate_Ok
<1>6. PICK w : w = FollowLo(y, t, f)
  OBVIOUS
<1>7. PICK z : z = SetLoRate(x, t, f, alc, TRUE, TRUE)
  OBVIOUS
<1>8. z = Recomputed(w)
  BY <1>1, <1>2, <1>5, <1>6, <1>7 DEF SetLoRate
<1>9. /\ DOMAIN w = LoFields /\ w["RX"] = y["RX"] /\ w["TX"] = y["TX"] /\ w.ok = TRUE
      /\ w.table = IF t = "RX" THEN GainTable(f) ELSE x.table
  BY <1>4, <1>5, <1>6 DEF FollowLo, LoFields
<1>10. z = [w EXCEPT !["RX"].rate = LoRate(w, "RX"), !["TX"].rate = LoRate(w, "TX")]
  BY <1>8 DEF Recomputed
<1>11. /\ DOMAIN z = LoFields /\ z.ok = TRUE /\ z.table = w.table
       /\ z["RX"] = [w["RX"] EXCEPT !.rate = LoRate(w, "RX")]
       /\ z["TX"] = [w["TX"] EXCEPT !.rate = LoRate(w, "TX")]
  BY <1>9, <1>10 DEF LoFields
<1>12. \A s \in LoSides : DOMAIN y[s] = SideFields => SameSide(y[s], z[s])
  BY <1>9, <1>11 DEF LoSides, SideFields, SameSide
<1>13. LoRate(w, "TX") = LoRate(y, "TX")
  BY <1>9 DEF LoRate, IntRate
<1>14. DOMAIN y["TX"] = SideFields => z["TX"].rate = LoRate(y, "TX")
  BY <1>9, <1>11, <1>13 DEF SideFields
<1>15. FirstSet(x, y, z, t, f)
  BY <1>3, <1>9, <1>11, <1>12, <1>14 DEF FirstSet
<1>16. QED BY <1>7, <1>15

\* A side that was cleared runs from no profile and is not set up.
LEMMA ClearedSide_Core ==
  ASSUME NEW alc \in AlcWords, NEW c, c = ClearedSide(alc)
  PROVE  /\ SideCore(c) /\ ~c.useExt /\ c.rate = 0 /\ c.want = 0 /\ c.tdd = FALSE
         /\ c.profile = 0 /\ c.vco = 0 /\ c.div = 0
<1>1. PICK v : v = [vco |-> 0, div |-> 0, alc |-> 0]
  OBVIOUS
<1>2. PICK e : e = [init |-> FALSE, orig |-> 0, written |-> 0]
  OBVIOUS
<1>3. PICK slot : slot = [p \in LoProfiles |-> v]
  OBVIOUS
<1>4. PICK entry : entry = [p \in LoProfiles |-> e]
  OBVIOUS
<1>5. c = [vco |-> 0, div |-> 0, lut |-> <<"FDD", 1>>, alc |-> alc, fast |-> 0,
           slot |-> slot, used |-> alc, ready |-> FALSE, cal |-> TRUE, pd |-> {},
           ext |-> FALSE, rate |-> 0, dummy |-> 0, want |-> 0, cachedDiv |-> 0,
           tdd |-> FALSE, profile |-> 0, cachedPd |-> {}, useExt |-> FALSE,
           entry |-> entry]
  BY <1>1, <1>2, <1>3, <1>4 DEF ClearedSide
<1>6. /\ DOMAIN c = SideFields /\ c.alc = alc /\ c.used = alc /\ c.fast = 0 /\ c.slot = slot
      /\ c.ready = FALSE /\ c.cal = TRUE /\ c.pd = {} /\ c.ext = FALSE /\ c.cachedPd = {}
      /\ c.useExt = FALSE /\ c.rate = 0 /\ c.want = 0 /\ c.tdd = FALSE /\ c.profile = 0
      /\ c.vco = 0 /\ c.div = 0 /\ c.entry = entry
  BY <1>5 DEF SideFields
<1>7. alc \in 0..255
  BY SynthAssumption
<1>8. EntryInv(v, e)
  BY <1>1, <1>2 DEF EntryInv
<1>9. AlcInv(c)
  BY <1>3, <1>4, <1>6, <1>7, <1>8 DEF AlcInv
<1>10. SideCore(c)
  BY <1>6, <1>9 DEF SideCore
<1>11. QED BY <1>6, <1>10

\* The state ad9361_setup leaves
LEMMA SynthInit_Inv ==
  ASSUME SynthInit PROVE SynthInv
<1>1. PICK alc \in AlcWords : lo = LoSetup(alc)
  BY DEF SynthInit
<1>2. loBoard \in LoBoards /\ loHeld = loBoard.first
  BY DEF SynthInit
<1>3. PICK f : f = loBoard.first["RX"]
  OBVIOUS
<1>4. PICK g : g = loBoard.first["TX"]
  OBVIOUS
<1>5. /\ f \in Carriers /\ ValidLo(f) /\ f # 0 /\ g \in Carriers /\ ValidLo(g) /\ g # 0
      /\ DOMAIN loBoard.first = LoSides
  <2> DEFINE Tunable == IF loBoard.dev = "AD9363A" THEN 325..3800 ELSE 70..6000
  <2>1. \A t \in {"RX", "TX"} : loBoard.first[t] \in Tunable
    BY <1>2, SynthAssumption
  <2>2. DOMAIN loBoard.first = LoSides
    BY <1>2, SynthAssumption DEF LoSides
  <2>3. f \in Tunable /\ g \in Tunable
    BY <1>3, <1>4, <2>1
  <2>4. ASSUME NEW h \in Tunable PROVE h \in Carriers /\ ValidLo(h) /\ h # 0
    <3>1. CASE loBoard.dev = "AD9363A"
      <4>1. h \in 325..3800
        BY <3>1
      <4>2. ValidLo(h)
        BY <3>1, <4>1 DEF ValidLo
      <4>3. h \in Int /\ 325 <= h /\ h <= 3800
        BY <4>1
      <4>4. h \in Carriers
        BY <4>3, SMT DEF Carriers
      <4>5. QED BY <4>2, <4>3, <4>4
    <3>2. CASE loBoard.dev # "AD9363A"
      <4>1. h \in 70..6000
        BY <3>2
      <4>2. ValidLo(h)
        BY <3>2, <4>1 DEF ValidLo, InCarrierRange
      <4>3. h \in Carriers
        BY <4>1 DEF Carriers
      <4>4. h \in Int /\ 70 <= h
        BY <4>1
      <4>5. QED BY <4>2, <4>3, <4>4
    <3>3. QED BY <3>1, <3>2
  <2> HIDE DEF Tunable
  <2>5. f \in Carriers /\ ValidLo(f) /\ f # 0
    BY <2>3, <2>4
  <2>6. g \in Carriers /\ ValidLo(g) /\ g # 0
    BY <2>3, <2>4
  <2>7. QED BY <2>2, <2>5, <2>6
<1>6. PICK c : c = ClearedSide(alc)
  OBVIOUS
<1>7. /\ SideCore(c) /\ ~c.useExt /\ c.rate = 0 /\ c.want = 0 /\ c.tdd = FALSE
      /\ c.profile = 0 /\ c.vco = 0 /\ c.div = 0 /\ DOMAIN c = SideFields
  BY <1>6, ClearedSide_Core DEF SideCore
<1>8. PICK none : none = [RX |-> c, TX |-> c, ok |-> TRUE, table |-> "none", auto |-> FALSE,
                          quad |-> g]
  OBVIOUS
<1>9. DOMAIN none = LoFields /\ none["RX"] = c /\ none["TX"] = c
  BY <1>8 DEF LoFields
<1>10. PICK rx : rx = SetLoRate(none, "RX", f, alc, TRUE, TRUE)
  OBVIOUS
<1>11. PICK tx : tx = SetLoRate(rx, "TX", g, alc, TRUE, TRUE)
  OBVIOUS
<1>12. lo = [tx EXCEPT !.auto = TRUE]
  BY <1>1, <1>3, <1>4, <1>6, <1>8, <1>10, <1>11 DEF LoSetup
<1>13. /\ "RX" \in LoSides /\ "TX" \in LoSides /\ OtherSide("RX") = "TX"
       /\ OtherSide("TX") = "RX"
  BY DEF LoSides, OtherSide
<1>14. PICK y : FirstSet(none, y, rx, "RX", f)
  BY <1>5, <1>7, <1>9, <1>10, <1>13, SetLoRate_First
<1>15. /\ DOMAIN rx = LoFields /\ SideInv(y["RX"]) /\ Granted(y["RX"], f) /\ y["TX"] = c
       /\ SameSide(y["RX"], rx["RX"]) /\ SameSide(c, rx["TX"]) /\ rx.table = GainTable(f)
       /\ rx["TX"].rate = LoRate(y, "TX")
  <2>1. /\ DOMAIN rx = LoFields /\ rx.table = GainTable(f) /\ SynthSet(none, y, "RX", f)
        /\ \A s \in LoSides : DOMAIN y[s] = SideFields => SameSide(y[s], rx[s])
        /\ DOMAIN y["TX"] = SideFields => rx["TX"].rate = LoRate(y, "TX")
    BY <1>14 DEF FirstSet
  <2>2. /\ SideInv(y["RX"]) /\ y["TX"] = c /\ y["RX"].useExt = c.useExt
        /\ y["RX"].profile = 0 /\ y["RX"].want = f
        /\ y["RX"].vco = VcoFor(f) /\ y["RX"].div = LoDivider(f)
    BY <1>5, <1>7, <1>9, <1>13, <2>1 DEF SynthSet
  <2>3. Granted(y["RX"], f)
    BY <1>7, <2>2 DEF Granted
  <2>4. DOMAIN y["RX"] = SideFields
    BY <2>2 DEF SideInv, SideCore
  <2>5. QED BY <1>7, <1>13, <2>1, <2>2, <2>3, <2>4
<1>16. /\ SideInv(rx["RX"]) /\ Granted(rx["RX"], f) /\ SideCore(rx["TX"])
       /\ ~rx["TX"].useExt
  <2>1. SideInv(rx["RX"]) /\ Granted(rx["RX"], f) /\ SideCore(rx["TX"])
    BY <1>7, <1>15, SideRates
  <2>2. rx["TX"].useExt = c.useExt
    BY <1>15 DEF SameSide, SideFields
  <2>3. QED BY <1>7, <2>1, <2>2
<1>17. rx["TX"].rate # g
  <2>1. LoRate(y, "TX") = LoFrequency(0, 0)
    BY <1>7, <1>15 DEF LoRate, IntRate
  <2>2. LoFrequency(0, 0) = 0
    <3>1. 2^(0 + 1) = 2
      BY SMT
    <3>2. QED BY <3>1 DEF LoFrequency
  <2>3. QED BY <1>5, <1>15, <2>1, <2>2
<1>18. PICK z : FirstSet(rx, z, tx, "TX", g)
  BY <1>5, <1>11, <1>13, <1>15, <1>16, <1>17, SetLoRate_First
<1>19. /\ DOMAIN tx = LoFields /\ tx.ok = TRUE /\ tx.table = GainTable(f)
       /\ SynthSet(rx, z, "TX", g)
       /\ \A s \in LoSides : DOMAIN z[s] = SideFields => SameSide(z[s], tx[s])
  BY <1>15, <1>18 DEF FirstSet
<1>20. LoInv(z) /\ Granted(z["RX"], f) /\ Granted(z["TX"], g)
  <2>1. /\ DOMAIN z = LoFields /\ SideInv(z["RX"]) /\ SideInv(z["TX"])
        /\ PairInv(z["RX"], z["TX"]) /\ Granted(z["RX"], f)
        /\ z["TX"].useExt = rx["TX"].useExt /\ z["TX"].profile = 0 /\ z["TX"].want = g
        /\ z["TX"].vco = VcoFor(g) /\ z["TX"].div = LoDivider(g)
    BY <1>13, <1>16, <1>19 DEF SynthSet
  <2>2. Granted(z["TX"], g)
    BY <1>16, <2>1 DEF Granted
  <2>3. QED BY <2>1, <2>2 DEF LoInv
<1>21. /\ DOMAIN lo = LoFields /\ lo["RX"] = tx["RX"] /\ lo["TX"] = tx["TX"]
       /\ lo.ok = TRUE /\ lo.table = GainTable(f)
  BY <1>12, <1>19 DEF LoFields
<1>22. SameButRates(z, lo)
  BY <1>19, <1>20, <1>21 DEF SameButRates, SameSide, LoInv, SideInv, SideCore, LoSides
<1>23. LoInv(lo) /\ Granted(lo["RX"], f) /\ Granted(lo["TX"], g)
  BY <1>13, <1>20, <1>22, RatesDoNotMatter
<1>24. QED BY <1>2, <1>3, <1>4, <1>5, <1>21, <1>23 DEF SynthInv, HeldInv

-----------------------------------------------------------------------------
(***************************************************************************)
(* The theorems.                                                            *)
(***************************************************************************)

\* Every call keeps the invariant, and recalls what the synthesizer locks on.
LEMMA SynthNext_Inv ==
  ASSUME SynthInv, [SynthNext]_loVars PROVE SynthInv' /\ [AlcChanges]_loVars
<1>1. /\ "RX" \in LoSides /\ "TX" \in LoSides
  BY DEF LoSides
<1>2. CASE SetRxLoFreq BY <1>1, <1>2, SetLoFreq_Inv DEF SetRxLoFreq
<1>3. CASE SetTxLoFreq BY <1>1, <1>3, SetLoFreq_Inv DEF SetTxLoFreq
<1>4. CASE RxFastlockStore BY <1>1, <1>4, FastlockStore_Inv DEF RxFastlockStore
<1>5. CASE TxFastlockStore BY <1>1, <1>5, FastlockStore_Inv DEF TxFastlockStore
<1>6. CASE RxFastlockLoad BY <1>1, <1>6, FastlockLoad_Inv DEF RxFastlockLoad
<1>7. CASE TxFastlockLoad BY <1>1, <1>7, FastlockLoad_Inv DEF TxFastlockLoad
<1>8. CASE RxFastlockRecall BY <1>1, <1>8, FastlockRecall_Inv DEF RxFastlockRecall
<1>9. CASE TxFastlockRecall BY <1>1, <1>9, FastlockRecall_Inv DEF TxFastlockRecall
<1>10. CASE SetRxLoIntExt BY <1>1, <1>10, SetLoIntExt_Inv DEF SetRxLoIntExt
<1>11. CASE SetTxLoIntExt BY <1>1, <1>11, SetLoIntExt_Inv DEF SetTxLoIntExt
<1>12. CASE RxLoPowerdown BY <1>1, <1>12, SetLoPower_Inv DEF RxLoPowerdown
<1>13. CASE TxLoPowerdown BY <1>1, <1>13, SetLoPower_Inv DEF TxLoPowerdown
<1>14. CASE SetTxAutoCal BY <1>14, SetTxAutoCal_Inv
<1>15. CASE UNCHANGED loVars
  <2>1. lo' = lo /\ loHeld' = loHeld /\ loBoard' = loBoard
    BY <1>15 DEF loVars
  <2>2. SynthInv'
    BY <2>1 DEF SynthInv, LoInv, HeldInv, PairInv, Granted
  <2>3. QED BY <1>15, <2>2
<1>16. QED
  BY <1>2, <1>3, <1>4, <1>5, <1>6, <1>7, <1>8, <1>9, <1>10, <1>11, <1>12, <1>13, <1>14, <1>15
  DEF SynthNext

\* The invariant says what was granted.
LEMMA LosObtained_Inv ==
  ASSUME SynthInv PROVE LosObtained
<1>1. \A t \in LoSides : /\ SideInv(lo[t]) /\ SideCore(lo[t]) /\ lo[t].fast = lo[t].profile
                         /\ Granted(lo[t], loHeld[t])
  BY SynthFacts
<1>2. LoObtained
  <2> SUFFICES ASSUME NEW t \in LoSides, loHeld[t] # 0 PROVE ChipLo(lo, t) = loHeld[t]
    BY DEF LoObtained
  <2>1. /\ lo[t].want = loHeld[t] /\ lo[t].fast = 0
        /\ lo[t].vco = VcoFor(loHeld[t]) /\ lo[t].div = LoDivider(loHeld[t])
    BY <1>1 DEF Granted
  <2>2. loHeld[t] \in Carriers
    BY <1>1, <2>1 DEF SideInv
  <2>3. ChipLo(lo, t) = LoFrequency(VcoFor(loHeld[t]), LoDivider(loHeld[t]))
    BY <2>1 DEF ChipLo
  <2>4. QED BY <2>2, <2>3, CarrierGiven
<1>3. TablesFollowBothLos
  <2> SUFFICES ASSUME NEW t \in LoSides
               PROVE  /\ lo[t].lut[2] = VcoRow(lo[t].vco)
                      /\ loBoard.fdd /\ ~loBoard.indep =>
                           (lo[t].lut[1] = "TDD" <=> lo["RX"].want = lo["TX"].want)
    BY DEF TablesFollowBothLos
  <2>1. lo[t].lut = << IF lo[t].tdd THEN "TDD" ELSE "FDD", VcoRow(lo[t].vco) >>
    BY <1>1 DEF SideInv
  <2>2. lo[t].lut[2] = VcoRow(lo[t].vco) /\ (lo[t].lut[1] = "TDD" <=> lo[t].tdd)
    BY <2>1
  <2>3. loBoard.fdd /\ ~loBoard.indep => (lo[t].tdd <=> lo["RX"].want = lo["TX"].want)
    BY DEF SynthInv, LoInv, PairInv, LoSides
  <2>4. QED BY <2>2, <2>3
<1>4. TableFollowsLo
  BY DEF SynthInv, HeldInv, TableFollowsLo
<1>5. QED BY <1>2, <1>3, <1>4 DEF LosObtained

\* The invariant says what the driver knows.
LEMMA Profiles_Inv ==
  ASSUME SynthInv PROVE ProfileKnown /\ DividerRestored /\ PowerdownKept
<1>1. \A t \in LoSides : SideCore(lo[t])
  BY SynthFacts
<1>2. DividerRestored
  BY <1>1 DEF SideCore, DividerRestored
<1>3. QED BY <1>1, <1>2 DEF SideCore, ProfileKnown, PowerdownKept

\* A granted LO is the chip's, with the tables of VCO and gain that belong to it,
\* through everything done to the other side (ad9361_rfpll_int_set_rate with its
\* fix-up, fast lock, external LO, powering down).
THEOREM LosAreObtained == SynthSpec => []LosObtained
<1>1. SynthInit => SynthInv
  BY SynthInit_Inv
<1>2. SynthInv /\ [SynthNext]_loVars => SynthInv'
  BY SynthNext_Inv
<1>3. SynthInv => LosObtained
  BY LosObtained_Inv
<1>4. QED BY <1>1, <1>2, <1>3, PTL DEF SynthSpec

\* The driver knows what each synthesizer runs from and recalls no profile with the
\* ALC word in use (ad9361_fastlock_recall, ad9361_fastlock_prepare).
THEOREM ProfilesAreObeyed == SynthSpec => ProfilesObeyed
<1>1. SynthInit => SynthInv
  BY SynthInit_Inv
<1>2. SynthInv /\ [SynthNext]_loVars => SynthInv' /\ [AlcChanges]_loVars
  BY SynthNext_Inv
<1>3. SynthInv => ProfileKnown /\ DividerRestored /\ PowerdownKept
  BY Profiles_Inv
<1>4. SynthSpec => [](ProfileKnown /\ DividerRestored /\ PowerdownKept)
  BY <1>1, <1>2, <1>3, PTL DEF SynthSpec
<1>5. SynthSpec => [][AlcChanges]_loVars
  BY <1>1, <1>2, PTL DEF SynthSpec
<1>6. [AlcChanges]_loVars <=>
        [\A t \in LoSides :
           (/\ lo'[t].fast # 0 /\ lo'[t].fast # lo[t].fast
            /\ lo[t].fast # 0 => lo[t].slot[lo[t].fast - 1].alc = lo[t].used)
           => lo'[t].used # lo[t].used]_loVars
  BY DEF AlcChanges
<1>7. [][AlcChanges]_loVars => RecallChangesAlc
  BY <1>6, PTL DEF RecallChangesAlc
<1>8. QED BY <1>4, <1>5, <1>7 DEF ProfilesObeyed

-----------------------------------------------------------------------------
(***************************************************************************)
(* The clock chain and the filters (Baseband): dividers and rates first,   *)
(* then one stage, a chain, each call, and the invariant.                  *)
(***************************************************************************)

Clocks == Stages \cup {"BBPLL"}
Ten == {"ADC", "R2", "R1", "CLKRF", "RX", "DAC", "T2", "T1", "CLKTF", "TX"}

LEMMA StagesAre == Stages = Ten
<1>1. Stages = {RxStages[1], RxStages[2], RxStages[3], RxStages[4], RxStages[5],
                TxStages[1], TxStages[2], TxStages[3], TxStages[4], TxStages[5]}
  <2>1. 1..5 = {1, 2, 3, 4, 5}
    BY SMT
  <2> QED
    BY <2>1, Zenon DEF Stages
<1>2. QED
  BY <1>1 DEF RxStages, TxStages, Ten

\* What a field of a stage may hold.
Codes(s) == CASE s = "ADC" -> 0..6 [] s \in {"RX", "TX"} -> 0..3
              [] s \in {"R2", "T2"} -> 0..2 [] OTHER -> 0..1
CodeRows == {c \in [Stages -> 0..6] : \A s \in Stages : c[s] \in Codes(s)}
ChipSet == [word : Nat \X Nat, ref : {5200}, code : CodeRows]
Divisors(s) == CASE s = "ADC" -> {1, 2, 4, 8, 16, 32, 64} [] s \in {"RX", "TX"} -> {1, 2, 4}
                 [] s \in {"R2", "T2"} -> 1..3 [] OTHER -> 1..2

LEMMA Powers ==
  /\ 2^0 = 1 /\ 2^1 = 2 /\ 2^2 = 4 /\ 2^3 = 8 /\ 2^4 = 16 /\ 2^5 = 32 /\ 2^6 = 64 /\ 2^7 = 128
BY SMT

LEMMA DivisorIs ==
  ASSUME NEW s \in Stages, NEW c \in Codes(s)
  PROVE  Divisor(s, c) \in Divisors(s) /\ Divisor(s, c) \in 1..64
<1>0. s \in Ten
  BY StagesAre
<1>1. CASE s = "ADC"
  <2>1. c \in {0, 1, 2, 3, 4, 5, 6}
    BY <1>1 DEF Codes
  <2>2. 2^c \in {1, 2, 4, 8, 16, 32, 64}
    <3>1. CASE c = 0 BY <3>1, Powers
    <3>2. CASE c = 1 BY <3>2, Powers
    <3>3. CASE c = 2 BY <3>3, Powers
    <3>4. CASE c = 3 BY <3>4, Powers
    <3>5. CASE c = 4 BY <3>5, Powers
    <3>6. CASE c = 5 BY <3>6, Powers
    <3>7. CASE c = 6 BY <3>7, Powers
    <3> QED
      BY <2>1, <3>1, <3>2, <3>3, <3>4, <3>5, <3>6, <3>7
  <2>3. Divisor(s, c) = 2^c /\ Divisors(s) = {1, 2, 4, 8, 16, 32, 64}
    BY <1>1 DEF Divisor, Divisors
  <2> QED
    BY <2>2, <2>3
<1>2. CASE s \in {"RX", "TX"}
  <2>1. c \in {0, 1, 2, 3} /\ s # "ADC"
    BY <1>2 DEF Codes
  <2>2. c # 0 => 2^(c - 1) \in {1, 2, 4}
    <3>1. c # 0 => c - 1 \in {0, 1, 2}
      BY <2>1
    <3> QED
      BY <3>1, Powers
  <2>3. Divisor(s, c) = (IF c = 0 THEN 1 ELSE 2^(c - 1)) /\ Divisors(s) = {1, 2, 4}
    BY <1>2, <2>1, Zenon DEF Divisor, Divisors
  <2> QED
    BY <2>2, <2>3
<1>3. CASE s \in {"R2", "T2"}
  <2>1. c \in 0..2 /\ Divisor(s, c) = c + 1 /\ Divisors(s) = 1..3
    BY <1>3 DEF Codes, Divisor, Divisors
  <2> QED
    BY <2>1
<1>4. CASE s \in {"R1", "CLKRF", "DAC", "T1", "CLKTF"}
  <2>1. c \in 0..1 /\ Divisor(s, c) = c + 1 /\ Divisors(s) = 1..2
    BY <1>4 DEF Codes, Divisor, Divisors
  <2> QED
    BY <2>1
<1> QED
  BY <1>0, <1>1, <1>2, <1>3, <1>4 DEF Ten

LEMMA RoundInt ==
  ASSUME NEW x \in Int, NEW d \in Nat, d > 0
  PROVE  RoundDiv(x, d) \in Int
BY DEF RoundDiv

\* The rates a chip's registers amount to, stage by stage.
Follows(R, chip) ==
  /\ R \in [Clocks -> Int]
  /\ R["BBPLL"] = BbpllRate(chip.word, chip.ref)
  /\ \A s \in Stages : R[s] = Down(R[Parent(s)], s, chip.code)

LEMMA BbpllInt ==
  ASSUME NEW w \in Nat \X Nat
  PROVE  BbpllRate(w, 5200) \in Nat
BY DEF BbpllRate, BBPLL_MODULUS

LEMMA DownInt ==
  ASSUME NEW chip \in ChipSet, NEW s \in Stages, NEW p \in Int
  PROVE  Down(p, s, chip.code) \in Int
<1>1. chip.code[s] \in Codes(s)
  BY DEF ChipSet, CodeRows
<1> DEFINE d == Divisor(s, chip.code[s])
<1>2. d \in 1..64
  BY <1>1, DivisorIs
<1>3. Down(p, s, chip.code) = RoundDiv(p, d)
  BY DEF Down
<1> HIDE DEF d
<1>4. d \in Nat /\ d > 0
  BY <1>2
<1> QED
  BY <1>3, <1>4, RoundInt

LEMMA Parents ==
  /\ Parent("ADC") = "BBPLL" /\ Parent("DAC") = "ADC" /\ Parent("R2") = "ADC"
  /\ Parent("R1") = "R2" /\ Parent("CLKRF") = "R1" /\ Parent("RX") = "CLKRF"
  /\ Parent("T2") = "DAC" /\ Parent("T1") = "T2" /\ Parent("CLKTF") = "T1"
  /\ Parent("TX") = "CLKTF"
BY DEF Parent

\* There is a function with these rates, so that Recalc is one.
LEMMA RecalcIs ==
  ASSUME NEW chip \in ChipSet
  PROVE  Follows(Recalc(chip), chip)
<1> DEFINE D(p, s) == Down(p, s, chip.code)
           b == BbpllRate(chip.word, chip.ref)
           a == D(b, "ADC")
           r2 == D(a, "R2")
           r1 == D(r2, "R1")
           cr == D(r1, "CLKRF")
           rx == D(cr, "RX")
           da == D(a, "DAC")
           t2 == D(da, "T2")
           t1 == D(t2, "T1")
           ct == D(t1, "CLKTF")
           tx == D(ct, "TX")
           V(s) == CASE s = "BBPLL" -> b [] s = "ADC" -> a [] s = "R2" -> r2 [] s = "R1" -> r1
                     [] s = "CLKRF" -> cr [] s = "RX" -> rx [] s = "DAC" -> da [] s = "T2" -> t2
                     [] s = "T1" -> t1 [] s = "CLKTF" -> ct [] s = "TX" -> tx
           e == [s \in Clocks |-> V(s)]
           Eq(g) == g = [s \in Clocks |->
                           IF s = "BBPLL" THEN b ELSE Down(g[Parent(s)], s, chip.code)]
<1>1. b \in Int
  BY BbpllInt DEF ChipSet
<1>2. \A p \in Int, s \in Stages : D(p, s) \in Int
  BY DownInt
<1>3. /\ a = D(b, "ADC") /\ r2 = D(a, "R2") /\ r1 = D(r2, "R1") /\ cr = D(r1, "CLKRF")
      /\ rx = D(cr, "RX") /\ da = D(a, "DAC") /\ t2 = D(da, "T2") /\ t1 = D(t2, "T1")
      /\ ct = D(t1, "CLKTF") /\ tx = D(ct, "TX")
  OBVIOUS
<1>4. Eq(e)
  <2>0. ASSUME NEW s \in Clocks
        PROVE  e[s] = IF s = "BBPLL" THEN b ELSE D(e[Parent(s)], s)
    <3>1. s \in Ten \cup {"BBPLL"} /\ Clocks = Ten \cup {"BBPLL"}
      BY StagesAre DEF Clocks
    <3>2. /\ e["BBPLL"] = b /\ e["ADC"] = a /\ e["R2"] = r2 /\ e["R1"] = r1 /\ e["CLKRF"] = cr
          /\ e["RX"] = rx /\ e["DAC"] = da /\ e["T2"] = t2 /\ e["T1"] = t1 /\ e["CLKTF"] = ct
          /\ e["TX"] = tx
      <4> HIDE DEF b, a, r2, r1, cr, rx, da, t2, t1, ct, tx
      <4> QED
        BY <3>1 DEF Ten
    <3> HIDE DEF b, a, r2, r1, cr, rx, da, t2, t1, ct, tx, e, D
    <3>3. /\ e["ADC"] = D(e["BBPLL"], "ADC") /\ e["R2"] = D(e["ADC"], "R2")
          /\ e["R1"] = D(e["R2"], "R1") /\ e["CLKRF"] = D(e["R1"], "CLKRF")
          /\ e["RX"] = D(e["CLKRF"], "RX") /\ e["DAC"] = D(e["ADC"], "DAC")
          /\ e["T2"] = D(e["DAC"], "T2") /\ e["T1"] = D(e["T2"], "T1")
          /\ e["CLKTF"] = D(e["T1"], "CLKTF") /\ e["TX"] = D(e["CLKTF"], "TX")
      BY <3>2, <1>3
    <3>4. ASSUME s \in Ten PROVE e[s] = D(e[Parent(s)], s) /\ s # "BBPLL"
      BY <3>3, <3>4, Parents, Zenon DEF Ten
    <3> QED
      BY <3>1, <3>2, <3>4
  <2>1. e = [s \in Clocks |-> e[s]]
    <3> HIDE DEF V
    <3> QED
      OBVIOUS
  <2> DEFINE F(s) == Down(e[Parent(s)], s, chip.code)
  <2>2. \A s \in Clocks : e[s] = IF s = "BBPLL" THEN b ELSE F(s)
    BY <2>0
  <2> HIDE DEF e, b, F
  <2>3. e = [s \in Clocks |-> IF s = "BBPLL" THEN b ELSE F(s)]
    BY <2>1, <2>2
  <2> QED
    BY <2>3, Zenon DEF F
<1>5. Recalc(chip) = CHOOSE g : Eq(g)
  BY DEF Recalc, Clocks
<1>6. Eq(Recalc(chip))
  <2>1. \E g : Eq(g)
    <3> HIDE DEF e, b
    <3> QED
      BY <1>4, Zenon
  <2> HIDE DEF e, b
  <2> QED
    BY <2>1, <1>5, Zenon
<1> DEFINE g == Recalc(chip)
<1>7. /\ g["BBPLL"] = b
      /\ \A s \in Stages : g[s] = D(g[Parent(s)], s)
      /\ DOMAIN g = Clocks
  <2>0. "BBPLL" \in Clocks /\ \A s \in Stages : s \in Clocks /\ s # "BBPLL"
    BY StagesAre DEF Ten, Clocks
  <2> DEFINE F(s) == Down(g[Parent(s)], s, chip.code)
  <2>1. g = [s \in Clocks |-> IF s = "BBPLL" THEN b ELSE F(s)]
    <3> HIDE DEF b
    <3> QED
      BY <1>6, Zenon DEF F
  <2>2. \A s \in Clocks : g[s] = IF s = "BBPLL" THEN b ELSE F(s)
    <3> HIDE DEF g, b, F
    <3> QED
      BY <2>1
  <2>3. DOMAIN g = Clocks
    <3> HIDE DEF g, b, F
    <3> QED
      BY <2>1
  <2> HIDE DEF g, b
  <2> QED
    BY <2>0, <2>2, <2>3
<1>8. g \in [Clocks -> Int]
  <2>1. g = [s \in Clocks |-> g[s]]
    <3> HIDE DEF b
    <3> QED
      BY <1>6
  <2>2. g["BBPLL"] \in Int
    BY <1>7, <1>1
  <2>3. \A s \in Stages : g[Parent(s)] \in Int => g[s] \in Int
    BY <1>7, <1>2
  <2>4. \A s \in Ten : s \in Stages
    BY StagesAre
  <2>5. \A s \in Ten : g[s] \in Int
    <3> HIDE DEF g
    <3>1. g["ADC"] \in Int
      BY <2>2, <2>3, <2>4, Parents DEF Ten
    <3>2. g["R2"] \in Int /\ g["DAC"] \in Int
      BY <3>1, <2>3, <2>4, Parents DEF Ten
    <3>3. g["R1"] \in Int /\ g["T2"] \in Int
      BY <3>2, <2>3, <2>4, Parents DEF Ten
    <3>4. g["CLKRF"] \in Int /\ g["T1"] \in Int
      BY <3>3, <2>3, <2>4, Parents DEF Ten
    <3>5. g["RX"] \in Int /\ g["CLKTF"] \in Int
      BY <3>4, <2>3, <2>4, Parents DEF Ten
    <3>6. g["TX"] \in Int
      BY <3>5, <2>3, <2>4, Parents DEF Ten
    <3> QED
      BY <3>1, <3>2, <3>3, <3>4, <3>5, <3>6 DEF Ten
  <2> HIDE DEF g
  <2>6. \A s \in Clocks : g[s] \in Int
    BY <2>2, <2>5, StagesAre DEF Clocks
  <2> QED
    BY <2>1, <2>6
<1> QED
  BY <1>7, <1>8 DEF Follows

\* Of the numbers below 128 the logarithm is below 7.
LEMMA BigPowers ==
  /\ 2^7 = 128 /\ 2^8 = 256 /\ 2^9 = 512 /\ 2^10 = 1024 /\ 2^11 = 2048 /\ 2^12 = 4096
  /\ 2^13 = 8192 /\ 2^14 = 16384 /\ 2^15 = 32768 /\ 2^16 = 65536 /\ 2^17 = 131072 /\ 2^18 = 262144
  /\ 2^19 = 524288 /\ 2^20 = 1048576 /\ 2^21 = 2097152 /\ 2^22 = 4194304
  /\ 2^23 = 8388608 /\ 2^24 = 16777216
  /\ 2^25 = 33554432 /\ 2^26 = 67108864 /\ 2^27 = 134217728 /\ 2^28 = 268435456
  /\ 2^29 = 536870912 /\ 2^30 = 1073741824
BY SMT

LEMMA PowersGrow ==
  ASSUME NEW k \in 7..29
  PROVE  2^k > 127
<1>1. /\ 2^7 > 127 /\ 2^8 > 127 /\ 2^9 > 127 /\ 2^10 > 127 /\ 2^11 > 127
      /\ 2^12 > 127 /\ 2^13 > 127 /\ 2^14 > 127 /\ 2^15 > 127 /\ 2^16 > 127
      /\ 2^17 > 127 /\ 2^18 > 127 /\ 2^19 > 127 /\ 2^20 > 127 /\ 2^21 > 127
      /\ 2^22 > 127 /\ 2^23 > 127 /\ 2^24 > 127 /\ 2^25 > 127 /\ 2^26 > 127
      /\ 2^27 > 127 /\ 2^28 > 127 /\ 2^29 > 127
  BY SMT
<1>7. CASE k = 7 BY <1>1, <1>7, SMT
<1>8. CASE k = 8 BY <1>1, <1>8, SMT
<1>9. CASE k = 9 BY <1>1, <1>9, SMT
<1>10. CASE k = 10 BY <1>1, <1>10, SMT
<1>11. CASE k = 11 BY <1>1, <1>11, SMT
<1>12. CASE k = 12 BY <1>1, <1>12, SMT
<1>13. CASE k = 13 BY <1>1, <1>13, SMT
<1>14. CASE k = 14 BY <1>1, <1>14, SMT
<1>15. CASE k = 15 BY <1>1, <1>15, SMT
<1>16. CASE k = 16 BY <1>1, <1>16, SMT
<1>17. CASE k = 17 BY <1>1, <1>17, SMT
<1>18. CASE k = 18 BY <1>1, <1>18, SMT
<1>19. CASE k = 19 BY <1>1, <1>19, SMT
<1>20. CASE k = 20 BY <1>1, <1>20, SMT
<1>21. CASE k = 21 BY <1>1, <1>21, SMT
<1>22. CASE k = 22 BY <1>1, <1>22, SMT
<1>23. CASE k = 23 BY <1>1, <1>23, SMT
<1>24. CASE k = 24 BY <1>1, <1>24, SMT
<1>25. CASE k = 25 BY <1>1, <1>25, SMT
<1>26. CASE k = 26 BY <1>1, <1>26, SMT
<1>27. CASE k = 27 BY <1>1, <1>27, SMT
<1>28. CASE k = 28 BY <1>1, <1>28, SMT
<1>29. CASE k = 29 BY <1>1, <1>29, SMT
<1> QED
  BY <1>7, <1>8, <1>9, <1>10, <1>11, <1>12, <1>13, <1>14, <1>15, <1>16, <1>17,
     <1>18, <1>19, <1>20, <1>21, <1>22, <1>23, <1>24, <1>25, <1>26, <1>27, <1>28, <1>29

LEMMA LogIs ==
  ASSUME NEW d \in 1..127
  PROVE  /\ Log2(d) \in 0..6
         /\ d = 1 => Log2(d) = 0
         /\ d = 2 => Log2(d) = 1
         /\ d = 4 => Log2(d) = 2
<1> DEFINE Fit(k) == 2^k <= d /\ d < 2^(k + 1)
<1>0. /\ Fit(0) <=> (1 <= d /\ d < 2)
      /\ Fit(1) <=> (2 <= d /\ d < 4)
      /\ Fit(2) <=> (4 <= d /\ d < 8)
      /\ Fit(3) <=> (8 <= d /\ d < 16)
      /\ Fit(4) <=> (16 <= d /\ d < 32)
      /\ Fit(5) <=> (32 <= d /\ d < 64)
      /\ Fit(6) <=> (64 <= d /\ d < 128)
  <2>1. 0 + 1 = 1 /\ 1 + 1 = 2 /\ 2 + 1 = 3 /\ 3 + 1 = 4 /\ 4 + 1 = 5 /\ 5 + 1 = 6 /\ 6 + 1 = 7
    BY SMT
  <2> QED
    BY <2>1, Powers
<1>1. \A k \in 7..29 : ~Fit(k)
  <2> TAKE k \in 7..29
  <2>1. 2^k > 127
    BY PowersGrow
  <2> QED
    BY <2>1, SMT
<1>2. \E k \in 0..29 : Fit(k)
  <2> HIDE DEF Fit
  <2>1. Fit(0) \/ Fit(1) \/ Fit(2) \/ Fit(3) \/ Fit(4) \/ Fit(5) \/ Fit(6)
    BY <1>0
  <2> QED
    BY <2>1
<1>3. Log2(d) = CHOOSE k \in 0..29 : Fit(k)
  BY DEF Log2
<1>4. Log2(d) \in 0..29 /\ Fit(Log2(d))
  <2> HIDE DEF Fit
  <2> QED
    BY <1>2, <1>3, Zenon
<1> HIDE DEF Fit
<1> DEFINE l == Log2(d)
<1>5. l \in 0..29 /\ Fit(l)
  BY <1>4
<1> HIDE DEF l
<1>6. l \in 0..6
  BY <1>1, <1>5
<1>7. (d = 1 => l = 0) /\ (d = 2 => l = 1) /\ (d = 4 => l = 2)
  BY <1>0, <1>5, <1>6
<1> QED
  BY <1>6, <1>7 DEF l

\* The fields of the radio, and of these those that are not of its clocks.
BbFields == {"chip", "rate", "ok", "fits", "bypass", "factor", "taps", "gov", "filt", "bw",
             "analog", "timing"}
ClockFields == {"chip", "rate", "ok"}

BbTyped(x) ==
  /\ DOMAIN x = BbFields
  /\ x.chip \in ChipSet /\ x.rate \in [Clocks -> Int]
  /\ x.ok \in BOOLEAN /\ x.fits \in BOOLEAN
  /\ x.bypass \in [Sides -> BOOLEAN] /\ x.factor \in [Sides -> Nat]
OnlyClocks(x, y) == \A f \in BbFields \ ClockFields : y[f] = x[f]
\* What is remembered is what the registers amount to.
Remembers(x) == x.rate = Recalc(x.chip)
\* The PLL's word is one that ad9361_bbpll_set_rate writes.
WordGood(x) == x.chip.word[1] >= 13

\* The code for a divisor of stage s in d
FieldFor(d, s, div) == CodeOf(s, div, s \in {"RX", "TX"} /\ d.bypass[s])

LEMMA CodeOfIs ==
  ASSUME NEW s \in Stages, NEW div \in Accepted(s), NEW byp \in BOOLEAN
  PROVE  /\ CodeOf(s, div, byp) \in Codes(s)
         /\ s \in {"RX", "TX"} =>
              /\ byp => CodeOf(s, div, byp) = 0
              /\ ~byp => CodeOf(s, div, byp) # 0
              /\ ~byp /\ div = 1 => CodeOf(s, div, byp) = 1
<1>0. s \in Ten
  BY StagesAre
<1>1. CASE s = "ADC"
  <2>1. div \in 2..127 /\ CodeOf(s, div, byp) = Log2(div) /\ Codes(s) = 0..6
    BY <1>1 DEF Accepted, CodeOf, Codes
  <2> QED
    BY <2>1, <1>1, LogIs
<1>2. CASE s \in {"RX", "TX"}
  <2>1. div \in {1, 2, 4} /\ s # "ADC"
    BY <1>2 DEF Accepted
  <2>2. CodeOf(s, div, byp) = (IF byp THEN 0 ELSE Log2(div) + 1) /\ Codes(s) = 0..3
    BY <1>2, <2>1, Zenon DEF CodeOf, Codes
  <2>3. Log2(div) \in 0..2 /\ (div = 1 => Log2(div) = 0)
    <3>1. div \in 1..127
      BY <2>1
    <3> QED
      BY <2>1, <3>1, LogIs
  <2> QED
    BY <2>2, <2>3
<1>3. CASE s \in {"R2", "T2"}
  <2>1. div \in 1..3 /\ CodeOf(s, div, byp) = div - 1 /\ Codes(s) = 0..2
    BY <1>3 DEF Accepted, CodeOf, Codes
  <2> QED
    BY <2>1, <1>3
<1>4. CASE s \in {"R1", "CLKRF", "DAC", "T1", "CLKTF"}
  <2>1. div \in 1..2 /\ CodeOf(s, div, byp) = div - 1 /\ Codes(s) = 0..1
    BY <1>4 DEF Accepted, CodeOf, Codes
  <2> QED
    BY <2>1, <1>4
<1> QED
  BY <1>0, <1>1, <1>2, <1>3, <1>4 DEF Ten

\* A stage is set, which changes its code, and all rates are then what the registers
\* amount to; or it refuses, and nothing has changed.
DividerSet(d, s, div, e) ==
  /\ BbTyped(e) /\ OnlyClocks(d, e) /\ e.chip.word = d.chip.word
  /\ \A t \in Stages : t # s => e.chip.code[t] = d.chip.code[t]
  /\ ~e.ok => e.chip = d.chip /\ e.rate = d.rate
  /\ e.ok => div \in Accepted(s) /\ Remembers(e)
  /\ e.ok => e.chip.code[s] = FieldFor(d, s, div)

LEMMA SetDivisorDoes ==
  ASSUME NEW d, BbTyped(d), d.ok, NEW s \in Stages, NEW div
  PROVE  DividerSet(d, s, div, SetDivisor(d, s, div, d.bypass))
<1> DEFINE e == SetDivisor(d, s, div, d.bypass)
<1> SUFFICES DividerSet(d, s, div, e)
  OBVIOUS
<1> USE DEF BbTyped
<1>1. CASE div \notin Accepted(s)
  <2>1. e = [d EXCEPT !.ok = FALSE]
    BY <1>1 DEF SetDivisor
  <2> HIDE DEF e
  <2> QED
    BY <2>1 DEF OnlyClocks, BbFields, ClockFields, DividerSet
<1>2. CASE div \in Accepted(s)
  <2> DEFINE c == WithCode(d, s, div, d.bypass)
             k == CodeOf(s, div, s \in {"RX", "TX"} /\ d.bypass[s])
  <2>1. e = [d EXCEPT !.chip = c, !.rate = Recalc(c)]
    BY <1>2 DEF SetDivisor
  <2> HIDE DEF e
  <2>2. (s \in {"RX", "TX"} /\ d.bypass[s]) \in BOOLEAN
    OBVIOUS
  <2>3. k \in Codes(s)
    BY <1>2, <2>2, CodeOfIs
  <2>4. k \in 0..6
    BY <2>3, StagesAre DEF Codes, Ten
  <2>5. c = [d.chip EXCEPT !.code[s] = k]
    BY DEF WithCode
  <2> HIDE DEF k, c
  <2>6. /\ c \in ChipSet /\ c.word = d.chip.word
        /\ \A t \in Stages : t # s => c.code[t] = d.chip.code[t]
        /\ c.code[s] = k
    BY <2>3, <2>4, <2>5 DEF ChipSet, CodeRows
  <2>7. Recalc(c) \in [Clocks -> Int]
    BY <2>6, RecalcIs DEF Follows
  <2>8. e.chip = c /\ e.rate = Recalc(c) /\ e.ok = d.ok /\ DOMAIN e = BbFields
    BY <2>1 DEF BbFields
  <2>9. OnlyClocks(d, e)
    BY <2>1 DEF BbFields, OnlyClocks, ClockFields
  <2>10. BbTyped(e)
    BY <2>6, <2>7, <2>8, <2>9 DEF OnlyClocks, BbFields, ClockFields
  <2> QED
    BY <2>6, <2>8, <2>9, <2>10, <1>2 DEF Remembers, k, FieldFor, DividerSet
<1> QED
  BY <1>1, <1>2

\* The divisor for rate r of stage s in d, as clk_set_rate finds it.
DivisorOf(d, s, r) ==
  SecondDivisor(s, d.rate[Parent(s)], DivisorFor(d.rate[Parent(s)], r))

\* A stage is set, was at the rate asked for, or fails and changes nothing.
StageSet(d, s, r, e) ==
  /\ BbTyped(e) /\ OnlyClocks(d, e) /\ e.chip.word = d.chip.word
  /\ \A t \in Stages : t # s => e.chip.code[t] = d.chip.code[t]
  /\ Remembers(d) => Remembers(e)
  /\ e.ok => d.ok
  /\ ~e.ok => e.chip = d.chip /\ e.rate = d.rate
  /\ e.ok =>
       \/ e.chip = d.chip /\ e.rate = d.rate /\ d.rate[s] = r
       \/ /\ DivisorOf(d, s, r) \in Accepted(s)
          /\ e.chip.code[s] = FieldFor(d, s, DivisorOf(d, s, r))

LEMMA SetStageDoes ==
  ASSUME NEW d, BbTyped(d), NEW s \in Stages, NEW r
  PROVE  StageSet(d, s, r, SetStage(d, s, r, d.bypass))
<1> DEFINE e == SetStage(d, s, r, d.bypass)
           div == DivisorOf(d, s, r)
<1>1. CASE ~d.ok \/ d.rate[s] = r
  <2>1. e = d
    BY <1>1 DEF SetStage
  <2> HIDE DEF e, div
  <2>2. OnlyClocks(d, e)
    BY <2>1 DEF OnlyClocks
  <2>3. e.ok => d.rate[s] = r
    BY <2>1, <1>1
  <2>4. StageSet(d, s, r, e)
    BY <2>1, <2>2, <2>3, Zenon DEF StageSet
  <2> QED
    BY <2>4 DEF e
<1>2. CASE ~(~d.ok \/ d.rate[s] = r)
  <2>1. e = SetDivisor(d, s, div, d.bypass) /\ d.ok
    BY <1>2 DEF SetStage, DivisorOf
  <2> HIDE DEF div, e
  <2>2. DividerSet(d, s, div, e)
    BY <2>1, SetDivisorDoes
  <2>3. Remembers(d) => Remembers(e)
    BY <2>2 DEF Remembers, DividerSet
  <2>4. StageSet(d, s, r, e)
    BY <2>1, <2>2, <2>3 DEF div, StageSet, DividerSet
  <2> QED
    BY <2>4 DEF e
<1> QED
  BY <1>1, <1>2

\* The rates of a path depend on the codes of that path alone.
SameCodes(c, k, S) == c.word = k.word /\ c.ref = k.ref /\ \A s \in S : c.code[s] = k.code[s]
LEMMA PathRates ==
  ASSUME NEW c \in ChipSet, NEW k \in ChipSet
  PROVE  LET R == Recalc(c)  Q == Recalc(k) IN
         /\ SameCodes(c, k, {"ADC", "R2", "R1"}) => R["R1"] = Q["R1"] /\ R["BBPLL"] = Q["BBPLL"]
         /\ SameCodes(c, k, {"ADC", "R2", "R1", "CLKRF"}) => R["CLKRF"] = Q["CLKRF"]
         /\ SameCodes(c, k, {"ADC", "R2", "R1", "CLKRF", "RX"}) => R["RX"] = Q["RX"]
         /\ SameCodes(c, k, {"ADC", "DAC", "T2", "T1"}) => R["T1"] = Q["T1"]
         /\ SameCodes(c, k, {"ADC", "DAC", "T2", "T1", "CLKTF"}) => R["CLKTF"] = Q["CLKTF"]
         /\ SameCodes(c, k, {"ADC", "DAC", "T2", "T1", "CLKTF", "TX"}) => R["TX"] = Q["TX"]
<1> DEFINE R == Recalc(c)
           Q == Recalc(k)
<1>1. Follows(R, c) /\ Follows(Q, k)
  BY RecalcIs
<1> HIDE DEF R, Q
<1>2. \A s \in Ten : s \in Stages
  BY StagesAre
<1>3. \A s \in Stages : R[s] = RoundDiv(R[Parent(s)], Divisor(s, c.code[s]))
  BY <1>1, Zenon DEF Follows, Down
<1>4. \A s \in Stages : Q[s] = RoundDiv(Q[Parent(s)], Divisor(s, k.code[s]))
  BY <1>1, Zenon DEF Follows, Down
<1>5. \A s \in Stages : R[Parent(s)] = Q[Parent(s)] /\ c.code[s] = k.code[s] => R[s] = Q[s]
  BY <1>3, <1>4, Zenon
<1>6. c.word = k.word /\ c.ref = k.ref => R["BBPLL"] = Q["BBPLL"]
  BY <1>1 DEF Follows
<1>7. /\ "ADC" \in Stages /\ "R2" \in Stages /\ "R1" \in Stages /\ "CLKRF" \in Stages
      /\ "RX" \in Stages /\ "DAC" \in Stages /\ "T2" \in Stages /\ "T1" \in Stages
      /\ "CLKTF" \in Stages /\ "TX" \in Stages
  BY <1>2 DEF Ten
<1>8. /\ R["BBPLL"] = Q["BBPLL"] /\ c.code["ADC"] = k.code["ADC"] => R["ADC"] = Q["ADC"]
      /\ R["ADC"] = Q["ADC"] /\ c.code["R2"] = k.code["R2"] => R["R2"] = Q["R2"]
      /\ R["R2"] = Q["R2"] /\ c.code["R1"] = k.code["R1"] => R["R1"] = Q["R1"]
      /\ R["R1"] = Q["R1"] /\ c.code["CLKRF"] = k.code["CLKRF"] => R["CLKRF"] = Q["CLKRF"]
      /\ R["CLKRF"] = Q["CLKRF"] /\ c.code["RX"] = k.code["RX"] => R["RX"] = Q["RX"]
      /\ R["ADC"] = Q["ADC"] /\ c.code["DAC"] = k.code["DAC"] => R["DAC"] = Q["DAC"]
      /\ R["DAC"] = Q["DAC"] /\ c.code["T2"] = k.code["T2"] => R["T2"] = Q["T2"]
      /\ R["T2"] = Q["T2"] /\ c.code["T1"] = k.code["T1"] => R["T1"] = Q["T1"]
      /\ R["T1"] = Q["T1"] /\ c.code["CLKTF"] = k.code["CLKTF"] => R["CLKTF"] = Q["CLKTF"]
      /\ R["CLKTF"] = Q["CLKTF"] /\ c.code["TX"] = k.code["TX"] => R["TX"] = Q["TX"]
  BY <1>5, <1>7, Parents
<1>9. /\ SameCodes(c, k, {"ADC", "R2", "R1"}) => R["R1"] = Q["R1"] /\ R["BBPLL"] = Q["BBPLL"]
      /\ SameCodes(c, k, {"ADC", "R2", "R1", "CLKRF"}) => R["CLKRF"] = Q["CLKRF"]
      /\ SameCodes(c, k, {"ADC", "R2", "R1", "CLKRF", "RX"}) => R["RX"] = Q["RX"]
  BY <1>6, <1>8 DEF SameCodes
<1>10. /\ SameCodes(c, k, {"ADC", "DAC", "T2", "T1"}) => R["T1"] = Q["T1"]
       /\ SameCodes(c, k, {"ADC", "DAC", "T2", "T1", "CLKTF"}) => R["CLKTF"] = Q["CLKTF"]
       /\ SameCodes(c, k, {"ADC", "DAC", "T2", "T1", "CLKTF", "TX"}) => R["TX"] = Q["TX"]
  BY <1>6, <1>8 DEF SameCodes
<1> QED
  BY <1>9, <1>10 DEF R, Q

-----------------------------------------------------------------------------
(* Divisors and rates.                                                     *)

\* The PLL's word makes every clock above the last two of a path positive.
LEMMA UpperRates ==
  ASSUME NEW x, BbTyped(x), Remembers(x), WordGood(x)
  PROVE  x.rate["R1"] > 0 /\ x.rate["T1"] > 0 /\ x.rate["CLKRF"] > 0 /\ x.rate["CLKTF"] > 0
<1> DEFINE R == x.rate
           D(s) == Divisor(s, x.chip.code[s])
<1>1. Follows(R, x.chip) /\ R \in [Clocks -> Int]
  BY RecalcIs DEF Remembers, BbTyped
<1>2. \A s \in Ten : s \in Stages /\ s \in Clocks
  BY StagesAre DEF Clocks
<1>3. \A s \in Stages : R[s] = RoundDiv(R[Parent(s)], D(s)) /\ D(s) \in Divisors(s)
  <2> TAKE s \in Stages
  <2>1. x.chip.code[s] \in Codes(s)
    BY DEF BbTyped, ChipSet, CodeRows
  <2>2. D(s) \in Divisors(s)
    BY <2>1, DivisorIs
  <2>3. R[s] = RoundDiv(R[Parent(s)], D(s))
    BY <1>1 DEF Follows, Down
  <2> QED
    BY <2>2, <2>3
<1>4. R["BBPLL"] >= 67600
  <2>1. R["BBPLL"] = BbpllRate(x.chip.word, x.chip.ref)
    BY <1>1 DEF Follows
  <2>2. x.chip.ref = 5200 /\ x.chip.word \in Nat \X Nat
    BY DEF BbTyped, ChipSet
  <2>3. BbpllRate(x.chip.word, 5200) = 5200 * x.chip.word[1] + (5200 * x.chip.word[2]) \div 2089
    BY DEF BbpllRate, BBPLL_MODULUS
  <2>4. x.chip.word[1] \in Nat /\ x.chip.word[2] \in Nat /\ x.chip.word[1] >= 13
    BY <2>2 DEF WordGood
  <2> QED
    BY <2>1, <2>2, <2>3, <2>4, SMT
<1> HIDE DEF R, D
<1>5. \A s \in Ten : R[s] \in Int
  BY <1>1, <1>2
<1>6. R["BBPLL"] \in Int
  BY <1>1 DEF Clocks
<1>7. R["ADC"] >= 1056
  <2>1. R["ADC"] = RoundDiv(R["BBPLL"], D("ADC")) /\ D("ADC") \in {1, 2, 4, 8, 16, 32, 64}
    BY <1>2, <1>3, Parents DEF Divisors, Ten
  <2> QED
    BY <2>1, <1>4, <1>6, SMT DEF RoundDiv
<1>8. R["R2"] >= 352 /\ R["DAC"] >= 528
  <2>1. R["R2"] = RoundDiv(R["ADC"], D("R2")) /\ D("R2") \in 1..3
    BY <1>2, <1>3, Parents DEF Divisors, Ten
  <2>2. R["DAC"] = RoundDiv(R["ADC"], D("DAC")) /\ D("DAC") \in 1..2
    BY <1>2, <1>3, Parents DEF Divisors, Ten
  <2>3. R["ADC"] \in Int
    BY <1>5 DEF Ten
  <2> QED
    BY <2>1, <2>2, <2>3, <1>7, SMT DEF RoundDiv
<1>9. R["R1"] >= 176 /\ R["T2"] >= 176
  <2>1. R["R1"] = RoundDiv(R["R2"], D("R1")) /\ D("R1") \in 1..2
    BY <1>2, <1>3, Parents DEF Divisors, Ten
  <2>2. R["T2"] = RoundDiv(R["DAC"], D("T2")) /\ D("T2") \in 1..3
    BY <1>2, <1>3, Parents DEF Divisors, Ten
  <2>3. R["R2"] \in Int /\ R["DAC"] \in Int
    BY <1>5 DEF Ten
  <2> QED
    BY <2>1, <2>2, <2>3, <1>8, SMT DEF RoundDiv
<1>10. R["CLKRF"] >= 88 /\ R["T1"] >= 88
  <2>1. R["CLKRF"] = RoundDiv(R["R1"], D("CLKRF")) /\ D("CLKRF") \in 1..2
    BY <1>2, <1>3, Parents DEF Divisors, Ten
  <2>2. R["T1"] = RoundDiv(R["T2"], D("T1")) /\ D("T1") \in 1..2
    BY <1>2, <1>3, Parents DEF Divisors, Ten
  <2>3. R["R1"] \in Int /\ R["T2"] \in Int
    BY <1>5 DEF Ten
  <2> QED
    BY <2>1, <2>2, <2>3, <1>9, SMT DEF RoundDiv
<1>11. R["CLKTF"] >= 44
  <2>1. R["CLKTF"] = RoundDiv(R["T1"], D("CLKTF")) /\ D("CLKTF") \in 1..2
    BY <1>2, <1>3, Parents DEF Divisors, Ten
  <2>2. R["T1"] \in Int
    BY <1>5 DEF Ten
  <2> QED
    BY <2>1, <2>2, <1>10, SMT DEF RoundDiv
<1>12. R["R1"] \in Int /\ R["T1"] \in Int /\ R["CLKRF"] \in Int /\ R["CLKTF"] \in Int
  BY <1>5 DEF Ten
<1> QED
  BY <1>9, <1>10, <1>11, <1>12 DEF R

\* A rate that was set with a divisor of one or two is one that the rate asked for
\* divides to once.
LEMMA SetIsClose ==
  ASSUME NEW p \in Int, p > 0, NEW R \in Int, R > 0,
         NEW k, k = SecondDivisor("CLKRF", p, DivisorFor(p, R)), k \in 1..2
  PROVE  DivisorFor(RoundDiv(p, k), R) = 1
<1> DEFINE f == DivisorFor(p, R)
<1>1. f \in 1..2
  <2>1. f \notin 1..2 => k = 0
    BY DEF SecondDivisor, Accepted
  <2> QED
    BY <2>1
<1>2. k = DivisorFor(p, p \div f)
  BY <1>1 DEF SecondDivisor, Accepted
<1>3. CASE f = 1
  <2>1. k = 1
    <3>1. p \div f = p
      BY <1>3, SMT
    <3>2. RoundDiv(p, p) = 1
      BY SMT DEF RoundDiv
    <3> QED
      BY <1>2, <3>1, <3>2 DEF DivisorFor
  <2>2. RoundDiv(p, k) = p
    BY <2>1, SMT DEF RoundDiv
  <2> QED
    BY <2>2, <1>3
<1>4. CASE f = 2
  <2>1. p > R /\ RoundDiv(p, R) = 2
    BY <1>4 DEF DivisorFor
  <2>2. p + R \div 2 >= 2 * R /\ p + R \div 2 < 3 * R
    BY <2>1, SMT DEF RoundDiv
  <2>3. k = 2
    <3>1. p \div f = p \div 2
      BY <1>4
    <3>2. p >= 2 /\ p \div 2 < p /\ p \div 2 > 0
      BY <2>1, SMT
    <3>3. k = RoundDiv(p, p \div 2)
      BY <1>2, <3>1, <3>2, SMT DEF DivisorFor
    <3>4. k # 1
      <4> SUFFICES ASSUME k = 1 PROVE FALSE
        OBVIOUS
      <4> DEFINE m == p \div 2
      <4>1. m \in Int /\ m > 0 /\ m + m <= p
        BY <3>2, SMT
      <4>2. k = (p + m \div 2) \div m
        BY <3>3 DEF RoundDiv
      <4> HIDE DEF m
      <4>3. (p + m \div 2) < 2 * m
        BY <4>1, <4>2, SMT
      <4> QED
        BY <4>1, <4>3, SMT
    <3> QED
      BY <3>4
  <2>4. RoundDiv(p, k) = (p + 1) \div 2
    BY <2>3, SMT DEF RoundDiv
  <2> DEFINE c == (p + 1) \div 2
  <2>5. c \in Int /\ 2 * c >= p /\ 2 * c <= p + 1
    BY SMT
  <2> HIDE DEF c
  <2>6. CASE R >= c
    <3>1. RoundDiv(R, c) = 1
      <4>1. c > 0 /\ R + c \div 2 >= c /\ R + c \div 2 < 2 * c
        BY <2>2, <2>5, <2>6, SMT
      <4> QED
        BY <4>1, <2>5, SMT DEF RoundDiv
    <3> QED
      BY <3>1, <2>6, <2>4 DEF DivisorFor, c
  <2>7. CASE R < c
    <3>1. RoundDiv(c, R) = 1
      <4>1. c + R \div 2 >= R /\ c + R \div 2 < 2 * R
        BY <2>2, <2>5, <2>7, SMT
      <4> QED
        BY <4>1, <2>5, SMT DEF RoundDiv
    <3> QED
      BY <3>1, <2>7, <2>4, <2>5, SMT DEF DivisorFor, c
  <2> QED
    BY <2>6, <2>7, <2>5
<1> QED
  BY <1>1, <1>3, <1>4

LEMMA ParentRate ==
  ASSUME NEW d, BbTyped(d), Remembers(d), NEW s \in {"CLKRF", "CLKTF", "RX", "TX"}, NEW r,
         NEW e, StageSet(d, s, r, e)
  PROVE  /\ e.rate[Parent(s)] = d.rate[Parent(s)] /\ d.rate[Parent(s)] \in Int
         /\ e.rate[s] = RoundDiv(d.rate[Parent(s)], Divisor(s, e.chip.code[s]))
         /\ Divisor(s, e.chip.code[s]) \in Divisors(s)
<1>1. BbTyped(e) /\ Remembers(e) /\ e.chip.word = d.chip.word
  BY DEF StageSet
<1>2. \A t \in Stages : t # s => e.chip.code[t] = d.chip.code[t]
  BY DEF StageSet
<1>3. d.chip \in ChipSet /\ e.chip \in ChipSet /\ d.chip.ref = e.chip.ref
  BY <1>1 DEF BbTyped, ChipSet
<1>4. \A t \in Ten : t \in Stages /\ t \in Clocks
  BY StagesAre DEF Clocks
<1>5. e.rate[Parent(s)] = d.rate[Parent(s)]
  <2>1. CASE s = "CLKRF"
    <3>1. SameCodes(e.chip, d.chip, {"ADC", "R2", "R1"})
      BY <1>1, <1>2, <1>3, <1>4, <2>1 DEF SameCodes, Ten
    <3> QED
      BY <3>1, <1>1, <1>3, <2>1, PathRates, Parents DEF Remembers
  <2>2. CASE s = "CLKTF"
    <3>1. SameCodes(e.chip, d.chip, {"ADC", "DAC", "T2", "T1"})
      BY <1>1, <1>2, <1>3, <1>4, <2>2 DEF SameCodes, Ten
    <3> QED
      BY <3>1, <1>1, <1>3, <2>2, PathRates, Parents DEF Remembers
  <2>3. CASE s = "RX"
    <3>1. SameCodes(e.chip, d.chip, {"ADC", "R2", "R1", "CLKRF"})
      BY <1>1, <1>2, <1>3, <1>4, <2>3 DEF SameCodes, Ten
    <3> QED
      BY <3>1, <1>1, <1>3, <2>3, PathRates, Parents DEF Remembers
  <2>4. CASE s = "TX"
    <3>1. SameCodes(e.chip, d.chip, {"ADC", "DAC", "T2", "T1", "CLKTF"})
      BY <1>1, <1>2, <1>3, <1>4, <2>4 DEF SameCodes, Ten
    <3> QED
      BY <3>1, <1>1, <1>3, <2>4, PathRates, Parents DEF Remembers
  <2> QED
    BY <2>1, <2>2, <2>3, <2>4
<1>6. s \in Stages /\ Parent(s) \in Clocks
  BY <1>4, Parents DEF Ten
<1>7. Follows(e.rate, e.chip)
  BY <1>1, <1>3, RecalcIs DEF Remembers
<1>8. e.rate[s] = RoundDiv(e.rate[Parent(s)], Divisor(s, e.chip.code[s]))
  BY <1>6, <1>7 DEF Follows, Down
<1>9. e.chip.code[s] \in Codes(s)
  BY <1>3, <1>6 DEF ChipSet, CodeRows
<1>10. Divisor(s, e.chip.code[s]) \in Divisors(s)
  BY <1>6, <1>9, DivisorIs
<1>11. d.rate[Parent(s)] \in Int
  BY <1>6 DEF BbTyped
<1> QED
  BY <1>5, <1>8, <1>10, <1>11

\* The last clock before the filter is close to what it was set for.
LEMMA AimIsClose ==
  ASSUME NEW d, BbTyped(d), Remembers(d), WordGood(d), NEW s \in {"CLKRF", "CLKTF"},
         NEW R \in Int, R > 0, NEW e, StageSet(d, s, R, e), e.ok
  PROVE  DivisorFor(e.rate[s], R) = 1
<1> DEFINE p == d.rate[Parent(s)]
           k == DivisorOf(d, s, R)
<1>1. e.rate[s] = RoundDiv(p, Divisor(s, e.chip.code[s])) /\ p \in Int
  BY ParentRate
<1>2. p > 0
  BY UpperRates, Parents
<1>3. CASE e.rate = d.rate /\ d.rate[s] = R
  <2>1. RoundDiv(R, R) = 1
    BY SMT DEF RoundDiv
  <2> QED
    BY <1>3, <2>1 DEF DivisorFor
<1>4. CASE k \in Accepted(s) /\ e.chip.code[s] = FieldFor(d, s, k)
  <2>1. k \in 1..2
    BY <1>4 DEF Accepted
  <2>2. k = SecondDivisor("CLKRF", p, DivisorFor(p, R))
    BY DEF DivisorOf, SecondDivisor, Accepted
  <2> HIDE DEF k, p
  <2>3. e.chip.code[s] = k - 1
    BY <1>4, Zenon DEF FieldFor, CodeOf
  <2>4. Divisor(s, e.chip.code[s]) = k
    <3>1. Divisor(s, e.chip.code[s]) = (k - 1) + 1
      BY <2>3 DEF Divisor
    <3> QED
      BY <3>1, <2>1
  <2>5. DivisorFor(RoundDiv(p, k), R) = 1
    BY <1>1, <1>2, <2>1, <2>2, SetIsClose
  <2> QED
    BY <1>1, <2>4, <2>5
<1> QED
  BY <1>3, <1>4 DEF StageSet

\* Of a clock close to R a filter that is to divide by f is given the field for f = 1 or
\* one that divides.
Multiple(f, r, R) == f \in Nat /\ r \in Int /\ R \in Int /\ R > 0 /\ R = f * r
LEMMA LastIsRight ==
  ASSUME NEW d, BbTyped(d), Remembers(d), WordGood(d), NEW s \in {"RX", "TX"},
         NEW f, NEW r, NEW R, Multiple(f, r, R),
         DivisorFor(d.rate[Parent(s)], R) = 1,
         NEW e, StageSet(d, s, r, e), e.ok
  PROVE  /\ f = 1 => e.rate[s] = e.rate[Parent(s)]
         /\ f > 1 /\ ~d.bypass[s] => e.chip.code[s] # 0
<1> DEFINE c == d.rate[Parent(s)]
           k == DivisorOf(d, s, r)
           v == Divisor(s, e.chip.code[s])
<1>0. f \in Nat /\ r \in Int /\ R \in Int /\ R > 0 /\ R = f * r
  BY DEF Multiple
<1>1. e.rate[s] = RoundDiv(c, v) /\ c \in Int /\ e.rate[Parent(s)] = c /\ v \in {1, 2, 4}
  <2>1. Divisors(s) = {1, 2, 4}
    BY <1>0 DEF Divisors
  <2> QED
    BY <1>0, <2>1, ParentRate
<1>2. c > 0
  BY <1>0, UpperRates, Parents
<1>3. s \in Stages
  BY StagesAre DEF Ten
<1>4. d.bypass[s] \in BOOLEAN
  BY <1>0 DEF BbTyped, Sides
<1>5. /\ c >= R => c + R \div 2 < 2 * R
      /\ c < R => R + c \div 2 < 2 * c
  <2> HIDE DEF c
  <2>1. CASE c >= R
    <3>1. R >= c => R = c
      BY <1>0, <2>1, <1>1
    <3>2. RoundDiv(c, R) = 1
      BY <1>0, <2>1, <3>1 DEF DivisorFor, c
    <3>3. c + R \div 2 < 2 * R
      BY <1>0, <3>2, <1>1, SMT DEF RoundDiv
    <3> QED
      BY <1>0, <3>3, <2>1, <1>1
  <2>2. CASE c < R
    <3>1. DivisorFor(c, R) = 1
      BY <1>0 DEF c
    <3>2. RoundDiv(R, c) = 1
      <4>1. R >= c
        BY <1>0, <1>1, <2>2
      <4> QED
        BY <1>0, <3>1, <4>1 DEF DivisorFor
    <3>3. R + c \div 2 < 2 * c
      BY <1>0, <3>2, <1>1, <1>2, SMT DEF RoundDiv
    <3> QED
      BY <1>0, <3>3, <2>2, <1>1
  <2> QED
    BY <1>0, <2>1, <2>2, <1>1
<1>6. CASE e.chip = d.chip /\ e.rate = d.rate /\ d.rate[s] = r
  <2>1. RoundDiv(c, v) = r
    BY <1>0, <1>1, <1>6
  <2>2. ASSUME f = 1 PROVE r = c
    <3>1. r = R
      BY <1>0, <2>2
    <3> HIDE DEF c, v
    <3>2. CASE v = 1
      BY <1>0, <2>1, <3>2, <1>1, SMT DEF RoundDiv
    <3>3. CASE v = 2
      <4>1. r = (c + 1) \div 2
        BY <1>0, <2>1, <3>3, SMT DEF RoundDiv
      <4>2. c >= 2 * r - 1 /\ c <= 2 * r
        BY <1>0, <4>1, <1>1, SMT
      <4>3. r = 1 => c = 1
        BY <1>0, <3>1, <4>2, <1>1, <1>2, <1>5, SMT
      <4>4. r > 1 => FALSE
        BY <1>0, <3>1, <4>2, <1>1, <1>5, SMT
      <4> QED
        BY <1>0, <3>1, <4>3, <4>4, SMT
    <3>4. CASE v = 4
      <4>1. r = (c + 2) \div 4
        BY <1>0, <2>1, <3>4, SMT DEF RoundDiv
      <4>2. c >= 4 * r - 2
        BY <1>0, <4>1, <1>1, SMT
      <4>3. FALSE
        BY <1>0, <3>1, <4>2, <1>1, <1>2, <1>5, SMT
      <4> QED
        BY <1>0, <4>3
    <3> QED
      BY <1>0, <1>1, <3>2, <3>3, <3>4
  <2>3. ASSUME f > 1, e.chip.code[s] = 0 PROVE FALSE
    <3>1. v = 1
      BY <1>0, <2>3, Zenon DEF Divisor
    <3> HIDE DEF c, v
    <3>2. r = c
      BY <1>0, <2>1, <3>1, <1>1, SMT DEF RoundDiv
    <3>3. R >= 2 * c
      <4>1. R = f * c /\ (f - 2) * c >= 0
        BY <1>0, <3>2, <2>3, <1>1, <1>2
      <4>2. (f - 2) * c = f * c - 2 * c
        BY <1>0, <1>1
      <4> QED
        BY <1>0, <4>1, <4>2, <1>1
    <3> QED
      BY <1>0, <3>3, <1>1, <1>2, <1>5, SMT
  <2>4. f = 1 => e.rate[s] = e.rate[Parent(s)]
    <3> HIDE DEF c, v
    <3> QED
      BY <1>0, <1>1, <1>6, <2>2
  <2>5. f > 1 => e.chip.code[s] # 0
    <3> HIDE DEF c, v
    <3> QED
      BY <1>0, <2>3, Zenon
  <2> HIDE DEF c, v
  <2> QED
    BY <1>0, <2>4, <2>5, Zenon
<1>7. CASE k \in Accepted(s) /\ e.chip.code[s] = FieldFor(d, s, k)
  <2>1. e.chip.code[s] = CodeOf(s, k, d.bypass[s])
    <3>1. (s \in {"RX", "TX"} /\ d.bypass[s]) = d.bypass[s]
      BY <1>0, <1>4, Zenon
    <3> HIDE DEF k
    <3> QED
      BY <1>0, <3>1, <1>7, Zenon DEF FieldFor
  <2>2. ~d.bypass[s] => e.chip.code[s] # 0
    BY <1>0, <2>1, <1>3, <1>4, <1>7, CodeOfIs
  <2>3. ASSUME f = 1 PROVE v = 1
    <3>1. DivisorFor(c, r) = 1
      BY <1>0, <2>3
    <3>2. k = 1
      <4>1. k = DivisorFor(c, c \div 1)
        BY <1>0, <3>1 DEF DivisorOf, SecondDivisor, Accepted
      <4> HIDE DEF c, k
      <4>2. c \div 1 = c /\ RoundDiv(c, c) = 1
        BY <1>0, <1>1, <1>2, SMT DEF RoundDiv
      <4> QED
        BY <1>0, <4>1, <4>2 DEF DivisorFor
    <3>3. e.chip.code[s] = 0 \/ e.chip.code[s] = 1
      BY <1>0, <2>1, <3>2, <1>3, <1>4, <1>7, CodeOfIs
    <3>4. CASE e.chip.code[s] = 0
      BY <1>0, <3>4, Zenon DEF Divisor
    <3>5. CASE e.chip.code[s] = 1
      <4>1. v = 2^(1 - 1) /\ 1 - 1 = 0
        BY <1>0, <3>5 DEF Divisor
      <4> QED
        BY <1>0, <4>1, Powers
    <3> QED
      BY <1>0, <3>3, <3>4, <3>5
  <2>4. ASSUME f = 1 PROVE e.rate[s] = c
    <3> HIDE DEF c, v
    <3> QED
      BY <1>0, <2>3, <2>4, <1>1, SMT DEF RoundDiv
  <2> HIDE DEF c, v, k
  <2>5. f = 1 => e.rate[s] = e.rate[Parent(s)]
    BY <1>0, <2>4, <1>1
  <2> QED
    BY <1>0, <2>2, <2>5
<1> QED
  BY <1>0, <1>6, <1>7 DEF StageSet

-----------------------------------------------------------------------------
(* A chain.                                                                *)

\* The PLL's rate is set, was the one asked for, or the PLL does not lock.
BbpllSet(d, r, locks, e) ==
  /\ BbTyped(e) /\ OnlyClocks(d, e) /\ e.chip.code = d.chip.code
  /\ e.ok => d.ok
  /\ e.ok => locks \/ e.chip.word = d.chip.word
  /\ Remembers(d) /\ (locks \/ e.chip.word = d.chip.word) => Remembers(e)
  /\ WordGood(d) \/ (d.ok /\ d.rate["BBPLL"] # r) => WordGood(e)

LEMMA WordIsGood ==
  ASSUME NEW r \in Int
  PROVE  LET w == BbpllWord(BbpllRound(r, 5200), 5200) IN w \in Nat \X Nat /\ w[1] >= 13
<1> DEFINE q == BbpllRound(r, 5200)
<1>1. q \in Nat /\ q >= 67600
  <2>1. CASE r < MIN_BBPLL_FREQ \/ r > MAX_BBPLL_FREQ
    BY <2>1, SMT DEF BbpllRound, Clamp, MIN_BBPLL_FREQ, MAX_BBPLL_FREQ
  <2>2. CASE ~(r < MIN_BBPLL_FREQ \/ r > MAX_BBPLL_FREQ)
    <3> DEFINE v == (r % 5200) * BBPLL_MODULUS + 5200 \div 2
    <3>1. q = 5200 * (r \div 5200) + (5200 * (v \div 5200)) \div BBPLL_MODULUS
      BY <2>2 DEF BbpllRound, BbpllRate, BbpllWord
    <3>2. r >= 71500
      BY <2>2, SMT DEF MIN_BBPLL_FREQ, MAX_BBPLL_FREQ
    <3>3. v \in Nat
      BY SMT DEF BBPLL_MODULUS
    <3> HIDE DEF v
    <3>4. (5200 * (v \div 5200)) \div BBPLL_MODULUS \in Nat
      BY <3>3, SMT DEF BBPLL_MODULUS
    <3>5. r \div 5200 \in Nat /\ r \div 5200 >= 13
      BY <3>2, SMT
    <3> HIDE DEF q
    <3> QED
      BY <3>1, <3>4, <3>5, SMT
  <2> QED
    BY <2>1, <2>2
<1> HIDE DEF q
<1> DEFINE v == (q % 5200) * BBPLL_MODULUS + 5200 \div 2
<1>2. BbpllWord(q, 5200) = <<q \div 5200, v \div 5200>>
  BY DEF BbpllWord
<1>3. v \in Nat
  BY <1>1, SMT DEF BBPLL_MODULUS
<1> HIDE DEF v
<1>4. v \div 5200 \in Nat /\ q \div 5200 \in Nat /\ q \div 5200 >= 13
  BY <1>1, <1>3, SMT
<1>5. BbpllWord(q, 5200) \in Nat \X Nat /\ BbpllWord(q, 5200)[1] >= 13
  BY <1>2, <1>4
<1> QED
  BY <1>5 DEF q

LEMMA SetBbpllDoes ==
  ASSUME NEW d, BbTyped(d), NEW r \in Int, NEW locks \in BOOLEAN
  PROVE  BbpllSet(d, r, locks, SetBbpll(d, r, locks))
<1> DEFINE e == SetBbpll(d, r, locks)
           w == BbpllWord(BbpllRound(r, 5200), 5200)
           c == [d.chip EXCEPT !.word = w]
<1>1. CASE ~d.ok \/ d.rate["BBPLL"] = r
  <2>1. e = d
    BY <1>1 DEF SetBbpll
  <2> HIDE DEF e
  <2>2. OnlyClocks(d, e)
    BY <2>1 DEF OnlyClocks
  <2>3. ~(d.ok /\ d.rate["BBPLL"] # r)
    BY <1>1
  <2>4. BbpllSet(d, r, locks, e)
    BY <2>1, <2>2, <2>3, Zenon DEF BbpllSet
  <2> QED
    BY <2>4 DEF e
<1>2. CASE ~(~d.ok \/ d.rate["BBPLL"] = r)
  <2>0. d.chip.ref = 5200
    BY DEF BbTyped, ChipSet
  <2>1. e = IF locks THEN [d EXCEPT !.chip = c, !.rate = Recalc(c)]
                     ELSE [d EXCEPT !.chip = c, !.ok = FALSE]
    BY <1>2, <2>0 DEF SetBbpll, WriteWord
  <2>2. w \in Nat \X Nat /\ w[1] >= 13
    BY WordIsGood
  <2> HIDE DEF w, e
  <2>3. /\ c \in ChipSet /\ c.word = w /\ c.code = d.chip.code
        /\ w = d.chip.word => c = d.chip
    <3>1. d.chip \in ChipSet
      BY DEF BbTyped
    <3> QED
      BY <2>2, <3>1 DEF ChipSet
  <2> HIDE DEF c
  <2>4. Recalc(c) \in [Clocks -> Int]
    BY <2>3, RecalcIs DEF Follows
  <2>5. DOMAIN e = BbFields /\ e.chip = c
    BY <2>1 DEF BbTyped, BbFields
  <2>6. /\ locks => e.rate = Recalc(c) /\ e.ok = d.ok
        /\ ~locks => e.rate = d.rate /\ e.ok = FALSE
    BY <2>1 DEF BbTyped, BbFields
  <2>7. OnlyClocks(d, e)
    BY <2>1 DEF OnlyClocks, BbFields, ClockFields, BbTyped
  <2>8. BbTyped(e)
    BY <2>3, <2>4, <2>5, <2>6, <2>7 DEF BbTyped, OnlyClocks, BbFields, ClockFields
  <2>9. WordGood(e)
    BY <2>2, <2>3, <2>5 DEF WordGood
  <2>10. CASE locks
    <3>1. Remembers(e) /\ (e.ok => d.ok)
      BY <2>5, <2>6, <2>10 DEF Remembers
    <3> QED
      BY <3>1, <2>3, <2>5, <2>7, <2>8, <2>9, <2>10 DEF BbpllSet, e
  <2>11. CASE ~locks
    <3>1. Remembers(d) /\ e.chip.word = d.chip.word => Remembers(e)
      BY <2>3, <2>5, <2>6, <2>11 DEF Remembers
    <3>2. ~e.ok
      BY <2>6, <2>11
    <3> QED
      BY <3>1, <3>2, <2>3, <2>5, <2>7, <2>8, <2>9, <2>11 DEF BbpllSet, e
  <2> QED
    BY <2>10, <2>11
<1> QED
  BY <1>1, <1>2

\* What every stage keeps
Through(d, e) ==
  /\ BbTyped(e) /\ OnlyClocks(d, e) /\ e.chip.word = d.chip.word
  /\ e.ok => d.ok
  /\ Remembers(d) => Remembers(e)
  /\ \A s \in Sides : d.bypass[s] /\ d.chip.code[s] = 0 => e.chip.code[s] = 0

LEMMA StageIsThrough ==
  ASSUME NEW d, BbTyped(d), NEW s \in Stages, NEW r, NEW e, StageSet(d, s, r, e)
  PROVE  Through(d, e)
<1>1. /\ BbTyped(e) /\ OnlyClocks(d, e) /\ e.chip.word = d.chip.word
      /\ e.ok => d.ok
      /\ Remembers(d) => Remembers(e)
  BY DEF StageSet
<1>2. ASSUME NEW t \in Sides, d.bypass[t], d.chip.code[t] = 0, e.chip.code[t] # 0
      PROVE  FALSE
  <2>1. t \in Stages
    BY StagesAre DEF Sides, Ten
  <2>2. t = s
    BY <1>2, <2>1 DEF StageSet
  <2>3. e.chip # d.chip
    BY <1>2
  <2> DEFINE div == DivisorOf(d, s, r)
  <2>4. div \in Accepted(s) /\ e.chip.code[s] = FieldFor(d, s, div)
    BY <2>3 DEF StageSet
  <2> HIDE DEF div
  <2>5. (s \in {"RX", "TX"} /\ d.bypass[s]) = TRUE
    BY <1>2, <2>2 DEF Sides, BbTyped
  <2>6. e.chip.code[s] = CodeOf(s, div, TRUE)
    BY <2>4, <2>5 DEF FieldFor
  <2>7. CodeOf(s, div, TRUE) = 0
    BY <2>4, <2>2, CodeOfIs DEF Sides
  <2> QED
    BY <1>2, <2>2, <2>6, <2>7
<1> QED
  BY <1>1, <1>2 DEF Through

LEMMA OnlyClocksKept ==
  ASSUME NEW d, NEW e, OnlyClocks(d, e)
  PROVE  /\ e.fits = d.fits /\ e.bypass = d.bypass /\ e.factor = d.factor /\ e.taps = d.taps
         /\ e.gov = d.gov /\ e.filt = d.filt /\ e.bw = d.bw /\ e.analog = d.analog
         /\ e.timing = d.timing
BY DEF OnlyClocks, BbFields, ClockFields

LEMMA ThroughAgain ==
  ASSUME NEW d, NEW e, NEW f, Through(d, e), Through(e, f)
  PROVE  Through(d, f)
<1>1. e.bypass = d.bypass
  BY OnlyClocksKept DEF Through
<1>2. OnlyClocks(d, f)
  BY DEF Through, OnlyClocks
<1> QED
  BY <1>1, <1>2 DEF Through

LEMMA StageDone ==
  ASSUME NEW d, BbTyped(d), NEW byp, byp = d.bypass, NEW s \in Stages, NEW r
  PROVE  /\ StageSet(d, s, r, SetStage(d, s, r, byp))
         /\ Through(d, SetStage(d, s, r, byp))
         /\ BbTyped(SetStage(d, s, r, byp)) /\ SetStage(d, s, r, byp).bypass = byp
<1> DEFINE e == SetStage(d, s, r, byp)
<1>1. StageSet(d, s, r, e)
  BY SetStageDoes
<1> HIDE DEF e
<1>2. Through(d, e)
  BY <1>1, StageIsThrough
<1>3. BbTyped(e) /\ e.bypass = byp
  BY <1>2, OnlyClocksKept DEF Through
<1> QED
  BY <1>1, <1>2, <1>3 DEF e

\* Both stages of a turn are set, the receiver's by m.
PairSet(d, ch, i, m, e) ==
  /\ Through(d, e) /\ BbTyped(e) /\ e.bypass = d.bypass
  /\ StageSet(d, RxStages[i], ch.rx[i], m) /\ Through(d, m) /\ BbTyped(m)
  /\ StageSet(m, TxStages[i], ch.tx[i], e) /\ Through(m, e)

LEMMA PairDone ==
  ASSUME NEW d, BbTyped(d), NEW byp, byp = d.bypass, NEW ch, NEW i \in 1..5
  PROVE  PairSet(d, ch, i, SetStage(d, RxStages[i], ch.rx[i], byp), SetPair(d, ch, i, byp))
<1> DEFINE m == SetStage(d, RxStages[i], ch.rx[i], byp)
           e == SetStage(m, TxStages[i], ch.tx[i], byp)
<1>1. RxStages[i] \in Stages /\ TxStages[i] \in Stages
  BY DEF Stages
<1>2. StageSet(d, RxStages[i], ch.rx[i], m) /\ Through(d, m) /\ BbTyped(m) /\ m.bypass = byp
  BY <1>1, StageDone
<1> HIDE DEF m
<1>3. StageSet(m, TxStages[i], ch.tx[i], e) /\ Through(m, e) /\ BbTyped(e) /\ e.bypass = byp
  BY <1>1, <1>2, StageDone
<1> HIDE DEF e
<1>4. Through(d, e)
  BY <1>2, <1>3, ThroughAgain
<1>5. SetPair(d, ch, i, byp) = e
  BY DEF SetPair, e, m
<1> HIDE DEF m
<1>6. PairSet(d, ch, i, m, e)
  BY <1>2, <1>3, <1>4, Zenon DEF PairSet
<1> QED
  BY <1>5, <1>6 DEF m

\* A stage changes no rate that does not hang from it.
LEMMA Undisturbed ==
  ASSUME NEW d, BbTyped(d), Remembers(d), NEW s \in Stages, NEW r, NEW e, StageSet(d, s, r, e)
  PROVE  /\ s = "CLKTF" => e.rate["CLKRF"] = d.rate["CLKRF"]
         /\ s = "RX" => e.rate["CLKTF"] = d.rate["CLKTF"]
         /\ s = "TX" => /\ e.rate["CLKRF"] = d.rate["CLKRF"] /\ e.rate["RX"] = d.rate["RX"]
                        /\ e.chip.code["RX"] = d.chip.code["RX"]
<1>1. BbTyped(e) /\ Remembers(e) /\ e.chip.word = d.chip.word
  BY DEF StageSet
<1>2. \A t \in Stages : t # s => e.chip.code[t] = d.chip.code[t]
  BY DEF StageSet
<1>3. d.chip \in ChipSet /\ e.chip \in ChipSet /\ e.chip.ref = d.chip.ref
  BY <1>1 DEF BbTyped, ChipSet
<1>4. \A t \in Ten : t \in Stages
  BY StagesAre
<1>5. e.rate = Recalc(e.chip) /\ d.rate = Recalc(d.chip)
  BY <1>1 DEF Remembers
<1>6. ASSUME s = "CLKTF" PROVE SameCodes(e.chip, d.chip, {"ADC", "R2", "R1", "CLKRF"})
  BY <1>1, <1>2, <1>3, <1>4, <1>6 DEF SameCodes, Ten
<1>7. ASSUME s = "RX" PROVE SameCodes(e.chip, d.chip, {"ADC", "DAC", "T2", "T1", "CLKTF"})
  BY <1>1, <1>2, <1>3, <1>4, <1>7 DEF SameCodes, Ten
<1>8. ASSUME s = "TX"
      PROVE  /\ SameCodes(e.chip, d.chip, {"ADC", "R2", "R1", "CLKRF"})
             /\ SameCodes(e.chip, d.chip, {"ADC", "R2", "R1", "CLKRF", "RX"})
             /\ e.chip.code["RX"] = d.chip.code["RX"]
  BY <1>1, <1>2, <1>3, <1>4, <1>8 DEF SameCodes, Ten
<1> QED
  BY <1>3, <1>5, <1>6, <1>7, <1>8, PathRates

ChainTyped(ch) == ch.bb \in Int /\ ch.rx \in [1..5 -> Int] /\ ch.tx \in [1..5 -> Int]
\* A side whose filter divides by f is ready for the switching of that filter.
SideReady(e, s, f) ==
  /\ f = 1 => e.rate[s] = e.rate[Parent(s)]
  /\ f > 1 /\ ~e.bypass[s] => e.chip.code[s] # 0

\* The last two turns of the loop
LEMMA LastTurns ==
  ASSUME NEW d, BbTyped(d), Remembers(d), WordGood(d), NEW ch, ChainTyped(ch),
         NEW fr \in Nat, NEW ft \in Nat,
         ch.rx[4] = fr * ch.rx[5], ch.rx[4] > 0, ch.tx[4] = ft * ch.tx[5], ch.tx[4] > 0,
         NEW e, e = SetPair(SetPair(d, ch, 4, d.bypass), ch, 5, d.bypass), e.ok
  PROVE  SideReady(e, "RX", fr) /\ SideReady(e, "TX", ft)
<1> DEFINE byp == d.bypass
           p == SetStage(d, RxStages[4], ch.rx[4], byp)
           q == SetPair(d, ch, 4, byp)
           u == SetStage(q, RxStages[5], ch.rx[5], byp)
<1>0. /\ RxStages[4] = "CLKRF" /\ RxStages[5] = "RX" /\ TxStages[4] = "CLKTF" /\ TxStages[5] = "TX"
      /\ 4 \in 1..5 /\ 5 \in 1..5
  BY DEF RxStages, TxStages
<1>1. /\ BbTyped(q) /\ q.bypass = byp
      /\ StageSet(d, "CLKRF", ch.rx[4], p) /\ Through(d, p) /\ BbTyped(p)
      /\ StageSet(p, "CLKTF", ch.tx[4], q) /\ Through(p, q)
  <2>1. PairSet(d, ch, 4, p, q)
    BY <1>0, PairDone
  <2> HIDE DEF p, q
  <2> QED
    BY <1>0, <2>1 DEF PairSet
<1>2. /\ BbTyped(e) /\ e.bypass = byp
      /\ StageSet(q, "RX", ch.rx[5], u) /\ Through(q, u) /\ BbTyped(u)
      /\ StageSet(u, "TX", ch.tx[5], e) /\ Through(u, e)
  <2>0. e = SetPair(q, ch, 5, byp)
    OBVIOUS
  <2> HIDE DEF q
  <2>1. PairSet(q, ch, 5, u, e)
    <3>1. PairSet(q, ch, 5, u, SetPair(q, ch, 5, byp))
      BY <1>0, <1>1, PairDone
    <3> QED
      BY <2>0, <3>1
  <2> HIDE DEF u
  <2> QED
    BY <1>0, <1>1, <2>1 DEF PairSet
<1> HIDE DEF p, q, u
<1>3. Remembers(p) /\ Remembers(q) /\ Remembers(u) /\ Remembers(e)
  BY <1>1, <1>2 DEF Through
<1>4. WordGood(p) /\ WordGood(q) /\ WordGood(u)
  BY <1>1, <1>2 DEF Through, WordGood
<1>5. p.ok /\ q.ok /\ u.ok
  BY <1>1, <1>2 DEF Through
<1>6. u.bypass = byp
  BY <1>1, <1>2, OnlyClocksKept DEF Through
<1>7. ch.rx[4] \in Int /\ ch.rx[5] \in Int /\ ch.tx[4] \in Int /\ ch.tx[5] \in Int
  BY <1>0 DEF ChainTyped
<1>8. {"CLKRF", "CLKTF", "RX", "TX"} \subseteq Stages
  BY StagesAre DEF Ten
<1>9. DivisorFor(p.rate["CLKRF"], ch.rx[4]) = 1
  BY <1>1, <1>5, <1>7, AimIsClose
<1>10. DivisorFor(q.rate["CLKTF"], ch.tx[4]) = 1
  BY <1>1, <1>3, <1>4, <1>5, <1>7, AimIsClose
<1>11. q.rate["CLKRF"] = p.rate["CLKRF"]
  BY <1>1, <1>3, <1>8, Undisturbed
<1>12. u.rate["CLKTF"] = q.rate["CLKTF"]
  BY <1>1, <1>2, <1>3, <1>8, Undisturbed
<1>13. e.rate["CLKRF"] = u.rate["CLKRF"] /\ e.rate["RX"] = u.rate["RX"]
       /\ e.chip.code["RX"] = u.chip.code["RX"]
  BY <1>1, <1>2, <1>3, <1>8, Undisturbed
<1>14. SideReady(u, "RX", fr)
  <2>1. DivisorFor(q.rate[Parent("RX")], ch.rx[4]) = 1
    BY <1>9, <1>11, Parents
  <2> DEFINE r == ch.rx[5]
             R == ch.rx[4]
  <2>2. Multiple(fr, r, R) /\ DivisorFor(q.rate[Parent("RX")], R) = 1
    BY <2>1, <1>7 DEF Multiple
  <2>3. BbTyped(q) /\ Remembers(q) /\ WordGood(q) /\ StageSet(q, "RX", r, u) /\ u.ok
    BY <1>1, <1>2, <1>3, <1>4, <1>5
  <2>4. u.bypass = q.bypass
    BY <1>1, <1>6
  <2> HIDE DEF r, R
  <2> QED
    BY <2>2, <2>3, <2>4, LastIsRight DEF SideReady
<1>15. SideReady(e, "TX", ft)
  <2>1. DivisorFor(u.rate[Parent("TX")], ch.tx[4]) = 1
    BY <1>10, <1>12, Parents
  <2> DEFINE r == ch.tx[5]
             R == ch.tx[4]
  <2>2. Multiple(ft, r, R) /\ DivisorFor(u.rate[Parent("TX")], R) = 1
    BY <2>1, <1>7 DEF Multiple
  <2>3. BbTyped(u) /\ Remembers(u) /\ WordGood(u) /\ StageSet(u, "TX", r, e) /\ e.ok
    BY <1>2, <1>3, <1>4, <1>5
  <2>4. e.bypass = u.bypass
    BY <1>2, <1>6
  <2> HIDE DEF r, R
  <2> QED
    BY <2>2, <2>3, <2>4, LastIsRight DEF SideReady
<1>16. SideReady(e, "RX", fr)
  BY <1>2, <1>6, <1>13, <1>14, Parents DEF SideReady
<1> QED
  BY <1>15, <1>16

\* A chain is set: what the PLL and the stages keep, and what the filters need.
ChainSet(d, ch, locks, e) ==
  /\ BbTyped(e) /\ OnlyClocks(d, e)
  /\ e.ok => d.ok
  /\ Remembers(d) /\ Locked(d, e, locks) => Remembers(e)
  /\ WordGood(d) \/ (d.ok /\ d.rate["BBPLL"] # ch.bb) => WordGood(e)
  /\ \A s \in Sides : d.bypass[s] /\ d.chip.code[s] = 0 => e.chip.code[s] = 0
  /\ e.ok /\ Remembers(d) /\ WordGood(e) /\ Fits(d, ch) /\ Locked(d, e, locks) =>
       SideReady(e, "RX", Factor(d, "RX")) /\ SideReady(e, "TX", Factor(d, "TX"))

LEMMA SetChainDoes ==
  ASSUME NEW d, BbTyped(d), NEW ch, ChainTyped(ch), NEW locks \in BOOLEAN
  PROVE  ChainSet(d, ch, locks, SetChain(d, ch, d.bypass, locks))
<1> DEFINE byp == d.bypass
           x0 == SetBbpll(d, ch.bb, locks)
           x1 == SetPair(x0, ch, 1, byp)
           x2 == SetPair(x1, ch, 2, byp)
           x3 == SetPair(x2, ch, 3, byp)
           x4 == SetPair(x3, ch, 4, byp)
           e == SetPair(x4, ch, 5, byp)
<1>0. 1 \in 1..5 /\ 2 \in 1..5 /\ 3 \in 1..5 /\ 4 \in 1..5 /\ 5 \in 1..5
  OBVIOUS
<1>1. SetChain(d, ch, byp, locks) = e
  BY DEF SetChain
<1>2. BbpllSet(d, ch.bb, locks, x0)
  BY SetBbpllDoes DEF ChainTyped
<1>3. /\ BbTyped(x0) /\ OnlyClocks(d, x0) /\ x0.chip.code = d.chip.code
      /\ x0.ok => d.ok
      /\ Remembers(d) /\ (locks \/ x0.chip.word = d.chip.word) => Remembers(x0)
      /\ WordGood(d) \/ (d.ok /\ d.rate["BBPLL"] # ch.bb) => WordGood(x0)
  BY <1>2, Zenon DEF BbpllSet
<1>4. x0.bypass = byp
  BY <1>3, OnlyClocksKept
<1> HIDE DEF x0
<1>5. Through(x0, x1) /\ BbTyped(x1) /\ x1.bypass = byp
  BY <1>0, <1>3, <1>4, PairDone DEF PairSet
<1> HIDE DEF x1
<1>6. Through(x1, x2) /\ BbTyped(x2) /\ x2.bypass = byp
  BY <1>0, <1>5, PairDone DEF PairSet
<1> HIDE DEF x2
<1>7. Through(x2, x3) /\ BbTyped(x3) /\ x3.bypass = byp
  BY <1>0, <1>6, PairDone DEF PairSet
<1> HIDE DEF x3
<1>8. Through(x3, x4) /\ BbTyped(x4) /\ x4.bypass = byp
  BY <1>0, <1>7, PairDone DEF PairSet
<1> HIDE DEF x4
<1>9. Through(x4, e) /\ BbTyped(e) /\ e.bypass = byp
  BY <1>0, <1>8, PairDone DEF PairSet
<1>10. Through(x0, x3) /\ Through(x3, e)
  <2> HIDE DEF e
  <2> QED
    BY <1>5, <1>6, <1>7, <1>8, <1>9, ThroughAgain
<1>11. e = SetPair(SetPair(x3, ch, 4, x3.bypass), ch, 5, x3.bypass)
  BY <1>7 DEF x4
<1> HIDE DEF e
<1>12. /\ x3.chip.word = x0.chip.word /\ e.chip.word = x0.chip.word
       /\ Remembers(x0) => Remembers(x3)
       /\ Remembers(x0) => Remembers(e)
       /\ e.ok => x0.ok
  BY <1>10 DEF Through
<1>13. OnlyClocks(d, e)
  BY <1>3, <1>10 DEF Through, OnlyClocks
<1>14. WordGood(x0) => WordGood(e)
  BY <1>12 DEF WordGood
<1>15. Locked(d, e, locks) => locks \/ x0.chip.word = d.chip.word
  BY <1>12 DEF Locked
<1>16. \A s \in Sides : d.bypass[s] /\ d.chip.code[s] = 0 => e.chip.code[s] = 0
  BY <1>3, <1>4, <1>7, <1>10 DEF Through
<1>17. ASSUME e.ok, Remembers(d), WordGood(e), Fits(d, ch), Locked(d, e, locks)
       PROVE  SideReady(e, "RX", Factor(d, "RX")) /\ SideReady(e, "TX", Factor(d, "TX"))
  <2> DEFINE fr == Factor(d, "RX")
             ft == Factor(d, "TX")
  <2>1. fr \in Nat /\ ft \in Nat
    BY DEF Factor, BbTyped, Sides
  <2>2. ch.rx[4] = fr * ch.rx[5] /\ ch.rx[4] > 0 /\ ch.tx[4] = ft * ch.tx[5] /\ ch.tx[4] > 0
    BY <1>17 DEF Fits
  <2>3. Remembers(x3)
    BY <1>3, <1>12, <1>15, <1>17
  <2>4. WordGood(x3)
    BY <1>12, <1>17 DEF WordGood
  <2> HIDE DEF fr, ft
  <2>5. SideReady(e, "RX", fr) /\ SideReady(e, "TX", ft)
    BY <2>1, <2>2, <2>3, <2>4, <1>7, <1>11, <1>17, LastTurns
  <2> QED
    BY <2>5 DEF fr, ft
<1>18. ChainSet(d, ch, locks, e)
  BY <1>3, <1>9, <1>12, <1>13, <1>14, <1>15, <1>16, <1>17, Zenon DEF ChainSet
<1> QED
  BY <1>1, <1>18

\* Rates above the filters do not depend on the filters' fields.
LEMMA AboveFilters ==
  ASSUME NEW c \in ChipSet, NEW k \in ChipSet, c.word = k.word, c.ref = k.ref,
         \A s \in Stages \ Sides : c.code[s] = k.code[s]
  PROVE  \A s \in Clocks \ Sides : Recalc(c)[s] = Recalc(k)[s]
<1> DEFINE R == Recalc(c)
           Q == Recalc(k)
<1>1. Follows(R, c) /\ Follows(Q, k)
  BY RecalcIs
<1> HIDE DEF R, Q
<1>2. \A s \in Stages : R[s] = RoundDiv(R[Parent(s)], Divisor(s, c.code[s]))
  BY <1>1, Zenon DEF Follows, Down
<1>3. \A s \in Stages : Q[s] = RoundDiv(Q[Parent(s)], Divisor(s, k.code[s]))
  BY <1>1, Zenon DEF Follows, Down
<1>4. \A s \in Stages : R[Parent(s)] = Q[Parent(s)] /\ c.code[s] = k.code[s] => R[s] = Q[s]
  BY <1>2, <1>3, Zenon
<1>5. R["BBPLL"] = Q["BBPLL"]
  BY <1>1 DEF Follows
<1>6. \A s \in Ten \ Sides : s \in Stages /\ c.code[s] = k.code[s]
  BY StagesAre
<1>7. R["ADC"] = Q["ADC"]
  BY <1>4, <1>5, <1>6, Parents DEF Ten, Sides
<1>8. R["R2"] = Q["R2"] /\ R["DAC"] = Q["DAC"]
  BY <1>4, <1>7, <1>6, Parents DEF Ten, Sides
<1>9. R["R1"] = Q["R1"] /\ R["T2"] = Q["T2"]
  BY <1>4, <1>8, <1>6, Parents DEF Ten, Sides
<1>10. R["CLKRF"] = Q["CLKRF"] /\ R["T1"] = Q["T1"]
  BY <1>4, <1>9, <1>6, Parents DEF Ten, Sides
<1>11. R["CLKTF"] = Q["CLKTF"]
  BY <1>4, <1>10, <1>6, Parents DEF Ten, Sides
<1>12. \A s \in Clocks \ Sides : R[s] = Q[s]
  BY <1>5, <1>7, <1>8, <1>9, <1>10, <1>11, StagesAre DEF Clocks, Ten, Sides
<1> QED
  BY <1>12 DEF R, Q

\* The fields that only setting a chain or a filter touches
SameButChip(x, y) == \A f \in BbFields \ {"chip"} : y[f] = x[f]
\* The filters are switched, and no rate changes.
Enabled(y, z) ==
  /\ BbTyped(z) /\ SameButChip(y, z) /\ z.chip.word = y.chip.word
  /\ \A s \in Sides : /\ y.bypass[s] => z.chip.code[s] = 0
                      /\ ~y.bypass[s] /\ y.factor[s] = 1 => z.chip.code[s] = 1
                      /\ ~y.bypass[s] /\ y.factor[s] # 1 => z.chip.code[s] = y.chip.code[s]
  /\ (\A s \in Sides : y.bypass[s] /\ y.chip.code[s] = 0) => z.chip = y.chip
  /\ Remembers(y) /\ (\A s \in Sides : SideReady(y, s, Factor(y, s))) => Remembers(z)

LEMMA EnableFiltersDoes ==
  ASSUME NEW y, BbTyped(y)
  PROVE  Enabled(y, EnableFilters(y))
<1> DEFINE row == [s \in Stages |->
             IF s \in Sides /\ (y.factor[s] = 1 \/ y.bypass[s])
               THEN IF y.bypass[s] THEN 0 ELSE 1
               ELSE y.chip.code[s]]
           c == [y.chip EXCEPT !.code = row]
           z == [y EXCEPT !.chip = c]
<1>1. EnableFilters(y) = z
  BY DEF EnableFilters, BbTyped, BbFields
<1>2. y.chip \in ChipSet /\ y.chip.code \in CodeRows
  BY DEF BbTyped, ChipSet
<1>3. \A s \in Sides : s \in Stages /\ y.bypass[s] \in BOOLEAN /\ Codes(s) = 0..3
  BY StagesAre DEF Sides, Ten, BbTyped, Codes
<1>4. /\ row \in CodeRows
      /\ \A s \in Sides : /\ y.bypass[s] => row[s] = 0
                          /\ ~y.bypass[s] /\ y.factor[s] = 1 => row[s] = 1
                          /\ ~y.bypass[s] /\ y.factor[s] # 1 => row[s] = y.chip.code[s]
      /\ \A s \in Stages \ Sides : row[s] = y.chip.code[s]
  <2>1. \A s \in Stages : row[s] \in 0..6 /\ row[s] \in Codes(s)
    BY <1>2, <1>3 DEF CodeRows
  <2>2. row \in CodeRows
    <3> DEFINE v(s) == row[s]
    <3>1. row \in [Stages -> 0..6]
      BY <2>1
    <3> HIDE DEF row
    <3> QED
      BY <2>1, <3>1 DEF CodeRows
  <2> QED
    BY <2>2, <1>3
<1>5. (\A s \in Sides : y.bypass[s] /\ y.chip.code[s] = 0) => row = y.chip.code
  <2> SUFFICES ASSUME \A s \in Sides : y.bypass[s] /\ y.chip.code[s] = 0 PROVE row = y.chip.code
    OBVIOUS
  <2>1. \A s \in Stages : row[s] = y.chip.code[s]
    BY <1>4
  <2>2. row \in [Stages -> 0..6] /\ y.chip.code \in [Stages -> 0..6]
    BY <1>2, <1>4 DEF CodeRows
  <2> HIDE DEF row
  <2> QED
    BY <2>1, <2>2
<1> HIDE DEF row
<1>6. /\ c \in ChipSet /\ c.word = y.chip.word /\ c.ref = y.chip.ref /\ c.code = row
      /\ row = y.chip.code => c = y.chip
  BY <1>2, <1>4 DEF ChipSet
<1> HIDE DEF c
<1>7. SameButChip(y, z) /\ z.chip = c /\ DOMAIN z = BbFields
  BY DEF SameButChip, BbTyped, BbFields
<1> HIDE DEF z
<1>8. /\ z.rate = y.rate /\ z.ok = y.ok /\ z.fits = y.fits
      /\ z.bypass = y.bypass /\ z.factor = y.factor
  BY <1>7 DEF SameButChip, BbFields
<1>9. BbTyped(z)
  BY <1>6, <1>7, <1>8 DEF BbTyped
<1>10. ASSUME Remembers(y), \A s \in Sides : SideReady(y, s, Factor(y, s))
       PROVE  Remembers(z)
  <2> DEFINE R == Recalc(c)
             Q == Recalc(y.chip)
  <2>1. Follows(R, c) /\ Follows(Q, y.chip) /\ y.rate = Q
    BY <1>2, <1>6, <1>10, RecalcIs DEF Remembers
  <2>2. \A s \in Clocks \ Sides : R[s] = Q[s]
    BY <1>2, <1>4, <1>6, AboveFilters
  <2> HIDE DEF R, Q
  <2>3. ASSUME NEW s \in Sides PROVE R[s] = Q[s]
    <3>1. Parent(s) \in Clocks \ Sides /\ s \in Stages
      BY StagesAre, Parents DEF Sides, Clocks, Ten
    <3>2. R[Parent(s)] = Q[Parent(s)] /\ Q[Parent(s)] \in Int
      BY <3>1, <2>1, <2>2 DEF Follows
    <3>3. R[s] = RoundDiv(Q[Parent(s)], Divisor(s, row[s]))
      BY <2>1, <3>1, <3>2, <1>6 DEF Follows, Down
    <3>4. CASE ~y.bypass[s] /\ y.factor[s] # 1
      <4>1. row[s] = y.chip.code[s]
        BY <1>4, <3>4
      <4> QED
        BY <4>1, <3>3, <3>1, <2>1 DEF Follows, Down
    <3>5. CASE y.bypass[s] \/ y.factor[s] = 1
      <4>1. row[s] \in {0, 1}
        BY <1>3, <1>4, <3>5
      <4>2. Divisor(s, row[s]) = 1
        <5>1. s \in {"RX", "TX"} /\ s # "ADC"
          BY DEF Sides
        <5>2. CASE row[s] = 0
          BY <5>1, <5>2, Zenon DEF Divisor
        <5>3. CASE row[s] = 1
          <6>1. Divisor(s, row[s]) = 2^(1 - 1) /\ 1 - 1 = 0
            BY <5>1, <5>3 DEF Divisor
          <6> QED
            BY <6>1, Powers
        <5> QED
          BY <4>1, <5>2, <5>3
      <4>3. R[s] = Q[Parent(s)]
        BY <3>2, <3>3, <4>2, SMT DEF RoundDiv
      <4>4. Factor(y, s) = 1
        BY <3>5, Zenon DEF Factor
      <4>5. Q[s] = Q[Parent(s)]
        BY <1>10, <2>1, <4>4 DEF SideReady
      <4> QED
        BY <4>3, <4>5
    <3> QED
      BY <1>3, <3>4, <3>5
  <2>4. R \in [Clocks -> Int] /\ Q \in [Clocks -> Int]
    BY <2>1 DEF Follows
  <2>5. R = Q
    BY <2>2, <2>3, <2>4
  <2> QED
    BY <2>1, <2>5, <1>7, <1>8 DEF Remembers, R
<1>11. z.chip.word = y.chip.word /\ z.chip.code = row
  BY <1>6, <1>7
<1>12. (\A s \in Sides : y.bypass[s] /\ y.chip.code[s] = 0) => z.chip = y.chip
  BY <1>5, <1>6, <1>7
<1>13. \A s \in Sides : /\ y.bypass[s] => z.chip.code[s] = 0
                        /\ ~y.bypass[s] /\ y.factor[s] = 1 => z.chip.code[s] = 1
                        /\ ~y.bypass[s] /\ y.factor[s] # 1 => z.chip.code[s] = y.chip.code[s]
  BY <1>4, <1>11
<1>14. Enabled(y, z)
  BY <1>7, <1>9, <1>10, <1>11, <1>12, <1>13, Zenon DEF Enabled
<1> QED
  BY <1>1, <1>14

Switched(z) == \A s \in Sides : z.bypass[s] <=> z.chip.code[s] = 0
AllBypassed(x) == \A s \in Sides : x.bypass[s] /\ x.chip.code[s] = 0
\* What no change of the clocks touches
SettingsKept(x, z) ==
  /\ z.bypass = x.bypass /\ z.factor = x.factor /\ z.taps = x.taps /\ z.gov = x.gov
  /\ z.filt = x.filt /\ z.bw = x.bw /\ z.analog = x.analog
\* A call that did its part as far as it could.
Keeps(x, z) ==
  /\ BbTyped(z)
  /\ z.fits => x.fits
  /\ WordGood(x) => WordGood(z)
  /\ WordGood(x) /\ Remembers(x) /\ z.fits => Remembers(z)
\* ad9361_set_trx_clock_chain
TrxSet(x, ch, locks, z) ==
  /\ Keeps(x, z) /\ SettingsKept(x, z)
  /\ z.ok => x.ok /\ z.timing = TimingFor(z)
  /\ z.ok /\ z.fits /\ WordGood(x) /\ Remembers(x) => Switched(z)
  /\ AllBypassed(x) /\ Remembers(x) /\ locks => AllBypassed(z) /\ Remembers(z)
  /\ ValidChain(ch, wiring) /\ x.ok /\ x.rate["BBPLL"] # ch.bb => WordGood(z)

\* A chain is set and it is noted whether it suits; the filters are not switched yet.
Noted(x, ch, locks, y) ==
  /\ BbTyped(y) /\ SettingsKept(x, y)
  /\ y.fits => x.fits /\ Fits(x, ch) /\ Locked(x, y, locks)
  /\ y.ok => x.ok
  /\ Remembers(x) /\ (locks \/ y.fits) => Remembers(y)
  /\ WordGood(x) => WordGood(y)
  /\ x.ok /\ x.rate["BBPLL"] # ch.bb => WordGood(y)
  /\ AllBypassed(x) => AllBypassed(y)
  /\ y.ok /\ y.fits /\ Remembers(x) /\ WordGood(x) =>
       \A s \in Sides : SideReady(y, s, Factor(y, s))

LEMMA NotedIs ==
  ASSUME NEW x, BbTyped(x), NEW ch, ChainTyped(ch), NEW locks \in BOOLEAN,
         NEW e, e = SetChain(x, ch, x.bypass, locks)
  PROVE  Noted(x, ch, locks, [e EXCEPT !.fits = x.fits /\ Fits(x, ch) /\ Locked(x, e, locks)])
<1> DEFINE y == [e EXCEPT !.fits = x.fits /\ Fits(x, ch) /\ Locked(x, e, locks)]
<1>1. ChainSet(x, ch, locks, e)
  BY SetChainDoes
<1>2. /\ BbTyped(e) /\ OnlyClocks(x, e)
      /\ e.ok => x.ok
      /\ Remembers(x) /\ Locked(x, e, locks) => Remembers(e)
      /\ WordGood(x) \/ (x.ok /\ x.rate["BBPLL"] # ch.bb) => WordGood(e)
      /\ \A s \in Sides : x.bypass[s] /\ x.chip.code[s] = 0 => e.chip.code[s] = 0
      /\ e.ok /\ Remembers(x) /\ WordGood(e) /\ Fits(x, ch) /\ Locked(x, e, locks) =>
           SideReady(e, "RX", Factor(x, "RX")) /\ SideReady(e, "TX", Factor(x, "TX"))
  BY <1>1, Zenon DEF ChainSet
<1>3. DOMAIN e = BbFields
  BY <1>2 DEF BbTyped
<1>4. /\ DOMAIN y = BbFields /\ y.chip = e.chip /\ y.rate = e.rate /\ y.ok = e.ok
      /\ y.bypass = e.bypass /\ y.factor = e.factor /\ y.taps = e.taps /\ y.gov = e.gov
      /\ y.filt = e.filt /\ y.bw = e.bw /\ y.analog = e.analog
  BY <1>3 DEF BbFields
<1>5. y.fits = (x.fits /\ Fits(x, ch) /\ Locked(x, e, locks))
  BY <1>3 DEF BbFields
<1> HIDE DEF y
<1>6. y.fits \in BOOLEAN
  BY <1>5
<1>7. BbTyped(y)
  BY <1>2, <1>4, <1>6 DEF BbTyped
<1>8. SettingsKept(x, y)
  BY <1>2, <1>4, OnlyClocksKept DEF SettingsKept
<1>9. Locked(x, e, locks) <=> Locked(x, y, locks)
  BY <1>4 DEF Locked
<1>10. locks => Locked(x, e, locks)
  BY DEF Locked
<1>11. Remembers(e) => Remembers(y)
  BY <1>4 DEF Remembers
<1>12. WordGood(e) <=> WordGood(y)
  BY <1>4 DEF WordGood
<1>13. AllBypassed(x) => AllBypassed(y)
  BY <1>2, <1>4, <1>8 DEF AllBypassed, SettingsKept
<1>14. ASSUME y.ok, y.fits, Remembers(x), WordGood(x), NEW s \in Sides
       PROVE  SideReady(y, s, Factor(y, s))
  <2>1. Factor(y, s) = Factor(x, s)
    BY <1>8 DEF SettingsKept, Factor
  <2>2. SideReady(e, s, Factor(x, s))
    BY <1>2, <1>4, <1>5, <1>14 DEF Sides
  <2> QED
    BY <2>1, <2>2, <1>4 DEF SideReady
<1>15. Noted(x, ch, locks, y)
  <2>1. y.fits => x.fits /\ Fits(x, ch) /\ Locked(x, y, locks)
    BY <1>5, <1>9
  <2>2. Remembers(x) /\ (locks \/ y.fits) => Remembers(y)
    BY <1>2, <1>5, <1>10, <1>11
  <2>3. /\ WordGood(x) => WordGood(y)
        /\ x.ok /\ x.rate["BBPLL"] # ch.bb => WordGood(y)
        /\ y.ok => x.ok
    BY <1>2, <1>4, <1>12
  <2> QED
    BY <1>7, <1>8, <1>13, <1>14, <2>1, <2>2, <2>3, Zenon DEF Noted
<1> QED
  BY <1>15 DEF y

\* After the chain the filters are switched and everything that counts cycles is told.
LEMMA FinishDoes ==
  ASSUME NEW x, BbTyped(x), NEW ch, ChainTyped(ch), NEW locks \in BOOLEAN, NEW y,
         Noted(x, ch, locks, y)
  PROVE  TrxSet(x, ch, locks, IF y.ok THEN Timed(EnableFilters(y)) ELSE y)
<1> DEFINE u == EnableFilters(y)
           t == Timed(u)
<1>1. /\ BbTyped(y) /\ SettingsKept(x, y)
      /\ y.fits => x.fits /\ Fits(x, ch) /\ Locked(x, y, locks)
      /\ y.ok => x.ok
      /\ Remembers(x) /\ (locks \/ y.fits) => Remembers(y)
      /\ WordGood(x) => WordGood(y)
      /\ x.ok /\ x.rate["BBPLL"] # ch.bb => WordGood(y)
      /\ AllBypassed(x) => AllBypassed(y)
      /\ y.ok /\ y.fits /\ Remembers(x) /\ WordGood(x) =>
           \A s \in Sides : SideReady(y, s, Factor(y, s))
  BY Zenon DEF Noted
<1>2. CASE ~y.ok
  <2>1. Keeps(x, y)
    BY <1>1, Zenon DEF Keeps
  <2>2. AllBypassed(x) /\ Remembers(x) /\ locks => AllBypassed(y) /\ Remembers(y)
    BY <1>1
  <2>3. TrxSet(x, ch, locks, y)
    BY <1>1, <1>2, <2>1, <2>2, Zenon DEF TrxSet
  <2> QED
    BY <2>3, <1>2
<1>3. CASE y.ok
  <2>1. Enabled(y, u)
    BY <1>1, EnableFiltersDoes
  <2> HIDE DEF u
  <2>2. /\ BbTyped(u) /\ SameButChip(y, u) /\ u.chip.word = y.chip.word
        /\ \A s \in Sides : /\ y.bypass[s] => u.chip.code[s] = 0
                            /\ ~y.bypass[s] /\ y.factor[s] = 1 => u.chip.code[s] = 1
                            /\ ~y.bypass[s] /\ y.factor[s] # 1 => u.chip.code[s] = y.chip.code[s]
        /\ (\A s \in Sides : y.bypass[s] /\ y.chip.code[s] = 0) => u.chip = y.chip
        /\ Remembers(y) /\ (\A s \in Sides : SideReady(y, s, Factor(y, s))) => Remembers(u)
    BY <2>1, Zenon DEF Enabled
  <2>3. DOMAIN u = BbFields /\ t = [u EXCEPT !.timing = TimingFor(u)]
    BY <2>2 DEF BbTyped, Timed
  <2>4. /\ DOMAIN t = BbFields /\ t.timing = TimingFor(u) /\ t.rate = u.rate /\ t.chip = u.chip
        /\ t.ok = u.ok /\ t.fits = u.fits /\ t.bypass = u.bypass /\ t.factor = u.factor
        /\ t.taps = u.taps /\ t.gov = u.gov /\ t.filt = u.filt /\ t.bw = u.bw
        /\ t.analog = u.analog
    BY <2>3 DEF BbFields
  <2> HIDE DEF t
  <2>5. /\ u.rate = y.rate /\ u.ok = y.ok /\ u.fits = y.fits /\ u.bypass = y.bypass
        /\ u.factor = y.factor /\ u.taps = y.taps /\ u.gov = y.gov /\ u.filt = y.filt
        /\ u.bw = y.bw /\ u.analog = y.analog
    BY <2>2 DEF SameButChip, BbFields
  <2>6. BbTyped(t)
    BY <2>2, <2>4 DEF BbTyped
  <2>7. SettingsKept(x, t)
    BY <1>1, <2>4, <2>5 DEF SettingsKept
  <2>8. t.timing = TimingFor(t)
    BY <2>4 DEF TimingFor, GetRate
  <2>9. Remembers(u) => Remembers(t)
    BY <2>4 DEF Remembers
  <2>10. WordGood(y) => WordGood(t)
    BY <2>2, <2>4 DEF WordGood
  <2>11. WordGood(x) /\ Remembers(x) /\ t.fits => Remembers(t)
    BY <1>1, <1>3, <2>2, <2>4, <2>5, <2>9
  <2>12. ASSUME t.fits, WordGood(x), Remembers(x) PROVE Switched(t)
    <3>1. y.fits
      BY <2>4, <2>5, <2>12
    <3>2. \A s \in Sides : SideReady(y, s, Factor(y, s))
      BY <1>1, <1>3, <2>12, <3>1
    <3>3. Fits(x, ch)
      BY <1>1, <3>1
    <3>4. \A s \in Sides : Factor(x, s) # 0 /\ Factor(y, s) = Factor(x, s)
      <4>1. Factor(x, "RX") # 0 /\ Factor(x, "TX") # 0
        <5>1. ch.rx[5] \in Int /\ ch.tx[5] \in Int
          BY DEF ChainTyped
        <5>2. 0 * ch.rx[5] = 0 /\ 0 * ch.tx[5] = 0
          BY <5>1
        <5> QED
          BY <3>3, <5>2 DEF Fits
      <4> QED
        BY <4>1, <1>1 DEF SettingsKept, Factor, Sides
    <3>5. ASSUME NEW s \in Sides PROVE t.bypass[s] <=> t.chip.code[s] = 0
      <4>1. t.bypass[s] = y.bypass[s] /\ y.bypass[s] \in BOOLEAN /\ y.factor[s] \in Nat
        BY <1>1, <2>4, <2>5 DEF BbTyped
      <4>2. CASE y.bypass[s]
        BY <4>1, <4>2, <2>2, <2>4
      <4>3. CASE ~y.bypass[s] /\ y.factor[s] = 1
        BY <4>1, <4>3, <2>2, <2>4
      <4>4. CASE ~y.bypass[s] /\ y.factor[s] # 1
        <5>1. Factor(y, s) = y.factor[s] /\ y.factor[s] > 1
          BY <3>4, <4>1, <4>4 DEF Factor
        <5>2. y.chip.code[s] # 0
          BY <5>1, <3>2, <4>4 DEF SideReady
        <5> QED
          BY <5>2, <4>1, <4>4, <2>2, <2>4
      <4> QED
        BY <4>1, <4>2, <4>3, <4>4
    <3> QED
      BY <3>5 DEF Switched
  <2>13. ASSUME AllBypassed(x), Remembers(x), locks PROVE AllBypassed(t) /\ Remembers(t)
    <3>1. AllBypassed(y) /\ Remembers(y)
      BY <1>1, <2>13
    <3>2. t.chip = y.chip /\ t.rate = y.rate /\ t.bypass = y.bypass
      BY <2>2, <2>4, <2>5, <3>1 DEF AllBypassed
    <3> QED
      BY <3>1, <3>2 DEF AllBypassed, Remembers
  <2>14. Keeps(x, t)
    BY <1>1, <2>4, <2>5, <2>6, <2>10, <2>11 DEF Keeps
  <2>15. t.ok => x.ok
    BY <1>1, <2>4, <2>5
  <2>16. TrxSet(x, ch, locks, t)
    BY <1>1, <2>7, <2>8, <2>10, <2>12, <2>13, <2>14, <2>15, Zenon DEF TrxSet
  <2> QED
    BY <2>16, <1>3 DEF t, u
<1> QED
  BY <1>2, <1>3

LEMMA FailDoes ==
  ASSUME NEW x, BbTyped(x)
  PROVE  /\ Keeps(x, Fail(x)) /\ SettingsKept(x, Fail(x)) /\ ~Fail(x).ok
         /\ Fail(x).chip = x.chip /\ Fail(x).rate = x.rate /\ Fail(x).timing = x.timing
         /\ Fail(x).fits = x.fits
<1> DEFINE z == Fail(x)
<1>1. /\ DOMAIN z = BbFields /\ z.chip = x.chip /\ z.rate = x.rate /\ z.timing = x.timing
      /\ z.ok = FALSE /\ z.fits = x.fits /\ z.bypass = x.bypass /\ z.factor = x.factor
      /\ z.taps = x.taps /\ z.gov = x.gov /\ z.filt = x.filt /\ z.bw = x.bw
      /\ z.analog = x.analog
  BY DEF Fail, BbTyped, BbFields
<1> HIDE DEF z
<1>2. BbTyped(z)
  BY <1>1 DEF BbTyped
<1>3. WordGood(x) => WordGood(z)
  BY <1>1 DEF WordGood
<1>4. Remembers(x) => Remembers(z)
  BY <1>1 DEF Remembers
<1>5. Keeps(x, z) /\ SettingsKept(x, z)
  BY <1>1, <1>2, <1>3, <1>4 DEF Keeps, SettingsKept
<1> QED
  BY <1>1, <1>5 DEF z

LEMMA SetTrxClockChainDoes ==
  ASSUME NEW x, BbTyped(x), NEW ch, ChainTyped(ch), NEW locks \in BOOLEAN
  PROVE  TrxSet(x, ch, locks, SetTrxClockChain(x, ch, locks))
<1>1. CASE ~ValidChain(ch, wiring)
  <2> DEFINE z == Fail(x)
  <2>1. SetTrxClockChain(x, ch, locks) = z
    BY <1>1 DEF SetTrxClockChain
  <2>2. /\ Keeps(x, z) /\ SettingsKept(x, z) /\ ~z.ok /\ z.chip = x.chip /\ z.rate = x.rate
    BY FailDoes
  <2> HIDE DEF z
  <2>3. AllBypassed(x) /\ Remembers(x) => AllBypassed(z) /\ Remembers(z)
    BY <2>2 DEF AllBypassed, Remembers, SettingsKept
  <2>4. TrxSet(x, ch, locks, z)
    BY <1>1, <2>2, <2>3, Zenon DEF TrxSet
  <2> QED
    BY <2>1, <2>4
<1>2. CASE ValidChain(ch, wiring)
  <2> DEFINE e == SetChain(x, ch, x.bypass, locks)
             y == [e EXCEPT !.fits = x.fits /\ Fits(x, ch) /\ Locked(x, e, locks)]
  <2>1. SetTrxClockChain(x, ch, locks) = IF y.ok THEN Timed(EnableFilters(y)) ELSE y
    BY <1>2 DEF SetTrxClockChain
  <2>2. Noted(x, ch, locks, y)
    <3> HIDE DEF e
    <3> QED
      BY NotedIs DEF e
  <2> HIDE DEF y
  <2>3. TrxSet(x, ch, locks, IF y.ok THEN Timed(EnableFilters(y)) ELSE y)
    BY <2>2, FinishDoes
  <2> QED
    BY <2>1, <2>3
<1> QED
  BY <1>1, <1>2

\* The analog filters and the ADC are tuned for the clocks and the bandwidths.
AnalogRight(z) ==
  z.analog = AnalogFor(Recalc(z.chip)["BBPLL"], Recalc(z.chip)["ADC"], z.bw["RX"], z.bw["TX"])
\* All but the tuning and its bandwidths
TuningOnly(x, z) ==
  /\ z.chip = x.chip /\ z.rate = x.rate /\ z.timing = x.timing /\ z.fits = x.fits
  /\ z.bypass = x.bypass /\ z.factor = x.factor /\ z.taps = x.taps /\ z.gov = x.gov
  /\ z.filt = x.filt
Retuned(x, z) ==
  /\ Keeps(x, z) /\ TuningOnly(x, z)
  /\ z.ok => x.ok
  /\ z.ok /\ Remembers(x) => AnalogRight(z)

TuneDone(x, a, new, z) ==
  /\ BbTyped(z) /\ TuningOnly(x, z)
  /\ z.ok => x.ok
  /\ z.ok => z.analog = a /\ z.bw = new
LEMMA TunedIs ==
  ASSUME NEW x, BbTyped(x), NEW a, NEW new, NEW cal \in {"ok", "rx", "tx", "quad"}
  PROVE  TuneDone(x, a, new, Tuned(x, a, new, cal))
<1> DEFINE z == Tuned(x, a, new, cal)
<1>0. DOMAIN x = BbFields /\ x.ok \in BOOLEAN
  BY DEF BbTyped
<1> DEFINE Fields(y) ==
      /\ DOMAIN y = BbFields /\ y.chip = x.chip /\ y.rate = x.rate /\ y.timing = x.timing
      /\ y.fits = x.fits /\ y.bypass = x.bypass /\ y.factor = x.factor /\ y.taps = x.taps
      /\ y.gov = x.gov /\ y.filt = x.filt
<1>1. ASSUME cal = "ok"
      PROVE  Fields(z) /\ z.ok \in BOOLEAN /\ (z.ok => x.ok /\ z.analog = a /\ z.bw = new)
  <2>1. z = [x EXCEPT !.analog = a, !.bw = new]
    BY <1>1, Zenon DEF Tuned, Fail
  <2> HIDE DEF z
  <2>2. Fields(z)
    BY <2>1, <1>0 DEF BbFields
  <2>3. z.ok = x.ok /\ z.analog = a /\ z.bw = new
    BY <2>1, <1>0 DEF BbFields
  <2>4. z.ok \in BOOLEAN /\ (z.ok => x.ok /\ z.analog = a /\ z.bw = new)
    BY <2>3, <1>0
  <2> QED
    BY <2>2, <2>4 DEF z
<1>2. ASSUME cal = "quad"
      PROVE  Fields(z) /\ z.ok \in BOOLEAN /\ (z.ok => x.ok /\ z.analog = a /\ z.bw = new)
  <2>1. z = [[x EXCEPT !.ok = FALSE] EXCEPT !.analog = a, !.bw = new]
    BY <1>2, Zenon DEF Tuned, Fail
  <2> HIDE DEF z
  <2>2. Fields(z)
    BY <2>1, <1>0 DEF BbFields
  <2>3. z.ok = FALSE
    BY <2>1, <1>0 DEF BbFields
  <2>4. z.ok \in BOOLEAN /\ (z.ok => x.ok /\ z.analog = a /\ z.bw = new)
    BY <2>3, <1>0
  <2> QED
    BY <2>2, <2>4 DEF z
<1>3. ASSUME cal = "rx"
      PROVE  Fields(z) /\ z.ok \in BOOLEAN /\ (z.ok => x.ok /\ z.analog = a /\ z.bw = new)
  <2>1. z = [[x EXCEPT !.ok = FALSE] EXCEPT !.analog.rx = a.rx]
    BY <1>3, Zenon DEF Tuned, Fail
  <2> HIDE DEF z
  <2>2. Fields(z)
    BY <2>1, <1>0 DEF BbFields
  <2>3. z.ok = FALSE
    BY <2>1, <1>0 DEF BbFields
  <2>4. z.ok \in BOOLEAN /\ (z.ok => x.ok /\ z.analog = a /\ z.bw = new)
    BY <2>3, <1>0
  <2> QED
    BY <2>2, <2>4 DEF z
<1>4. ASSUME cal = "tx"
      PROVE  Fields(z) /\ z.ok \in BOOLEAN /\ (z.ok => x.ok /\ z.analog = a /\ z.bw = new)
  <2>1. z = [[x EXCEPT !.ok = FALSE] EXCEPT !.analog.rx = a.rx, !.analog.tx = a.tx]
    BY <1>4, Zenon DEF Tuned, Fail
  <2> HIDE DEF z
  <2>2. Fields(z)
    BY <2>1, <1>0 DEF BbFields
  <2>3. z.ok = FALSE
    BY <2>1, <1>0 DEF BbFields
  <2>4. z.ok \in BOOLEAN /\ (z.ok => x.ok /\ z.analog = a /\ z.bw = new)
    BY <2>3, <1>0
  <2> QED
    BY <2>2, <2>4 DEF z
<1>5. Fields(z) /\ z.ok \in BOOLEAN /\ (z.ok => x.ok /\ z.analog = a /\ z.bw = new)
  <2> HIDE DEF z, Fields
  <2> QED
    BY <1>1, <1>2, <1>3, <1>4
<1> HIDE DEF z
<1>6. BbTyped(z) /\ TuningOnly(x, z)
  BY <1>5 DEF BbTyped, TuningOnly
<1> QED
  BY <1>5, <1>6 DEF TuneDone, z

\* What clk_get_rate gives of the PLL and of the ADC, which the PLL drives
LEMMA GetRateIs ==
  ASSUME NEW x
  PROVE  /\ GetRate(x, "BBPLL") = BbpllRate(x.chip.word, x.chip.ref)
         /\ GetRate(x, "ADC") = Down(x.rate["BBPLL"], "ADC", x.chip.code)
BY DEF GetRate, Parent

LEMMA RetuneDoes ==
  ASSUME NEW x, BbTyped(x), NEW rx, NEW tx, NEW cal \in {"ok", "rx", "tx", "quad"}
  PROVE  /\ Retuned(x, Retune(x, rx, tx, cal))
         /\ Retune(x, rx, tx, cal).ok => Retune(x, rx, tx, cal).bw = [RX |-> rx, TX |-> tx]
<1> DEFINE bbpll == BbpllRate(x.chip.word, x.chip.ref)
           adc == Down(x.rate["BBPLL"], "ADC", x.chip.code)
           a == AnalogFor(bbpll, adc, rx, tx)
           new == [RX |-> rx, TX |-> tx]
           z == Tuned(x, a, new, cal)
<1>1. Retune(x, rx, tx, cal) = z
  BY GetRateIs DEF Retune
<1>2. new["RX"] = rx /\ new["TX"] = tx
  OBVIOUS
<1> HIDE DEF bbpll, adc, new
<1>3. /\ BbTyped(z) /\ TuningOnly(x, z)
      /\ z.ok => x.ok
      /\ z.ok => z.analog = a /\ z.bw = new
  <2>1. TuneDone(x, a, new, z)
    BY TunedIs
  <2> HIDE DEF z, a
  <2> QED
    BY <2>1 DEF TuneDone
<1> HIDE DEF z
<1>4. Keeps(x, z)
  BY <1>3 DEF Keeps, TuningOnly, WordGood, Remembers
<1>5. ASSUME z.ok, Remembers(x) PROVE AnalogRight(z)
  <2>1. Follows(Recalc(x.chip), x.chip)
    BY RecalcIs DEF BbTyped
  <2>2. Recalc(x.chip)["BBPLL"] = bbpll /\ x.rate = Recalc(x.chip)
    BY <2>1, <1>5 DEF Follows, bbpll, Remembers
  <2>3. Recalc(x.chip)["ADC"] = adc
    BY <2>1, <2>2, StagesAre, Parents DEF Follows, adc, Ten
  <2>4. z.chip = x.chip
    BY <1>3 DEF TuningOnly
  <2>5. z.bw["RX"] = rx /\ z.bw["TX"] = tx /\ z.analog = AnalogFor(bbpll, adc, rx, tx)
    BY <1>2, <1>3, <1>5
  <2> QED
    BY <2>2, <2>3, <2>4, <2>5, Zenon DEF AnalogRight
<1>6. Retuned(x, z) /\ (z.ok => z.bw = new)
  BY <1>3, <1>4, <1>5, Zenon DEF Retuned
<1> QED
  BY <1>1, <1>6 DEF new

LEMMA RetuneIfOkDoes ==
  ASSUME NEW x, BbTyped(x), NEW cal \in {"ok", "rx", "tx", "quad"}
  PROVE  Retuned(x, RetuneIfOk(x, cal))
<1>1. CASE x.ok
  BY <1>1, RetuneDoes DEF RetuneIfOk
<1>2. CASE ~x.ok
  <2>1. RetuneIfOk(x, cal) = x
    BY <1>2 DEF RetuneIfOk
  <2>2. Keeps(x, x) /\ TuningOnly(x, x)
    BY DEF Keeps, TuningOnly
  <2> QED
    BY <1>2, <2>1, <2>2, Zenon DEF Retuned
<1> QED
  BY <1>1, <1>2

-----------------------------------------------------------------------------
(* The calculated chains.                                                  *)

LEMMA LeastIs ==
  ASSUME NEW S \in SUBSET (0..6), S # {}
  PROVE  Least(S) \in S
<1>1. \E x \in S : \A y \in S : x <= y
  <2>1. \A y \in S : y \in 0..6
    OBVIOUS
  <2>2. 0 \in S \/ 1 \in S \/ 2 \in S \/ 3 \in S \/ 4 \in S \/ 5 \in S \/ 6 \in S
    <3>1. PICK y : y \in S
      OBVIOUS
    <3>2. y = 0 \/ y = 1 \/ y = 2 \/ y = 3 \/ y = 4 \/ y = 5 \/ y = 6
      BY <2>1, <3>1
    <3> QED
      BY <3>1, <3>2
  <2> QED
    BY <2>1, <2>2
<1> QED
  BY <1>1, Zenon DEF Least

LEMMA GreatestIs ==
  ASSUME NEW S \in SUBSET (1..6), S # {}
  PROVE  (CHOOSE k \in S : \A l \in S : l <= k) \in S
<1>1. \E k \in S : \A l \in S : l <= k
  <2>1. \A y \in S : y \in 1..6
    OBVIOUS
  <2>2. 1 \in S \/ 2 \in S \/ 3 \in S \/ 4 \in S \/ 5 \in S \/ 6 \in S
    <3>1. PICK y : y \in S
      OBVIOUS
    <3>2. y = 1 \/ y = 2 \/ y = 3 \/ y = 4 \/ y = 5 \/ y = 6
      BY <2>1, <3>1
    <3> QED
      BY <3>1, <3>2
  <2> QED
    BY <2>1, <2>2
<1> QED
  BY <1>1, Zenon

LEMMA BbpllForInt ==
  ASSUME NEW adc \in Int
  PROVE  BbpllFor(adc) \in Int
<1> DEFINE fit == {k \in 1..6 : adc * 2^k <= MAX_BBPLL_FREQ}
           top == CHOOSE k \in fit : \A l \in fit : l <= k
           e == IF fit = {} THEN 1 ELSE top
<1>1. e \in 1..6
  <2>1. fit \in SUBSET (1..6)
    OBVIOUS
  <2> HIDE DEF fit
  <2>2. fit # {} => top \in fit
    BY <2>1, GreatestIs
  <2>3. fit # {} => top \in 1..6
    <3> HIDE DEF top
    <3> QED
      BY <2>1, <2>2
  <2>4. fit = {} => e = 1
    OBVIOUS
  <2>5. fit # {} => e = top
    OBVIOUS
  <2> HIDE DEF top, e
  <2> QED
    BY <2>3, <2>4, <2>5
<1>2. BbpllFor(adc) = adc * 2^e
  BY DEF BbpllFor
<1> HIDE DEF e
<1>3. 2^e \in Int
  <2>1. e = 1 \/ e = 2 \/ e = 3 \/ e = 4 \/ e = 5 \/ e = 6
    BY <1>1
  <2>2. CASE e = 1 BY <2>2, Powers
  <2>3. CASE e = 2 BY <2>3, Powers
  <2>4. CASE e = 3 BY <2>4, Powers
  <2>5. CASE e = 4 BY <2>5, Powers
  <2>6. CASE e = 5 BY <2>6, Powers
  <2>7. CASE e = 6 BY <2>7, Powers
  <2> QED
    BY <2>1, <2>2, <2>3, <2>4, <2>5, <2>6, <2>7
<1> QED
  BY <1>2, <1>3

LEMMA RowsAre ==
  ASSUME NEW i \in 0..6
  PROVE  \A j \in 1..4 : Row(i)[j] \in Nat /\ Row(i)[j] > 0
<1>1. i \in {0, 1, 2, 3, 4, 5, 6}
  OBVIOUS
<1>2. /\ Row(0) = <<12, 3, 2, 2>> /\ Row(1) = <<8, 2, 2, 2>> /\ Row(2) = <<6, 3, 1, 2>>
      /\ Row(3) = <<4, 2, 2, 1>> /\ Row(4) = <<3, 3, 1, 1>> /\ Row(5) = <<2, 2, 1, 1>>
      /\ Row(6) = <<1, 1, 1, 1>>
  <2>1. 0 + 1 = 1 /\ 1 + 1 = 2 /\ 2 + 1 = 3 /\ 3 + 1 = 4 /\ 4 + 1 = 5 /\ 5 + 1 = 6 /\ 6 + 1 = 7
    OBVIOUS
  <2> QED
    BY <2>1 DEF Row, ClkDividers
<1> TAKE j \in 1..4
<1>3. j \in {1, 2, 3, 4}
  OBVIOUS
<1>4. CASE i = 0
  BY <1>2, <1>3, <1>4
<1>5. CASE i = 1
  BY <1>2, <1>3, <1>5
<1>6. CASE i = 2
  BY <1>2, <1>3, <1>6
<1>7. CASE i = 3
  BY <1>2, <1>3, <1>7
<1>8. CASE i = 4
  BY <1>2, <1>3, <1>8
<1>9. CASE i = 5
  BY <1>2, <1>3, <1>9
<1>10. CASE i = 6
  BY <1>2, <1>3, <1>10
<1> QED
  BY <1>1, <1>4, <1>5, <1>6, <1>7, <1>8, <1>9, <1>10

LEMMA DivInt ==
  ASSUME NEW x \in Int, NEW d \in Nat, d > 0
  PROVE  x \div d \in Int
OBVIOUS

LEMMA DividedTyped ==
  ASSUME NEW from \in Int, NEW i \in 0..6, NEW factor \in Nat, factor > 0
  PROVE  Divided(from, Row(i), factor) \in [1..5 -> Int]
<1> DEFINE r2 == from \div Row(i)[2]
           r1 == r2 \div Row(i)[3]
           clk == r1 \div Row(i)[4]
           out == clk \div factor
<1>1. \A j \in {2, 3, 4} : Row(i)[j] \in Nat /\ Row(i)[j] > 0
  BY RowsAre
<1>2. r2 \in Int
  BY <1>1
<1> HIDE DEF r2
<1>3. r1 \in Int
  BY <1>1, <1>2
<1> HIDE DEF r1
<1>4. clk \in Int
  BY <1>1, <1>3
<1> HIDE DEF clk
<1>5. out \in Int
  BY <1>4
<1> HIDE DEF out
<1>6. Divided(from, Row(i), factor) = <<from, r2, r1, clk, out>>
  BY DEF Divided, r2, r1, clk, out
<1>7. \A j \in 1..5 : j \in {1, 2, 3, 4, 5}
  OBVIOUS
<1> DEFINE t == <<from, r2, r1, clk, out>>
<1>8. DOMAIN t = 1..5 /\ t[1] = from /\ t[2] = r2 /\ t[3] = r1 /\ t[4] = clk /\ t[5] = out
  OBVIOUS
<1>9. t = [j \in 1..5 |-> t[j]]
  BY <1>8
<1>10. \A j \in 1..5 : t[j] \in Int
  BY <1>2, <1>3, <1>4, <1>5, <1>7, <1>8
<1> HIDE DEF t
<1>11. t \in [1..5 -> Int]
  BY <1>9, <1>10
<1> QED
  BY <1>6, <1>11 DEF t

\* What the calculation returns is a chain, or none.
LEMMA CalculateTyped ==
  ASSUME NEW f \in Int, NEW gov \in {0, 1}, NEW dec \in Nat, dec > 0, NEW int \in Nat, int > 0,
         NEW twice
  PROVE  LET ch == Calculate(f, gov, dec, int, twice) IN ch = NoChain \/ ChainTyped(ch)
<1> DEFINE clkrf == f * dec * (IF twice THEN 2 ELSE 1)
           clktf == f * int
           good == {g \in Tries(f, gov, dec) : Try(g, clkrf, clktf) # <<>>}
           t == FirstTry(good, clkrf, clktf)
           ch == ChainOf(t, clkrf, dec, int)
<1>1. Calculate(f, gov, dec, int, twice) = NoChain \/ Calculate(f, gov, dec, int, twice) = ch
  BY DEF Calculate, CalculateFor
<1>2. clkrf \in Int
  OBVIOUS
<1>3. good \in SUBSET (0..6)
  <2>1. Tries(f, gov, dec) \in SUBSET (0..6)
    BY DEF Tries
  <2> HIDE DEF clkrf, clktf
  <2> QED
    BY <2>1
<1> HIDE DEF clkrf, clktf
<1>4. ASSUME t # <<>> PROVE t[1] \in 0..6 /\ t[2] \in 0..6
  <2> DEFINE g == Least(good)
             rows == RowsFrom(g, clkrf)
             i == Least(rows)
             j == IndexTx(i, (clkrf * Row(i)[1]) % Word, (clktf * Row(i)[1]) % Word)
  <2>1. good # {} /\ t = Try(g, clkrf, clktf)
    <3> HIDE DEF good
    <3> QED
      BY <1>4, Zenon DEF FirstTry
  <2>2. g \in 0..6
    <3>1. g \in good
      <4> HIDE DEF good
      <4> QED
        BY <1>3, <2>1, LeastIs
    <3> HIDE DEF good
    <3> QED
      BY <1>3, <3>1
  <2> HIDE DEF g, t
  <2>3. rows \in SUBSET (0..6)
    BY <2>2 DEF RowsFrom
  <2>4. rows # {} /\ t = TryRow(i, clkrf, clktf)
    <3> HIDE DEF rows
    <3>1. t = IF rows = {} THEN <<>> ELSE TryRow(Least(rows), clkrf, clktf)
      BY <2>1 DEF Try, TryFirst, rows
    <3> QED
      BY <3>1, <1>4, Zenon
  <2>5. i \in 0..6
    <3> HIDE DEF rows
    <3> QED
      BY <2>3, <2>4, LeastIs
  <2>6. t = IF j \in 0..6 THEN <<i, j>> ELSE <<>>
    BY <2>4, Zenon DEF TryRow
  <2> HIDE DEF i, j
  <2>7. j \in 0..6 /\ t = <<i, j>>
    BY <2>6, <1>4, Zenon
  <2> QED
    BY <2>5, <2>7
<1>5. ASSUME t # <<>> PROVE ChainTyped(ch)
  <2> DEFINE adc == (clkrf * Row(t[1])[1]) % Word
             from == IF adc <= MAX_DAC_CLK THEN adc ELSE adc \div 2
             rx == Divided(adc, Row(t[1]), dec)
             tx == Divided(from, Row(t[2]), int)
  <2>1. adc \in Int
    <3>1. 1 \in 1..4
      OBVIOUS
    <3> DEFINE r == Row(t[1])[1]
    <3>2. r \in Nat
      BY <1>4, <1>5, <3>1, RowsAre
    <3> HIDE DEF r
    <3>3. clkrf * r \in Int
      BY <1>2, <3>2
    <3>4. (clkrf * r) % Word \in Int
      BY <3>3 DEF Word
    <3> QED
      BY <3>4 DEF r
  <2>2. ch = [bb |-> BbpllFor(adc), rx |-> rx, tx |-> tx]
    <3> HIDE DEF t
    <3> QED
      BY <1>5, Zenon DEF ChainOf, ChainAt
  <2> HIDE DEF adc, t
  <2>3. from \in Int
    BY <2>1
  <2> HIDE DEF from
  <2>4. rx \in [1..5 -> Int] /\ tx \in [1..5 -> Int]
    BY <1>4, <1>5, <2>1, <2>3, DividedTyped
  <2>5. BbpllFor(adc) \in Int
    BY <2>1, BbpllForInt
  <2> HIDE DEF rx, tx, ch
  <2> QED
    BY <2>2, <2>4, <2>5 DEF ChainTyped
<1>6. ASSUME t = <<>> PROVE ch = NoChain
  <2> HIDE DEF t
  <2> QED
    BY <1>6, Zenon DEF ChainOf
<1> HIDE DEF ch, t
<1> QED
  BY <1>1, <1>5, <1>6

LEMMA ChainForTyped ==
  ASSUME NEW x, BbTyped(x), x.gov \in {0, 1}, Factor(x, "RX") > 0, Factor(x, "TX") > 0,
         NEW f \in Int
  PROVE  ChainFor(x, f) = NoChain \/ ChainTyped(ChainFor(x, f))
<1> DEFINE dec == Factor(x, "RX")
           int == Factor(x, "TX")
<1>1. dec \in Nat /\ int \in Nat /\ dec > 0 /\ int > 0
  BY DEF Factor, BbTyped, Sides
<1>2. ChainFor(x, f) = Calculate(f, x.gov, dec, int, wiring.twice)
  BY DEF ChainFor
<1> HIDE DEF dec, int
<1> QED
  BY <1>1, <1>2, CalculateTyped

-----------------------------------------------------------------------------
(* The calls.                                                              *)

\* A filter in the path has a factor, the governor is one of two, and the chain of a
\* file is a chain.
Ready(x) ==
  /\ x.gov \in {0, 1}
  /\ \A s \in Sides : ~x.bypass[s] => x.factor[s] > 0
  /\ x.filt.valid => ChainTyped(x.filt.clks)
\* What a call that sets no clock leaves alone
Untouched(x, z) ==
  /\ z.chip = x.chip /\ z.rate = x.rate /\ z.timing = x.timing /\ z.fits = x.fits
  /\ z.bypass = x.bypass /\ z.bw = x.bw /\ z.analog = x.analog

LEMMA UntouchedKeeps ==
  ASSUME NEW x, NEW z, BbTyped(z), Untouched(x, z)
  PROVE  Keeps(x, z)
BY DEF Untouched, Keeps, WordGood, Remembers

\* ad9361_set_rx_fir_config and its like for the transmitter
Configured(x, z) ==
  /\ BbTyped(z) /\ Untouched(x, z) /\ z.gov = x.gov /\ z.filt = x.filt
  /\ Ready(x) => Ready(z)
LEMMA SetFirConfigDoes ==
  ASSUME NEW x, BbTyped(x), NEW s \in Sides, NEW factor \in Nat, factor > 0, NEW taps
  PROVE  Configured(x, SetFirConfig(x, s, factor, taps))
<1> DEFINE u == [x EXCEPT !.factor[s] = factor]
           z == LoadFir(u, s, taps)
<1>1. /\ DOMAIN u = BbFields /\ u.factor = [x.factor EXCEPT ![s] = factor] /\ Untouched(x, u)
      /\ u.gov = x.gov /\ u.filt = x.filt /\ u.ok = x.ok
  BY DEF BbTyped, BbFields, Untouched
<1> HIDE DEF u
<1>2. /\ DOMAIN z = BbFields /\ z.factor = u.factor /\ Untouched(u, z)
      /\ z.gov = u.gov /\ z.filt = u.filt
  <2>1. CASE z = Fail(u)
    <3> HIDE DEF z
    <3> QED
      BY <1>1, <2>1 DEF Fail, BbFields, Untouched
  <2>2. CASE z = [u EXCEPT !.taps[s] = taps]
    <3> HIDE DEF z
    <3> QED
      BY <1>1, <2>2 DEF BbFields, Untouched
  <2> QED
    BY <2>1, <2>2 DEF LoadFir
<1>3. z.ok \in BOOLEAN
  <2>1. z = Fail(u) \/ z = [u EXCEPT !.taps[s] = taps]
    BY DEF LoadFir
  <2> HIDE DEF z
  <2> QED
    BY <1>1, <2>1 DEF Fail, BbTyped, BbFields
<1>4. SetFirConfig(x, s, factor, taps) = z
  BY DEF SetFirConfig, u
<1> HIDE DEF z
<1>5. z.factor \in [Sides -> Nat] /\ Untouched(x, z)
  BY <1>1, <1>2 DEF BbTyped, Untouched
<1>6. BbTyped(z)
  BY <1>2, <1>3, <1>5 DEF BbTyped, Untouched
<1>7. Ready(x) => Ready(z)
  <2>1. \A t \in Sides : z.factor[t] = IF t = s THEN factor ELSE x.factor[t]
    BY <1>1, <1>2 DEF BbTyped
  <2> QED
    BY <1>1, <1>2, <1>5, <2>1 DEF Ready, Untouched
<1>8. Configured(x, z)
  BY <1>1, <1>2, <1>5, <1>6, <1>7 DEF Configured
<1> QED
  BY <1>4, <1>8

\* A result is dropped.
LEMMA OkAgain ==
  ASSUME NEW x, BbTyped(x), NEW b \in BOOLEAN
  PROVE  LET z == [x EXCEPT !.ok = b]
         IN /\ Configured(x, z) /\ z.ok = b /\ z.factor = x.factor /\ z.taps = x.taps
<1> DEFINE z == [x EXCEPT !.ok = b]
<1>1. /\ DOMAIN z = BbFields /\ z.factor = x.factor /\ Untouched(x, z) /\ z.taps = x.taps
      /\ z.gov = x.gov /\ z.filt = x.filt /\ z.ok = b
  BY DEF BbTyped, BbFields, Untouched
<1> HIDE DEF z
<1>2. BbTyped(z)
  BY <1>1 DEF BbTyped, Untouched
<1>3. Ready(x) => Ready(z)
  BY <1>1 DEF Ready, Untouched
<1>4. Configured(x, z)
  BY <1>1, <1>2, <1>3 DEF Configured
<1> QED
  BY <1>1, <1>4 DEF z

LEMMA KeepsAgain ==
  ASSUME NEW x, NEW y, NEW z, Keeps(x, y), Keeps(y, z)
  PROVE  Keeps(x, z)
BY DEF Keeps

\* What a call that was granted and set a chain has done.
ChainGranted(x, z) ==
  /\ z.ok => z.timing = TimingFor(z)
  /\ z.ok /\ Remembers(z) => AnalogRight(z)
  /\ z.ok /\ z.fits /\ WordGood(x) /\ Remembers(x) => Switched(z)
SettingsAlone(x, z) ==
  z.bypass = x.bypass /\ z.factor = x.factor /\ z.gov = x.gov /\ z.filt = x.filt

LEMMA GrantedByRetune ==
  ASSUME NEW x, NEW ch, NEW locks, NEW y, BbTyped(y), TrxSet(x, ch, locks, y), NEW z,
         Retuned(y, z)
  PROVE  Keeps(x, z) /\ ChainGranted(x, z) /\ SettingsAlone(x, z)
<1>1. /\ Keeps(x, y) /\ SettingsKept(x, y)
      /\ y.ok => x.ok /\ y.timing = TimingFor(y)
      /\ y.ok /\ y.fits /\ WordGood(x) /\ Remembers(x) => Switched(y)
  BY Zenon DEF TrxSet
<1>2. /\ Keeps(y, z) /\ TuningOnly(y, z)
      /\ z.ok => y.ok
      /\ z.ok /\ Remembers(y) => AnalogRight(z)
  BY Zenon DEF Retuned
<1>3. Keeps(x, z)
  BY <1>1, <1>2, KeepsAgain
<1>4. SettingsAlone(x, z)
  BY <1>1, <1>2 DEF SettingsAlone, SettingsKept, TuningOnly
<1>5. Remembers(z) <=> Remembers(y)
  BY <1>2 DEF Remembers, TuningOnly
<1>6. z.timing = y.timing /\ TimingFor(z) = TimingFor(y) /\ z.fits = y.fits
  BY <1>2 DEF TimingFor, GetRate, TuningOnly
<1>7. Switched(y) => Switched(z)
  BY <1>2 DEF Switched, TuningOnly
<1>8. ChainGranted(x, z)
  BY <1>1, <1>2, <1>5, <1>6, <1>7, Zenon DEF ChainGranted
<1> QED
  BY <1>3, <1>4, <1>8

\* ad9361_validate_enable_fir
LEMMA EnableFirWithDoes ==
  ASSUME NEW x, BbTyped(x), NEW ch, FactorsFit(x) => ch = NoChain \/ ChainTyped(ch),
         NEW locks \in BOOLEAN, NEW cal \in {"ok", "rx", "tx", "quad"}
  PROVE  LET z == EnableFirWith(x, ch, locks, cal)
         IN Keeps(x, z) /\ ChainGranted(x, z) /\ SettingsAlone(x, z) /\ (z.ok => FactorsFit(x))
<1> DEFINE z == EnableFirWith(x, ch, locks, cal)
           y == SetTrxClockChain(x, ch, locks)
           rx == IF FirUsesFile(x) THEN x.filt.rxBw ELSE x.bw["RX"]
           tx == IF FirUsesFile(x) THEN x.filt.txBw ELSE x.bw["TX"]
<1>1. CASE z = Fail(x)
  <2>1. /\ Keeps(x, Fail(x)) /\ SettingsKept(x, Fail(x)) /\ ~Fail(x).ok
    BY FailDoes
  <2> DEFINE v == Fail(x)
  <2> HIDE DEF v
  <2>2. Keeps(x, v) /\ SettingsKept(x, v) /\ ~v.ok /\ z = v
    BY <1>1, <2>1 DEF v
  <2> HIDE DEF z
  <2>3. ChainGranted(x, z) /\ SettingsAlone(x, z)
    BY <2>2 DEF ChainGranted, SettingsKept, SettingsAlone
  <2> QED
    BY <2>2, <2>3 DEF z
<1>2. CASE FactorsFit(x) /\ ch # NoChain /\ TapsFitChain(x, ch)
  <2>1. ChainTyped(ch)
    BY <1>2
  <2>2. TrxSet(x, ch, locks, y)
    BY <2>1, SetTrxClockChainDoes
  <2>3. BbTyped(y)
    <3> HIDE DEF y
    <3> QED
      BY <2>2 DEF TrxSet, Keeps
  <2>4. z = IF y.ok THEN Retune(y, rx, tx, cal) ELSE y
    BY <1>2 DEF EnableFirWith
  <2> HIDE DEF rx, tx, y, z
  <2>5. Retuned(y, z)
    <3>1. CASE y.ok
      BY <2>3, <2>4, <3>1, RetuneDoes
    <3>2. CASE ~y.ok
      <4>1. z = y
        BY <2>4, <3>2
      <4>2. Keeps(y, y) /\ TuningOnly(y, y)
        BY <2>3 DEF Keeps, TuningOnly
      <4> QED
        BY <4>1, <4>2, <3>2, Zenon DEF Retuned
    <3> QED
      BY <3>1, <3>2
  <2>6. Keeps(x, z) /\ ChainGranted(x, z) /\ SettingsAlone(x, z)
    BY <2>2, <2>3, <2>5, GrantedByRetune
  <2> QED
    BY <2>6, <1>2 DEF z
<1>3. z = Fail(x) \/ (FactorsFit(x) /\ ch # NoChain /\ TapsFitChain(x, ch))
  <2> HIDE DEF y
  <2> QED
    BY DEF EnableFirWith
<1> QED
  BY <1>1, <1>2, <1>3

\* What clk_get_rate gives is a number.
LEMMA GetRateTyped ==
  ASSUME NEW x, BbTyped(x)
  PROVE  GetRate(x, "BBPLL") \in Int /\ \A s \in Stages : GetRate(x, s) \in Int
<1>1. Follows(Recalc(x.chip), x.chip)
  BY RecalcIs DEF BbTyped
<1>2. Recalc(x.chip)["BBPLL"] \in Int
  BY <1>1 DEF Follows, Clocks
<1>3. GetRate(x, "BBPLL") \in Int
  BY <1>1, <1>2, GetRateIs DEF Follows
<1>4. ASSUME NEW s \in Stages PROVE GetRate(x, s) \in Int
  <2>1. s # "BBPLL" /\ Parent(s) \in Clocks
    BY StagesAre, Parents DEF Ten, Clocks
  <2>2. x.rate[Parent(s)] \in Int /\ x.chip \in ChipSet
    BY <2>1 DEF BbTyped
  <2> QED
    BY <2>1, <2>2, DownInt DEF GetRate
<1> QED
  BY <1>3, <1>4

LEMMA ValidateEnableFirDoes ==
  ASSUME NEW x, BbTyped(x), x.gov \in {0, 1}, x.filt.valid => ChainTyped(x.filt.clks),
         NEW locks \in BOOLEAN, NEW cal \in {"ok", "rx", "tx", "quad"}
  PROVE  LET z == ValidateEnableFir(x, locks, cal)
         IN Keeps(x, z) /\ ChainGranted(x, z) /\ SettingsAlone(x, z) /\ (z.ok => FactorsFit(x))
<1> DEFINE ch == FirChain(x)
<1>1. ASSUME FactorsFit(x) PROVE ch = NoChain \/ ChainTyped(ch)
  <2>1. Factor(x, "RX") > 0 /\ Factor(x, "TX") > 0
    BY <1>1 DEF FactorsFit, Factor, Sides
  <2>2. GetRate(x, "TX") \in Int
    BY GetRateTyped, StagesAre DEF Ten
  <2>3. \A f \in Int : ChainFor(x, f) = NoChain \/ ChainTyped(ChainFor(x, f))
    BY <2>1, ChainForTyped
  <2>4. CASE FirUsesFile(x)
    BY <2>4 DEF FirChain, FirUsesFile
  <2>5. CASE ~FirUsesFile(x)
    <3>1. ch = OrSlowest(ChainFor(x, GetRate(x, "TX")), x)
      BY <2>5 DEF FirChain
    <3>2. 150 \in Int /\ 100 \in Int
      OBVIOUS
    <3>3. ch = ChainFor(x, GetRate(x, "TX")) \/ ch = ChainFor(x, 150) \/ ch = ChainFor(x, 100)
      BY <3>1 DEF OrSlowest
    <3> HIDE DEF ch
    <3> QED
      BY <3>2, <3>3, <2>2, <2>3
  <2> QED
    BY <2>4, <2>5
<1> HIDE DEF ch
<1>2. ValidateEnableFir(x, locks, cal) = EnableFirWith(x, ch, locks, cal)
  BY DEF ValidateEnableFir, ch
<1> QED
  BY <1>1, <1>2, EnableFirWithDoes

\* The sides S are switched, unless they are as they should be.
Asleep(x, S, on) == \A s \in S : x.bypass[s] = ~on
FirSwitched(x, S, on, z) ==
  /\ Keeps(x, z)
  /\ Ready(x) => Ready(z)
  /\ Asleep(x, S, on) => z = x
  /\ ~Asleep(x, S, on) => ChainGranted(x, z)

LEMMA SetFirEnableDoes ==
  ASSUME NEW x, BbTyped(x), Ready(x), NEW S \in SUBSET Sides, NEW on \in BOOLEAN,
         NEW locks \in BOOLEAN, NEW cal \in {"ok", "rx", "tx", "quad"}
  PROVE  FirSwitched(x, S, on, SetFirEnable(x, S, on, locks, cal))
<1>1. CASE Asleep(x, S, on)
  <2>1. SetFirEnable(x, S, on, locks, cal) = x
    BY <1>1 DEF SetFirEnable, Asleep
  <2>2. Keeps(x, x)
    BY DEF Keeps
  <2> QED
    BY <2>1, <2>2, <1>1, Zenon DEF FirSwitched
<1>2. CASE ~Asleep(x, S, on)
  <2> DEFINE byp == [s \in Sides |-> IF s \in S THEN ~on ELSE x.bypass[s]]
             w == [x EXCEPT !.bypass = byp]
             y == ValidateEnableFir(w, locks, cal)
             back == [s \in Sides |-> s \in S \/ y.bypass[s]]
             z == BypassedUnlessOk(y, S)
  <2>1. SetFirEnable(x, S, on, locks, cal) = z
    BY <1>2 DEF SetFirEnable, Asleep
  <2>2. byp \in [Sides -> BOOLEAN] /\ \A s \in Sides \ S : byp[s] = x.bypass[s]
    BY DEF BbTyped
  <2>3. /\ DOMAIN w = BbFields /\ w.bypass = byp /\ w.chip = x.chip /\ w.rate = x.rate
        /\ w.ok = x.ok /\ w.fits = x.fits /\ w.factor = x.factor /\ w.gov = x.gov
        /\ w.filt = x.filt
    <3> HIDE DEF byp
    <3> QED
      BY DEF BbTyped, BbFields
  <2> HIDE DEF byp, w
  <2>4. BbTyped(w)
    BY <2>2, <2>3 DEF BbTyped
  <2>5. w.gov \in {0, 1} /\ (w.filt.valid => ChainTyped(w.filt.clks))
    BY <2>3 DEF Ready
  <2>6. Keeps(w, y) /\ ChainGranted(w, y) /\ SettingsAlone(w, y) /\ (y.ok => FactorsFit(w))
    BY <2>4, <2>5, ValidateEnableFirDoes
  <2> HIDE DEF y
  <2>7. /\ Remembers(x) <=> Remembers(w)
        /\ WordGood(x) <=> WordGood(w)
    BY <2>3 DEF Remembers, WordGood
  <2>8. Keeps(x, y) /\ ChainGranted(x, y) /\ BbTyped(y)
    BY <2>3, <2>6, <2>7 DEF Keeps, ChainGranted
  <2>9. CASE y.ok
    <3>1. z = y
      BY <2>9 DEF BypassedUnlessOk
    <3>2. Ready(y)
      <4>1. \A s \in Sides : ~y.bypass[s] => y.factor[s] > 0
        BY <2>6, <2>9 DEF FactorsFit, SettingsAlone
      <4> QED
        BY <2>3, <2>6, <4>1 DEF Ready, SettingsAlone
    <3> HIDE DEF z
    <3> QED
      BY <2>1, <2>8, <3>1, <3>2, <1>2 DEF FirSwitched
  <2>10. CASE ~y.ok
    <3>1. z = [y EXCEPT !.bypass = back]
      BY <2>10 DEF BypassedUnlessOk
    <3> HIDE DEF z
    <3>2. back \in [Sides -> BOOLEAN] /\ \A s \in Sides : back[s] <=> s \in S \/ y.bypass[s]
      BY <2>8 DEF BbTyped
    <3> HIDE DEF back
    <3>3. /\ DOMAIN z = BbFields /\ z.bypass = back /\ z.chip = y.chip /\ z.rate = y.rate
          /\ z.ok = y.ok /\ z.fits = y.fits /\ z.factor = y.factor /\ z.gov = y.gov
          /\ z.filt = y.filt
      BY <2>8, <3>1 DEF BbTyped, BbFields
    <3>4. BbTyped(z)
      BY <2>8, <3>2, <3>3 DEF BbTyped
    <3>5. Keeps(x, z)
      BY <2>8, <3>3, <3>4 DEF Keeps, WordGood, Remembers
    <3>6. Ready(z)
      <4>1. ASSUME NEW s \in Sides, ~z.bypass[s] PROVE z.factor[s] > 0
        <5>1. s \notin S /\ ~y.bypass[s]
          BY <4>1, <3>2, <3>3
        <5>2. ~x.bypass[s]
          BY <5>1, <2>2, <2>3, <2>6 DEF SettingsAlone
        <5> QED
          BY <5>2, <2>3, <2>6, <3>3 DEF Ready, SettingsAlone
      <4> QED
        BY <4>1, <2>3, <2>6, <3>3 DEF Ready, SettingsAlone
    <3>7. ChainGranted(x, z)
      BY <2>10, <3>3 DEF ChainGranted
    <3>8. FirSwitched(x, S, on, z)
      BY <3>5, <3>6, <3>7, <1>2, Zenon DEF FirSwitched
    <3> QED
      BY <2>1, <3>8
  <2> QED
    BY <2>9, <2>10, <2>8 DEF BbTyped
<1> QED
  BY <1>1, <1>2

-----------------------------------------------------------------------------
(* The invariant.                                                          *)

BbInv ==
  /\ BbTyped(bb) /\ Ready(bb) /\ bb.fits /\ WordGood(bb)
  /\ {bbLost, bbSteady, bbWhole, bbSuits} \subseteq BOOLEAN
  /\ bbLost <=> ~Remembers(bb)
  /\ bbWhole /\ bbSuits /\ ~bbLost => Switched(bb)
  /\ bbSteady /\ ~bbLost => AnalogRight(bb)
  /\ bbWhole /\ ~bbLost => bb.timing = TimingFor(bb)

\* What the end of any call makes of the radio and of what is noted.
LEMMA EndIs ==
  ASSUME BbInv, NEW x, Keeps(bb, x), Ready(x), NEW set, NEW want, Ends(x, set, want)
  PROVE  /\ BbTyped(bb)' /\ Ready(bb)' /\ bb'.fits /\ WordGood(bb)'
         /\ bbLost' \in BOOLEAN
         /\ bbLost' <=> ~Remembers(bb)'
         /\ Remembers(bb)' <=> Remembers(x)
         /\ bb'.chip = x.chip /\ bb'.rate = x.rate /\ bb'.bypass = x.bypass
         /\ bb'.timing = x.timing /\ bb'.analog = x.analog /\ bb'.bw = x.bw
         /\ x.ok \in BOOLEAN /\ x.fits \in BOOLEAN
<1>1. bb' = [x EXCEPT !.ok = TRUE, !.fits = TRUE]
  BY DEF Ends
<1>2. BbTyped(x)
  BY DEF Keeps
<1>3. /\ DOMAIN bb' = BbFields /\ bb'.ok = TRUE /\ bb'.fits = TRUE
      /\ bb'.chip = x.chip /\ bb'.rate = x.rate /\ bb'.bypass = x.bypass /\ bb'.gov = x.gov
      /\ bb'.timing = x.timing /\ bb'.analog = x.analog /\ bb'.bw = x.bw
      /\ bb'.factor = x.factor /\ bb'.filt = x.filt
  BY <1>1, <1>2 DEF BbTyped, BbFields
<1>4. BbTyped(bb')
  BY <1>2, <1>3 DEF BbTyped
<1>5. Ready(bb')
  BY <1>3 DEF Ready
<1>6. WordGood(bb')
  BY <1>3 DEF WordGood, Keeps, BbInv
<1>7. Remembers(bb') <=> Remembers(x)
  BY <1>3 DEF Remembers
<1>8. bbLost' = ((bbLost \/ ~x.fits) /\ x.rate # Recalc(x.chip))
  BY DEF Ends
<1>9. Remembers(x) <=> x.rate = Recalc(x.chip)
  BY DEF Remembers
<1>10. ~bbLost /\ x.fits => Remembers(x)
  BY DEF BbInv, Keeps
<1>11. bbLost' <=> ~Remembers(bb')
  BY <1>7, <1>8, <1>9, <1>10
<1>12. bbLost' \in BOOLEAN /\ x.ok \in BOOLEAN /\ x.fits \in BOOLEAN
  BY <1>2, <1>8 DEF BbTyped
<1>13. BbTyped(bb)' /\ Ready(bb)' /\ WordGood(bb)' /\ (Remembers(bb)' <=> Remembers(bb'))
  BY <1>4, <1>5, <1>6 DEF Remembers
<1> QED
  BY <1>3, <1>7, <1>11, <1>12, <1>13

\* The parts that hold of a radio and its copy
LEMMA PartsAre ==
  ASSUME NEW x, NEW y, y.chip = x.chip, y.rate = x.rate, y.bypass = x.bypass,
         y.timing = x.timing, y.analog = x.analog, y.bw = x.bw
  PROVE  /\ Switched(x) => Switched(y)
         /\ AnalogRight(x) => AnalogRight(y)
         /\ x.timing = TimingFor(x) => y.timing = TimingFor(y)
<1>1. Switched(x) => Switched(y)
  BY DEF Switched
<1>2. AnalogRight(x) => AnalogRight(y)
  BY DEF AnalogRight
<1>3. x.timing = TimingFor(x) => y.timing = TimingFor(y)
  BY DEF TimingFor, GetRate
<1> QED
  BY <1>1, <1>2, <1>3

LEMMA ChainEnds ==
  ASSUME BbInv, NEW x, Keeps(bb, x), Ready(x), ChainGranted(bb, x), NEW want, Ends(x, "chain", want)
  PROVE  BbInv'
<1>1. /\ BbTyped(bb)' /\ Ready(bb)' /\ bb'.fits /\ WordGood(bb)'
      /\ bbLost' \in BOOLEAN
      /\ bbLost' <=> ~Remembers(bb)'
      /\ Remembers(bb)' <=> Remembers(x)
      /\ bb'.chip = x.chip /\ bb'.rate = x.rate /\ bb'.bypass = x.bypass
      /\ bb'.timing = x.timing /\ bb'.analog = x.analog /\ bb'.bw = x.bw
      /\ x.ok \in BOOLEAN /\ x.fits \in BOOLEAN
  BY EndIs, Zenon
<1>2. bbSteady' = x.ok /\ bbWhole' = x.ok /\ bbSuits' = (x.fits /\ ~bbLost)
  BY DEF Ends
<1>3. {bbLost', bbSteady', bbWhole', bbSuits'} \subseteq BOOLEAN
  BY <1>1, <1>2
<1>4. /\ Switched(x) => Switched(bb')
      /\ AnalogRight(x) => AnalogRight(bb')
      /\ x.timing = TimingFor(x) => bb'.timing = TimingFor(bb')
  BY <1>1, PartsAre
<1>5. x.ok /\ ~bbLost' => AnalogRight(bb') /\ bb'.timing = TimingFor(bb')
  BY <1>1, <1>4 DEF ChainGranted
<1>6. x.ok /\ x.fits /\ ~bbLost => Switched(bb')
  BY <1>4 DEF ChainGranted, BbInv
<1>7. /\ AnalogRight(bb') <=> AnalogRight(bb)'
      /\ Switched(bb') <=> Switched(bb)'
      /\ TimingFor(bb') = TimingFor(bb)'
  BY DEF AnalogRight, Switched, TimingFor, GetRate
<1> QED
  BY <1>1, <1>2, <1>3, <1>5, <1>6, <1>7 DEF BbInv

LEMMA FiltersEnd ==
  ASSUME BbInv, NEW x, Retuned(bb, x), Ready(x), NEW want, Ends(x, "filters", want)
  PROVE  BbInv'
<1>0. Keeps(bb, x) /\ TuningOnly(bb, x) /\ (x.ok /\ Remembers(bb) => AnalogRight(x))
  BY DEF Retuned
<1>1. /\ BbTyped(bb)' /\ Ready(bb)' /\ bb'.fits /\ WordGood(bb)'
      /\ bbLost' \in BOOLEAN
      /\ bbLost' <=> ~Remembers(bb)'
      /\ Remembers(bb)' <=> Remembers(x)
      /\ bb'.chip = x.chip /\ bb'.rate = x.rate /\ bb'.bypass = x.bypass
      /\ bb'.timing = x.timing /\ bb'.analog = x.analog /\ bb'.bw = x.bw
      /\ x.ok \in BOOLEAN /\ x.fits \in BOOLEAN
  BY <1>0, EndIs, Zenon
<1>2. bbSteady' = x.ok /\ bbWhole' = bbWhole /\ bbSuits' = bbSuits
  BY DEF Ends
<1>3. {bbLost', bbSteady', bbWhole', bbSuits'} \subseteq BOOLEAN
  BY <1>1, <1>2 DEF BbInv
<1>4. Remembers(x) <=> Remembers(bb)
  BY <1>0 DEF TuningOnly, Remembers
<1>5. ~bbLost' => ~bbLost
  BY <1>1, <1>4 DEF BbInv
<1>6. AnalogRight(x) => AnalogRight(bb')
  BY <1>1, PartsAre
<1>7. /\ Switched(bb) => Switched(bb')
      /\ bb.timing = TimingFor(bb) => bb'.timing = TimingFor(bb')
  BY <1>0, <1>1 DEF Switched, TimingFor, GetRate, TuningOnly
<1>8. /\ AnalogRight(bb') <=> AnalogRight(bb)'
      /\ Switched(bb') <=> Switched(bb)'
      /\ TimingFor(bb') = TimingFor(bb)'
  BY DEF AnalogRight, Switched, TimingFor, GetRate
<1>9. x.ok /\ ~bbLost' => AnalogRight(bb')
  BY <1>0, <1>1, <1>4, <1>6
<1> QED
  BY <1>1, <1>2, <1>3, <1>5, <1>7, <1>8, <1>9 DEF BbInv

LEMMA NothingEnds ==
  ASSUME BbInv, NEW x, BbTyped(x), Untouched(bb, x), Ready(x), NEW want, Ends(x, "nothing", want)
  PROVE  BbInv'
<1>0. Keeps(bb, x)
  BY UntouchedKeeps
<1>1. /\ BbTyped(bb)' /\ Ready(bb)' /\ bb'.fits /\ WordGood(bb)'
      /\ bbLost' \in BOOLEAN
      /\ bbLost' <=> ~Remembers(bb)'
      /\ Remembers(bb)' <=> Remembers(x)
      /\ bb'.chip = x.chip /\ bb'.rate = x.rate /\ bb'.bypass = x.bypass
      /\ bb'.timing = x.timing /\ bb'.analog = x.analog /\ bb'.bw = x.bw
      /\ x.ok \in BOOLEAN /\ x.fits \in BOOLEAN
  BY <1>0, EndIs, Zenon
<1>2. bbSteady' = bbSteady /\ bbWhole' = bbWhole /\ bbSuits' = bbSuits
  BY DEF Ends
<1>3. {bbLost', bbSteady', bbWhole', bbSuits'} \subseteq BOOLEAN
  BY <1>1, <1>2 DEF BbInv
<1>4. Remembers(x) <=> Remembers(bb)
  BY DEF Untouched, Remembers
<1>5. ~bbLost' => ~bbLost
  BY <1>1, <1>4 DEF BbInv
<1>6. /\ Switched(bb) => Switched(bb')
      /\ AnalogRight(bb) => AnalogRight(bb')
      /\ bb.timing = TimingFor(bb) => bb'.timing = TimingFor(bb')
  <2>1. /\ bb'.chip = bb.chip /\ bb'.rate = bb.rate /\ bb'.bypass = bb.bypass
        /\ bb'.timing = bb.timing /\ bb'.analog = bb.analog /\ bb'.bw = bb.bw
    BY <1>1 DEF Untouched
  <2> QED
    BY <2>1, PartsAre
<1>7. /\ AnalogRight(bb') <=> AnalogRight(bb)'
      /\ Switched(bb') <=> Switched(bb)'
      /\ TimingFor(bb') = TimingFor(bb)'
  BY DEF AnalogRight, Switched, TimingFor, GetRate
<1> QED
  BY <1>1, <1>2, <1>3, <1>5, <1>6, <1>7 DEF BbInv

LEMMA ReadyAlone ==
  ASSUME NEW x, NEW z, Ready(x), SettingsAlone(x, z)
  PROVE  Ready(z)
BY DEF Ready, SettingsAlone

LEMMA ChainsTyped ==
  /\ \A ch \in ClockChains : ChainTyped(ch)
  /\ \A d : BbTyped(d) => ChainTyped(GetChain(d))
<1>1. ASSUME NEW ch \in ClockChains PROVE ChainTyped(ch)
  <2>1. ch.bb \in Nat /\ ch.rx \in [1..5 -> Nat] /\ ch.tx \in [1..5 -> Nat]
    BY DEF ClockChains
  <2> QED
    BY <2>1 DEF ChainTyped
<1>2. ASSUME NEW d, BbTyped(d) PROVE ChainTyped(GetChain(d))
  <2>1. GetRate(d, "BBPLL") \in Int /\ \A s \in Stages : GetRate(d, s) \in Int
    BY <1>2, GetRateTyped
  <2>2. \A i \in 1..5 : RxStages[i] \in Stages /\ TxStages[i] \in Stages
    BY DEF Stages
  <2>3. [i \in 1..5 |-> GetRate(d, RxStages[i])] \in [1..5 -> Int]
    BY <2>1, <2>2
  <2>4. [i \in 1..5 |-> GetRate(d, TxStages[i])] \in [1..5 -> Int]
    BY <2>1, <2>2
  <2> QED
    BY <2>1, <2>3, <2>4 DEF GetChain, ChainTyped
<1> QED
  BY <1>1, <1>2

LEMMA CalsAre == \A cal \in Cals : cal \in {"ok", "rx", "tx", "quad"}
BY BasebandAssumption DEF BasebandAssumption

LEMMA DroppedDoes ==
  ASSUME NEW x, BbTyped(x)
  PROVE  LET z == Dropped(x)
         IN Configured(x, z) /\ z.ok = TRUE /\ z.factor = x.factor /\ z.taps = x.taps
<1> TRUE \in BOOLEAN
  OBVIOUS
<1> QED
  BY OkAgain DEF Dropped

LEMMA BothOkDoes ==
  ASSUME NEW x, NEW y, BbTyped(y)
  PROVE  LET z == BothOk(x, y)
         IN Configured(y, z) /\ z.factor = y.factor /\ (z.ok <=> y.ok /\ x.ok)
<1> DEFINE b == (y.ok /\ x.ok)
<1>1. b \in BOOLEAN
  OBVIOUS
<1>2. BothOk(x, y) = [y EXCEPT !.ok = b]
  BY DEF BothOk
<1>3. b <=> y.ok /\ x.ok
  OBVIOUS
<1> HIDE DEF b
<1> QED
  BY <1>1, <1>2, <1>3, OkAgain

\* A chain whose result is dropped, and the tuning after it
LEMMA RetuneAnywayDoes ==
  ASSUME NEW x, BbTyped(x), Ready(x), NEW ch, NEW locks, NEW y, TrxSet(x, ch, locks, y),
         NEW cal \in Cals
  PROVE  LET z == RetuneAnyway(y, cal) IN Keeps(x, z) /\ Ready(z) /\ ChainGranted(x, z)
<1> DEFINE w == Dropped(y)
           r == RetuneIfOk(w, cal)
           z == BothOk(y, r)
<1>1. RetuneAnyway(y, cal) = z
  BY DEF RetuneAnyway
<1>2. /\ Keeps(x, y) /\ SettingsKept(x, y) /\ BbTyped(y)
      /\ y.ok => y.timing = TimingFor(y)
      /\ y.ok /\ y.fits /\ WordGood(x) /\ Remembers(x) => Switched(y)
  BY Zenon DEF TrxSet, Keeps
<1>3. BbTyped(w) /\ Untouched(y, w) /\ w.factor = y.factor /\ w.gov = y.gov /\ w.filt = y.filt
  BY <1>2, DroppedDoes DEF Configured
<1> HIDE DEF w
<1>4. Retuned(w, r)
  BY <1>3, RetuneIfOkDoes, CalsAre
<1> HIDE DEF r
<1>5. /\ Keeps(w, r) /\ TuningOnly(w, r) /\ BbTyped(r)
      /\ r.ok /\ Remembers(w) => AnalogRight(r)
  BY <1>4, Zenon DEF Retuned, Keeps
<1>6. /\ BbTyped(z) /\ Untouched(r, z) /\ z.factor = r.factor /\ z.gov = r.gov /\ z.filt = r.filt
      /\ z.ok <=> r.ok /\ y.ok
  BY <1>5, BothOkDoes DEF Configured
<1> HIDE DEF z
<1>7. Keeps(x, z)
  <2>1. Keeps(y, w) /\ Keeps(r, z)
    BY <1>3, <1>6, UntouchedKeeps
  <2> QED
    BY <2>1, <1>2, <1>5, KeepsAgain
<1>8. Ready(z)
  <2>1. z.gov = x.gov /\ z.filt = x.filt /\ z.factor = x.factor /\ z.bypass = x.bypass
    BY <1>2, <1>3, <1>5, <1>6 DEF SettingsKept, Untouched, TuningOnly
  <2> QED
    BY <2>1 DEF Ready
<1>9. /\ z.chip = y.chip /\ z.rate = y.rate /\ z.timing = y.timing /\ z.bypass = y.bypass
      /\ z.fits = y.fits
  BY <1>3, <1>5, <1>6 DEF Untouched, TuningOnly
<1>10. z.chip = r.chip /\ z.rate = r.rate /\ z.analog = r.analog /\ z.bw = r.bw
  BY <1>6 DEF Untouched
<1>11. Remembers(z) <=> Remembers(w)
  BY <1>3, <1>9 DEF Remembers, Untouched
<1>12. z.ok => z.timing = TimingFor(z)
  <2>1. TimingFor(z) = TimingFor(y)
    BY <1>9 DEF TimingFor, GetRate
  <2> QED
    BY <2>1, <1>2, <1>6, <1>9
<1>13. z.ok /\ Remembers(z) => AnalogRight(z)
  BY <1>5, <1>6, <1>10, <1>11 DEF AnalogRight
<1>14. z.ok /\ z.fits /\ WordGood(x) /\ Remembers(x) => Switched(z)
  BY <1>2, <1>6, <1>9 DEF Switched
<1>15. ChainGranted(x, z)
  BY <1>12, <1>13, <1>14, Zenon DEF ChainGranted
<1> QED
  BY <1>1, <1>7, <1>8, <1>15

LEMMA FreqsAre == \A f \in SamplFreqs : f \in Int
BY BasebandAssumption DEF BasebandAssumption

LEMMA ChainForFreq ==
  ASSUME BbTyped(bb), Ready(bb), NEW f \in SamplFreqs, ChainFor(bb, f) # NoChain
  PROVE  ChainTyped(ChainFor(bb, f))
<1>1. f \in Int
  BY FreqsAre
<1>2. Factor(bb, "RX") > 0 /\ Factor(bb, "TX") > 0 /\ bb.gov \in {0, 1}
  BY DEF Ready, Factor, Sides
<1> QED
  BY <1>1, <1>2, ChainForTyped

LEMMA SamplingFreqKeeps ==
  ASSUME BbInv, SetSamplingFreq, ~(UNCHANGED bbVars)
  PROVE  BbInv'
<1>1. PICK f \in SamplFreqs, locks \in BOOLEAN, cal \in Cals :
        /\ ChainFor(bb, f) # NoChain
        /\ Ends(RetuneAnyway(SetTrxClockChain(bb, ChainFor(bb, f), locks), cal),
                "chain", <<f, Factor(bb, "RX"), Factor(bb, "TX")>>)
  BY Zenon DEF SetSamplingFreq
<1> DEFINE ch == ChainFor(bb, f)
           y == SetTrxClockChain(bb, ch, locks)
           x == RetuneAnyway(y, cal)
           want == <<f, Factor(bb, "RX"), Factor(bb, "TX")>>
<1>2. ch # NoChain /\ Ends(x, "chain", want)
  BY <1>1
<1>3. ChainTyped(ch)
  BY <1>1, ChainForFreq DEF BbInv
<1> HIDE DEF ch, want
<1>4. TrxSet(bb, ch, locks, y)
  BY <1>3, SetTrxClockChainDoes DEF BbInv
<1> HIDE DEF y
<1>5. Keeps(bb, x) /\ Ready(x) /\ ChainGranted(bb, x)
  BY <1>4, RetuneAnywayDoes DEF BbInv
<1> HIDE DEF x
<1> QED
  BY <1>2, <1>5, ChainEnds


\* What the files and the filters asked for are
LEMMA Positive == ASSUME NEW n, NEW x \in 1..n PROVE x \in Nat /\ x > 0
OBVIOUS

LEMMA ConfigsAre == \A c \in FirConfig : /\ c.dec \in Nat /\ c.dec > 0
                                         /\ c.int \in Nat /\ c.int > 0
<1> SUFFICES ASSUME NEW c \in FirConfig
             PROVE  c.dec \in Nat /\ c.dec > 0 /\ c.int \in Nat /\ c.int > 0
  BY Zenon
<1>1. c.dec \in 1..255 /\ c.int \in 1..255
  BY Zenon DEF FirConfig
<1> QED
  BY <1>1, Positive, Zenon

LEMMA FilesAre ==
  /\ FirConfigs \subseteq FirConfig
  /\ \A p \in FilterFiles : p.cfg \in FirConfig /\ p.clks \in ClockChains
BY BasebandAssumption DEF BasebandAssumption

LEMMA TrxPathClksKeeps ==
  ASSUME BbInv, SetTrxPathClks
  PROVE  BbInv'
<1>1. PICK ch \in {GetChain(bb)} \cup {p.clks : p \in FilterFiles}, locks \in BOOLEAN,
           cal \in Cals :
        Ends(RetuneIfOk(SetTrxClockChain(bb, ch, locks), cal), "chain", <<>>)
  BY Zenon DEF SetTrxPathClks
<1> DEFINE y == SetTrxClockChain(bb, ch, locks)
           x == RetuneIfOk(y, cal)
<1>2. ChainTyped(ch)
  BY FilesAre, ChainsTyped DEF BbInv
<1>3. TrxSet(bb, ch, locks, y)
  BY <1>2, SetTrxClockChainDoes DEF BbInv
<1>4. Ends(x, "chain", <<>>)
  BY <1>1
<1> HIDE DEF y
<1>5. BbTyped(y)
  BY <1>3 DEF TrxSet, Keeps
<1>6. Retuned(y, x)
  BY <1>5, RetuneIfOkDoes, CalsAre
<1> HIDE DEF x
<1>7. Keeps(bb, x) /\ ChainGranted(bb, x) /\ SettingsAlone(bb, x)
  BY <1>3, <1>5, <1>6, GrantedByRetune
<1>8. Ready(x)
  BY <1>7, ReadyAlone DEF BbInv
<1> QED
  BY <1>4, <1>7, <1>8, ChainEnds

\* The bandwidth of a side
LEMMA RfBandwidthDoes ==
  ASSUME NEW x, BbTyped(x), NEW s, NEW b, NEW cal \in {"ok", "rx", "tx", "quad"}
  PROVE  LET z == RfBandwidth(x, s, b, cal)
         IN IF x.bw[s] = ValidBw(b) THEN z = x ELSE Retuned(x, z)
<1> DEFINE new == [x.bw EXCEPT ![s] = ValidBw(b)]
<1>1. RfBandwidth(x, s, b, cal) =
        IF x.bw[s] = ValidBw(b) THEN x ELSE Retune(x, new["RX"], new["TX"], cal)
  BY DEF RfBandwidth
<1> HIDE DEF new
<1>2. Retuned(x, Retune(x, new["RX"], new["TX"], cal))
  BY RetuneDoes
<1> QED
  BY <1>1, <1>2

LEMMA RfBandwidthKeeps ==
  ASSUME BbInv, SetRfBandwidth
  PROVE  BbInv'
<1>1. PICK b \in Bandwidths, s \in Sides, cal \in Cals :
        bb.bw[s] # ValidBw(b) /\ Ends(RfBandwidth(bb, s, b, cal), "filters", bbWant)
  BY Zenon DEF SetRfBandwidth
<1> DEFINE x == RfBandwidth(bb, s, b, cal)
<1>2. Ends(x, "filters", bbWant)
  BY <1>1
<1>3. Retuned(bb, x)
  BY <1>1, RfBandwidthDoes, CalsAre DEF BbInv
<1> HIDE DEF x
<1>4. Ready(x)
  BY <1>3 DEF Retuned, TuningOnly, Ready, BbInv
<1> QED
  BY <1>2, <1>3, <1>4, FiltersEnd

LEMMA RateGovKeeps ==
  ASSUME BbInv, SetRateGov
  PROVE  BbInv'
<1>1. PICK g \in {0, 1} : Ends([bb EXCEPT !.gov = g], "nothing", <<>>)
  BY Zenon DEF SetRateGov
<1> DEFINE x == [bb EXCEPT !.gov = g]
<1>2. /\ DOMAIN x = BbFields /\ Untouched(bb, x) /\ x.gov = g /\ x.filt = bb.filt
      /\ x.factor = bb.factor /\ x.ok = bb.ok
  BY DEF BbInv, BbTyped, BbFields, Untouched
<1>3. Ends(x, "nothing", <<>>)
  BY <1>1
<1> HIDE DEF x
<1>4. BbTyped(x) /\ Ready(x)
  BY <1>2 DEF BbInv, BbTyped, Untouched, Ready
<1> QED
  BY <1>2, <1>3, <1>4, NothingEnds

LEMMA SetFirKeeps ==
  ASSUME BbInv, SetFir
  PROVE  BbInv'
<1>1. PICK c \in FirConfigs, s \in Sides :
        Ends(SetFirConfig(bb, s, IF s = "RX" THEN c.dec ELSE c.int,
                          IF s = "RX" THEN c.rxTaps ELSE c.txTaps),
             "nothing", <<>>)
  BY Zenon DEF SetFir
<1> DEFINE factor == IF s = "RX" THEN c.dec ELSE c.int
           taps == IF s = "RX" THEN c.rxTaps ELSE c.txTaps
           x == SetFirConfig(bb, s, factor, taps)
<1>2. Ends(x, "nothing", <<>>)
  BY <1>1
<1>3. factor \in Nat /\ factor > 0
  BY FilesAre, ConfigsAre
<1> HIDE DEF factor, taps
<1>4. Configured(bb, x)
  BY <1>3, SetFirConfigDoes DEF BbInv
<1> HIDE DEF x
<1>5. BbTyped(x) /\ Untouched(bb, x) /\ Ready(x)
  BY <1>4 DEF Configured, BbInv
<1> QED
  BY <1>2, <1>5, NothingEnds

LEMMA SwitchFirKeeps ==
  ASSUME BbInv, SwitchFir
  PROVE  BbInv'
<1>1. PICK S \in {{"RX"}, {"TX"}, Sides}, on \in BOOLEAN, locks \in BOOLEAN, cal \in Cals :
        /\ \E s \in S : bb.bypass[s] = on
        /\ Ends(SetFirEnable(bb, S, on, locks, cal), "chain", <<>>)
  BY Zenon DEF SwitchFir
<1> DEFINE x == SetFirEnable(bb, S, on, locks, cal)
<1>2. Ends(x, "chain", <<>>)
  BY <1>1
<1>3. S \in SUBSET Sides
  BY DEF Sides
<1>4. ~Asleep(bb, S, on)
  BY <1>1, <1>3 DEF Asleep, BbInv, BbTyped
<1>5. FirSwitched(bb, S, on, x)
  BY <1>3, SetFirEnableDoes, CalsAre DEF BbInv
<1> HIDE DEF x
<1>6. Keeps(bb, x) /\ Ready(x) /\ ChainGranted(bb, x)
  BY <1>4, <1>5, Zenon DEF FirSwitched, BbInv
<1> QED
  BY <1>2, <1>6, ChainEnds

LEMMA ConfiguredAgain ==
  ASSUME NEW x, NEW y, NEW z, Configured(x, y), Configured(y, z)
  PROVE  Configured(x, z)
BY DEF Configured, Untouched

\* Both filters of a file
LEMMA LoadFileDoes ==
  ASSUME NEW x, BbTyped(x), NEW p \in FilterFiles
  PROVE  Configured(x, LoadFile(x, p))
<1> DEFINE t == SetFirConfig(x, "TX", p.cfg.int, p.cfg.txTaps)
           d == Dropped(t)
           z == SetFirConfig(d, "RX", p.cfg.dec, p.cfg.rxTaps)
<1>1. LoadFile(x, p) = z
  BY DEF LoadFile
<1>2. /\ p.cfg.dec \in Nat /\ p.cfg.dec > 0 /\ p.cfg.int \in Nat /\ p.cfg.int > 0
      /\ "RX" \in Sides /\ "TX" \in Sides
  BY FilesAre, ConfigsAre DEF Sides
<1>3. Configured(x, t)
  BY <1>2, SetFirConfigDoes
<1> HIDE DEF t
<1>4. Configured(t, d)
  BY <1>3, DroppedDoes DEF Configured
<1> HIDE DEF d
<1>5. Configured(d, z)
  BY <1>2, <1>4, SetFirConfigDoes DEF Configured
<1> HIDE DEF z
<1> QED
  BY <1>1, <1>3, <1>4, <1>5, ConfiguredAgain

\* What it says of them
LEMMA WithFileDoes ==
  ASSUME NEW x, BbTyped(x), Ready(x), NEW p \in FilterFiles, NEW valid
  PROVE  LET z == WithFile(x, p, valid)
         IN BbTyped(z) /\ Untouched(x, z) /\ Ready(z) /\ z.ok = x.ok /\ z.factor = x.factor
<1> DEFINE f == [valid |-> valid, clks |-> p.clks, rxBw |-> p.rxBw, txBw |-> p.txBw]
           z == [x EXCEPT !.filt = f]
<1>1. WithFile(x, p, valid) = z
  BY DEF WithFile
<1>2. f.clks = p.clks
  OBVIOUS
<1> HIDE DEF f
<1>3. /\ DOMAIN z = BbFields /\ z.factor = x.factor /\ Untouched(x, z)
      /\ z.gov = x.gov /\ z.filt = f /\ z.ok = x.ok
  BY DEF BbTyped, BbFields, Untouched
<1> HIDE DEF z
<1>4. BbTyped(z)
  BY <1>3 DEF BbTyped, Untouched
<1>5. ChainTyped(z.filt.clks)
  BY <1>2, <1>3, FilesAre, ChainsTyped
<1>6. Ready(z)
  BY <1>3, <1>5 DEF Ready, Untouched
<1> QED
  BY <1>1, <1>3, <1>4, <1>6

LEMMA ParseFirKeeps ==
  ASSUME BbInv, ParseFir
  PROVE  BbInv'
<1>1. PICK p \in FilterFiles :
        Ends(WithFile(LoadFile(bb, p), p, LoadFile(bb, p).ok), "nothing", <<>>)
  BY Zenon DEF ParseFir
<1> DEFINE y == LoadFile(bb, p)
           x == WithFile(y, p, y.ok)
<1>2. Ends(x, "nothing", <<>>)
  BY <1>1
<1>3. Configured(bb, y)
  BY LoadFileDoes DEF BbInv
<1> HIDE DEF y
<1>4. BbTyped(y) /\ Ready(y) /\ Untouched(bb, y)
  BY <1>3 DEF Configured, BbInv
<1>5. BbTyped(x) /\ Untouched(y, x) /\ Ready(x)
  BY <1>4, WithFileDoes
<1> HIDE DEF x
<1>6. Untouched(bb, x)
  BY <1>4, <1>5 DEF Untouched
<1> QED
  BY <1>2, <1>5, <1>6, NothingEnds

\* What is granted to the radio as it was before a filter was loaded
LEMMA GrantedAfter ==
  ASSUME NEW x, NEW y, NEW z, Keeps(x, y), z.fits => y.fits, ChainGranted(y, z)
  PROVE  ChainGranted(x, z)
<1>1. y.fits /\ WordGood(x) /\ Remembers(x) => WordGood(y) /\ Remembers(y)
  BY DEF Keeps
<1>2. z.ok /\ z.fits /\ WordGood(x) /\ Remembers(x) => Switched(z)
  BY <1>1 DEF ChainGranted
<1> QED
  BY <1>2 DEF ChainGranted

LEMMA LoadEnableFirKeeps ==
  ASSUME BbInv, LoadEnableFir
  PROVE  BbInv'
<1>1. PICK p \in FilterFiles, locks \in BOOLEAN, cal \in Cals :
        Ends(SetFirEnable(WithFile(Dropped(LoadFile(bb, p)), p, TRUE), Sides, TRUE, locks, cal),
             IF \A s \in Sides : ~bb.bypass[s] THEN "nothing" ELSE "chain", <<>>)
  BY Zenon DEF LoadEnableFir
<1> DEFINE y == LoadFile(bb, p)
           d == Dropped(y)
           w == WithFile(d, p, TRUE)
           x == SetFirEnable(w, Sides, TRUE, locks, cal)
           set == IF \A s \in Sides : ~bb.bypass[s] THEN "nothing" ELSE "chain"
<1>2. Ends(x, set, <<>>)
  BY <1>1
<1>3. Configured(bb, y)
  BY LoadFileDoes DEF BbInv
<1> HIDE DEF y
<1>4. Configured(y, d)
  BY <1>3, DroppedDoes DEF Configured
<1> HIDE DEF d
<1>5. BbTyped(d) /\ Ready(d) /\ Untouched(bb, d)
  BY <1>3, <1>4, ConfiguredAgain DEF Configured, BbInv
<1>6. BbTyped(w) /\ Untouched(d, w) /\ Ready(w)
  BY <1>5, WithFileDoes
<1> HIDE DEF w
<1>7. Untouched(bb, w)
  BY <1>5, <1>6 DEF Untouched
<1>8. FirSwitched(w, Sides, TRUE, x)
  BY <1>6, SetFirEnableDoes, CalsAre
<1> HIDE DEF x
<1>9. CASE \A s \in Sides : ~bb.bypass[s]
  <2>1. set = "nothing"
    BY <1>9
  <2>2. Asleep(w, Sides, TRUE)
    BY <1>9, <1>7, <1>6 DEF Asleep, Untouched, BbTyped
  <2>3. x = w
    BY <2>2, <1>8, Zenon DEF FirSwitched
  <2> QED
    BY <1>2, <2>1, <2>3, <1>6, <1>7, NothingEnds
<1>10. CASE ~(\A s \in Sides : ~bb.bypass[s])
  <2>1. set = "chain"
    BY <1>10
  <2>2. ~Asleep(w, Sides, TRUE)
    BY <1>10, <1>7 DEF Asleep, Untouched
  <2>3. Keeps(w, x) /\ Ready(x) /\ ChainGranted(w, x)
    BY <2>2, <1>6, <1>8, Zenon DEF FirSwitched
  <2>4. Keeps(bb, w)
    BY <1>6, <1>7, UntouchedKeeps
  <2>5. x.fits => w.fits
    BY <2>3 DEF Keeps
  <2>6. Keeps(bb, x) /\ ChainGranted(bb, x)
    BY <2>3, <2>4, <2>5, KeepsAgain, GrantedAfter
  <2> QED
    BY <1>2, <2>1, <2>3, <2>6, ChainEnds
<1> QED
  BY <1>9, <1>10

\* load_enable_fir_files, one filter after the other
LEMMA SwitchOnDoes ==
  ASSUME NEW x, BbTyped(x), Ready(x), NEW s \in Sides, NEW locks \in BOOLEAN
  PROVE  LET z == SwitchOn(x, s, locks) IN Keeps(x, z) /\ Ready(z)
<1> DEFINE y == SetFirEnable(x, {s}, TRUE, locks, "ok")
           z == Dropped(y)
<1>1. SwitchOn(x, s, locks) = z
  BY DEF SwitchOn
<1>2. {s} \in SUBSET Sides /\ TRUE \in BOOLEAN /\ "ok" \in {"ok", "rx", "tx", "quad"}
  OBVIOUS
<1>3. FirSwitched(x, {s}, TRUE, y)
  BY <1>2, SetFirEnableDoes
<1> HIDE DEF y
<1>4. Keeps(x, y) /\ Ready(y) /\ BbTyped(y)
  BY <1>3 DEF FirSwitched, Keeps
<1>5. Configured(y, z)
  BY <1>4, DroppedDoes
<1> HIDE DEF z
<1>6. Keeps(y, z) /\ Ready(z)
  BY <1>4, <1>5, UntouchedKeeps DEF Configured
<1> QED
  BY <1>1, <1>4, <1>6, KeepsAgain

LEMMA LoadAndSwitchDoes ==
  ASSUME NEW x, BbTyped(x), Ready(x), NEW p \in FilterFiles, NEW locks \in BOOLEAN
  PROVE  LET z == LoadAndSwitch(x, p, locks) IN Keeps(x, z) /\ Ready(z)
<1> DEFINE y == LoadFile(x, p)
           d == Dropped(y)
           t == SwitchOn(d, "TX", locks)
           z == SwitchOn(t, "RX", locks)
<1>1. LoadAndSwitch(x, p, locks) = z
  BY DEF LoadAndSwitch
<1>2. Configured(x, y)
  BY LoadFileDoes
<1> HIDE DEF y
<1>3. Configured(y, d)
  BY <1>2, DroppedDoes DEF Configured
<1> HIDE DEF d
<1>4. Keeps(x, d) /\ Ready(d)
  BY <1>2, <1>3, ConfiguredAgain, UntouchedKeeps DEF Configured
<1>5. Keeps(d, t) /\ Ready(t)
  BY <1>4, SwitchOnDoes DEF Keeps, Sides
<1> HIDE DEF t
<1>6. Keeps(t, z) /\ Ready(z)
  BY <1>5, SwitchOnDoes DEF Keeps, Sides
<1> HIDE DEF z
<1> QED
  BY <1>1, <1>4, <1>5, <1>6, KeepsAgain

LEMMA RfBandwidthLeaves ==
  ASSUME NEW x, BbTyped(x), Ready(x), NEW s, NEW b
  PROVE  LET z == RfBandwidth(x, s, b, "ok") IN Keeps(x, z) /\ Ready(z)
<1> DEFINE z == RfBandwidth(x, s, b, "ok")
<1>1. IF x.bw[s] = ValidBw(b) THEN z = x ELSE Retuned(x, z)
  BY RfBandwidthDoes
<1> HIDE DEF z
<1>2. CASE z = x
  BY <1>2 DEF Keeps, z
<1>3. CASE Retuned(x, z)
  BY <1>3 DEF Retuned, TuningOnly, Ready, z
<1> QED
  BY <1>1, <1>2, <1>3

LEMMA LoadEnableFirFilesKeeps ==
  ASSUME BbInv, LoadEnableFirFiles
  PROVE  BbInv'
<1>1. PICK p \in FilterFiles, locks \in BOOLEAN :
        \E x \in {LoadAndSwitch(bb, p, locks)} :
          \E y \in {RfBandwidth(RfBandwidth(x, "TX", p.txBw, "ok"), "RX", p.rxBw, "ok")} :
            Ends(RetuneIfOk(SetTrxClockChain(y, p.clks, locks), "ok"), "chain", <<>>)
  BY Zenon DEF LoadEnableFirFiles
<1> DEFINE x == LoadAndSwitch(bb, p, locks)
           t == RfBandwidth(x, "TX", p.txBw, "ok")
           y == RfBandwidth(t, "RX", p.rxBw, "ok")
           c == SetTrxClockChain(y, p.clks, locks)
           z == RetuneIfOk(c, "ok")
<1>2. Ends(z, "chain", <<>>)
  BY <1>1, Zenon
<1>3. Keeps(bb, x) /\ Ready(x)
  BY LoadAndSwitchDoes DEF BbInv
<1> HIDE DEF x
<1>4. Keeps(x, t) /\ Ready(t)
  BY <1>3, RfBandwidthLeaves DEF Keeps
<1> HIDE DEF t
<1>5. Keeps(t, y) /\ Ready(y) /\ BbTyped(y)
  BY <1>4, RfBandwidthLeaves DEF Keeps
<1> HIDE DEF y
<1>6. TrxSet(y, p.clks, locks, c)
  BY <1>5, FilesAre, ChainsTyped, SetTrxClockChainDoes
<1> HIDE DEF c
<1>7. BbTyped(c)
  BY <1>6 DEF TrxSet, Keeps
<1>8. Retuned(c, z)
  BY <1>7, RetuneIfOkDoes
<1> HIDE DEF z
<1>9. Keeps(y, z) /\ ChainGranted(y, z) /\ SettingsAlone(y, z)
  BY <1>6, <1>7, <1>8, GrantedByRetune
<1>10. Ready(z)
  BY <1>5, <1>9, ReadyAlone
<1>11. Keeps(bb, y)
  BY <1>3, <1>4, <1>5, KeepsAgain
<1>12. z.fits => y.fits
  BY <1>9 DEF Keeps
<1>13. Keeps(bb, z) /\ ChainGranted(bb, z)
  BY <1>9, <1>11, <1>12, KeepsAgain, GrantedAfter
<1> QED
  BY <1>2, <1>10, <1>13, ChainEnds

LEMMA StepKeeps ==
  ASSUME BbInv, [BbNext]_bbVars
  PROVE  BbInv'
<1>1. CASE UNCHANGED bbVars
  <2>1. /\ bb' = bb /\ wiring' = wiring /\ bbLost' = bbLost /\ bbSteady' = bbSteady
        /\ bbWhole' = bbWhole /\ bbSuits' = bbSuits
    BY <1>1 DEF bbVars
  <2>2. /\ BbTyped(bb)' = BbTyped(bb) /\ Ready(bb)' = Ready(bb) /\ WordGood(bb)' = WordGood(bb)
        /\ Remembers(bb)' = Remembers(bb) /\ Switched(bb)' = Switched(bb)
        /\ AnalogRight(bb)' = AnalogRight(bb) /\ TimingFor(bb)' = TimingFor(bb)
    BY <2>1 DEF BbTyped, Ready, WordGood, Remembers, Switched, AnalogRight, TimingFor, GetRate
  <2> QED
    BY <2>1, <2>2 DEF BbInv
<1>2. CASE ~(UNCHANGED bbVars)
  <2>1. BbNext
    BY <1>2, Zenon
  <2>2. CASE SetSamplingFreq
    BY <1>2, <2>2, SamplingFreqKeeps, Zenon
  <2>3. CASE SetTrxPathClks
    BY <2>3, TrxPathClksKeeps, Zenon
  <2>4. CASE SetRfBandwidth
    BY <2>4, RfBandwidthKeeps, Zenon
  <2>5. CASE SetRateGov
    BY <2>5, RateGovKeeps, Zenon
  <2>6. CASE SetFir
    BY <2>6, SetFirKeeps, Zenon
  <2>7. CASE SwitchFir
    BY <2>7, SwitchFirKeeps, Zenon
  <2>8. CASE ParseFir
    BY <2>8, ParseFirKeeps, Zenon
  <2>9. CASE LoadEnableFir
    BY <2>9, LoadEnableFirKeeps, Zenon
  <2>10. CASE LoadEnableFirFiles
    BY <2>10, LoadEnableFirFilesKeeps, Zenon
  <2> QED
    BY <2>1, <2>2, <2>3, <2>4, <2>5, <2>6, <2>7, <2>8, <2>9, <2>10, Zenon DEF BbNext
<1> QED
  BY <1>1, <1>2, Zenon

\* The chip out of reset
LEMMA NoCode == \A s \in Stages : 0 \in Codes(s)
BY DEF Codes

LEMMA NoDivision == \A s \in Stages : Divisor(s, 0) = 1
<1>1. 2^0 = 1
  BY Powers
<1> QED
  BY <1>1 DEF Divisor

LEMMA ResetIs ==
  LET x == OutOfReset
  IN /\ BbTyped(x) /\ Remembers(x) /\ AllBypassed(x) /\ x.ok /\ x.rate["BBPLL"] = 0
     /\ x.gov = 1 /\ x.filt.valid = FALSE
<1> DEFINE x == OutOfReset
           zero == [s \in Stages |-> 0]
           c == [word |-> <<0, 0>>, ref |-> 5200, code |-> zero]
           none == [s \in Clocks |-> 0]
           byp == [s \in Sides |-> TRUE]
           factor == [s \in Sides |-> 0]
<1>1. /\ DOMAIN x = BbFields /\ x.chip = c /\ x.rate = none /\ x.ok = TRUE /\ x.fits = TRUE
      /\ x.bypass = byp /\ x.factor = factor /\ x.gov = 1 /\ x.filt.valid = FALSE
  BY DEF OutOfReset, BbFields, Clocks
<1> HIDE DEF x
<1>2. zero \in CodeRows
  <2>1. zero \in [Stages -> 0..6] /\ \A s \in Stages : zero[s] = 0
    OBVIOUS
  <2> HIDE DEF zero
  <2> QED
    BY <2>1, NoCode DEF CodeRows
<1>3. \A s \in Stages : zero[s] = 0
  OBVIOUS
<1> HIDE DEF zero
<1>4. c \in ChipSet /\ c.word = <<0, 0>> /\ c.ref = 5200 /\ c.code = zero
  BY <1>2 DEF ChipSet
<1> HIDE DEF c
<1> DEFINE R == Recalc(c)
<1>5. Follows(R, c)
  BY <1>4, RecalcIs
<1> HIDE DEF R
<1>6. R \in [Clocks -> Int] /\ R["BBPLL"] = 0
  BY <1>4, <1>5 DEF Follows, BbpllRate, BBPLL_MODULUS
<1>7. \A s \in Stages : R[Parent(s)] = 0 => R[s] = 0
  <2>1. ASSUME NEW s \in Stages, R[Parent(s)] = 0 PROVE R[s] = 0
    <3>1. R[s] = Down(0, s, c.code)
      BY <2>1, <1>5 DEF Follows
    <3>2. Down(0, s, c.code) = RoundDiv(0, 1)
      BY <1>3, <1>4, NoDivision DEF Down
    <3> QED
      BY <3>1, <3>2 DEF RoundDiv
  <2> QED
    BY <2>1
<1>8. \A s \in Ten : R[s] = 0
  <2>1. R["ADC"] = 0
    BY <1>6, <1>7, Parents, StagesAre DEF Ten
  <2>2. R["DAC"] = 0 /\ R["R2"] = 0
    BY <2>1, <1>7, Parents, StagesAre DEF Ten
  <2>3. R["R1"] = 0 /\ R["T2"] = 0
    BY <2>2, <1>7, Parents, StagesAre DEF Ten
  <2>4. R["CLKRF"] = 0 /\ R["T1"] = 0
    BY <2>3, <1>7, Parents, StagesAre DEF Ten
  <2>5. R["RX"] = 0 /\ R["CLKTF"] = 0
    BY <2>4, <1>7, Parents, StagesAre DEF Ten
  <2>6. R["TX"] = 0
    BY <2>5, <1>7, Parents, StagesAre DEF Ten
  <2> QED
    BY <2>1, <2>2, <2>3, <2>4, <2>5, <2>6 DEF Ten
<1>9. R = none
  <2>1. \A s \in Clocks : R[s] = 0
    BY <1>6, <1>8, StagesAre DEF Clocks
  <2> QED
    BY <1>6, <2>1
<1>10. none \in [Clocks -> Int] /\ none["BBPLL"] = 0
  BY DEF Clocks
<1> HIDE DEF none
<1>11. /\ byp \in [Sides -> BOOLEAN] /\ factor \in [Sides -> Nat]
       /\ \A s \in Sides : byp[s] = TRUE
  OBVIOUS
<1> HIDE DEF byp, factor
<1>12. BbTyped(x)
  <2>1. x.ok \in BOOLEAN /\ x.fits \in BOOLEAN
    BY <1>1
  <2>2. x.chip \in ChipSet /\ x.rate \in [Clocks -> Int]
    BY <1>1, <1>4, <1>10
  <2>3. x.bypass \in [Sides -> BOOLEAN] /\ x.factor \in [Sides -> Nat]
    BY <1>1, <1>11
  <2> QED
    BY <2>1, <2>2, <2>3, <1>1, Zenon DEF BbTyped
<1>13. Remembers(x)
  BY <1>1, <1>9 DEF Remembers, R
<1>14. AllBypassed(x)
  <2>1. \A s \in Sides : s \in Stages
    BY StagesAre DEF Sides, Ten
  <2> QED
    BY <2>1, <1>1, <1>3, <1>4, <1>11 DEF AllBypassed
<1> QED
  BY <1>1, <1>10, <1>12, <1>13, <1>14 DEF x

\* The chain of main.c suits every wiring.
LEMMA DefaultIs ==
  ASSUME wiring \in Wirings
  PROVE  ValidChain(DefaultChain, wiring) /\ ChainTyped(DefaultChain) /\ DefaultChain.bb # 0
<1> DEFINE ch == DefaultChain
<1>1. /\ ch.bb = 98304 /\ ch.rx = <<24576, 12288, 6144, 3072, 1536>>
      /\ ch.tx = <<12288, 12288, 6144, 3072, 1536>>
  BY DEF DefaultChain
<1> HIDE DEF ch
<1>2. ch.rx[1] = 24576 /\ ch.rx[2] = 12288 /\ ch.rx[5] = 1536
  BY <1>1
<1>3. wiring.rx2tx2 \in BOOLEAN /\ wiring.lvds \in BOOLEAN
  BY BasebandAssumption DEF BasebandAssumption
<1> DEFINE dataClk == ((IF wiring.rx2tx2 THEN 4 ELSE 2) \div (IF wiring.lvds THEN 1 ELSE 2))
                        * ch.rx[5]
<1>4. dataClk \in {6144, 3072, 1536}
  BY <1>2, <1>3
<1>5. \E i \in 1..4 : ch.rx[2] \div 2^i = dataClk
  <2>1. ch.rx[2] \div 2^1 = 6144 /\ ch.rx[2] \div 2^2 = 3072 /\ ch.rx[2] \div 2^3 = 1536
    BY <1>2, Powers
  <2>2. 1 \in 1..4 /\ 2 \in 1..4 /\ 3 \in 1..4
    OBVIOUS
  <2> HIDE DEF dataClk
  <2> QED
    BY <1>4, <2>1, <2>2
<1>6. dataClk <= MAX_SAMPL
  BY <1>4 DEF MAX_SAMPL
<1>7. ValidChain(ch, wiring)
  <2>1. ValidChain(ch, wiring) <=>
          /\ wiring.lvds \/ dataClk <= MAX_SAMPL
          /\ \/ \E i \in 1..3 : ch.rx[1] \div i = dataClk
             \/ \E i \in 1..4 : ch.rx[2] \div 2^i = dataClk
    BY Zenon DEF ValidChain
  <2> QED
    BY <2>1, <1>5, <1>6, Zenon
<1>8. ChainTyped(ch)
  <2>1. ch.rx \in [1..5 -> Int] /\ ch.tx \in [1..5 -> Int] /\ ch.bb \in Int
    BY <1>1
  <2> QED
    BY <2>1 DEF ChainTyped
<1> QED
  BY <1>1, <1>7, <1>8 DEF ch

LEMMA InitKeeps == BbInit => BbInv
<1> SUFFICES ASSUME BbInit PROVE BbInv
  OBVIOUS
<1> DEFINE o == OutOfReset
           y == SetTrxClockChain(o, DefaultChain, TRUE)
           x == Retune(y, 1800, 1800, "ok")
<1>1. /\ wiring \in Wirings /\ bb = [x EXCEPT !.fits = TRUE]
      /\ bbLost = FALSE /\ bbSteady = bb.ok /\ bbWhole = bb.ok /\ bbSuits = TRUE
  BY DEF BbInit
<1>2. /\ BbTyped(o) /\ Remembers(o) /\ AllBypassed(o) /\ o.ok /\ o.rate["BBPLL"] = 0
      /\ o.gov = 1 /\ o.filt.valid = FALSE
  BY ResetIs
<1> HIDE DEF o
<1>3. ValidChain(DefaultChain, wiring) /\ ChainTyped(DefaultChain) /\ DefaultChain.bb # 0
  BY <1>1, DefaultIs
<1>4. TrxSet(o, DefaultChain, TRUE, y)
  BY <1>2, <1>3, SetTrxClockChainDoes
<1> HIDE DEF y
<1>5. /\ BbTyped(y) /\ SettingsKept(o, y) /\ AllBypassed(y) /\ Remembers(y) /\ WordGood(y)
      /\ y.ok => y.timing = TimingFor(y)
  BY <1>2, <1>3, <1>4 DEF TrxSet, Keeps
<1>6. Retuned(y, x)
  <2>1. BbTyped(y) /\ "ok" \in {"ok", "rx", "tx", "quad"}
    BY <1>5
  <2>2. ASSUME NEW rx, NEW tx PROVE Retuned(y, Retune(y, rx, tx, "ok"))
    BY <2>1, RetuneDoes
  <2> QED
    BY <2>2
<1> HIDE DEF x
<1>7. /\ BbTyped(x) /\ TuningOnly(y, x)
      /\ x.ok => y.ok
      /\ x.ok => AnalogRight(x)
  BY <1>5, <1>6 DEF Retuned, Keeps
<1>8. /\ x.gov = 1 /\ x.filt.valid = FALSE /\ AllBypassed(x) /\ Remembers(x) /\ WordGood(x)
      /\ x.ok => x.timing = TimingFor(x)
  <2>1. x.gov = 1 /\ x.filt.valid = FALSE
    BY <1>2, <1>5, <1>7 DEF SettingsKept, TuningOnly
  <2>2. AllBypassed(x) /\ Remembers(x) /\ WordGood(x)
    BY <1>5, <1>7 DEF AllBypassed, Remembers, WordGood, TuningOnly
  <2>3. x.ok => x.timing = TimingFor(x)
    BY <1>5, <1>7 DEF TimingFor, GetRate, TuningOnly
  <2> QED
    BY <2>1, <2>2, <2>3
<1>9. /\ DOMAIN bb = BbFields /\ bb.ok = x.ok /\ bb.fits = TRUE
      /\ bb.chip = x.chip /\ bb.rate = x.rate /\ bb.bypass = x.bypass /\ bb.gov = x.gov
      /\ bb.timing = x.timing /\ bb.analog = x.analog /\ bb.bw = x.bw
      /\ bb.factor = x.factor /\ bb.filt = x.filt
  BY <1>1, <1>7 DEF BbTyped, BbFields
<1>10. BbTyped(bb)
  <2>1. bb.fits \in BOOLEAN
    BY <1>9
  <2> QED
    BY <2>1, <1>7, <1>9 DEF BbTyped
<1>11. Ready(bb)
  <2>1. \A s \in Sides : bb.bypass[s]
    BY <1>8, <1>9 DEF AllBypassed
  <2> QED
    BY <2>1, <1>8, <1>9 DEF Ready
<1>12. WordGood(bb) /\ Remembers(bb)
  BY <1>8, <1>9 DEF WordGood, Remembers
<1>13. Switched(bb)
  BY <1>8, <1>9 DEF AllBypassed, Switched
<1>14. bb.ok => AnalogRight(bb) /\ bb.timing = TimingFor(bb)
  BY <1>7, <1>8, <1>9, PartsAre
<1>15. {bbLost, bbSteady, bbWhole, bbSuits} \subseteq BOOLEAN
  BY <1>1, <1>10 DEF BbTyped
<1> QED
  BY <1>1, <1>9, <1>10, <1>11, <1>12, <1>13, <1>14, <1>15 DEF BbInv

LEMMA InvMeansAgree == BbInv => ClocksAgree
<1> SUFFICES ASSUME BbInv PROVE ClocksAgree
  OBVIOUS
<1>1. RatesRemembered
  BY DEF BbInv, RatesRemembered, Remembers
<1>2. FiltersSwitched
  BY DEF BbInv, FiltersSwitched, Switched
<1>3. FiltersFollow
  BY DEF BbInv, FiltersFollow, AnalogRight
<1>4. TimingFollows
  <2>1. ~bbLost => bb.rate = Recalc(bb.chip)
    BY <1>1 DEF RatesRemembered
  <2>2. bbWhole /\ ~bbLost => bb.timing = TimingFor(bb)
    BY DEF BbInv
  <2>3. Follows(Recalc(bb.chip), bb.chip)
    BY RecalcIs DEF BbInv, BbTyped
  <2>4. "CLKRF" \in Stages /\ "RX" \in Stages
    BY StagesAre DEF Ten
  <2>5. ~bbLost => LET r == Recalc(bb.chip)
                   IN  /\ GetRate(bb, "CLKRF") = r["CLKRF"] /\ GetRate(bb, "RX") = r["RX"]
                       /\ GetRate(bb, "BBPLL") = r["BBPLL"]
    BY <2>1, <2>3, <2>4 DEF Follows, GetRate
  <2> QED
    BY <2>2, <2>5 DEF TimingFollows, TimingFor
<1> QED
  BY <1>1, <1>2, <1>3, <1>4 DEF ClocksAgree

(* Whatever sequence of sample rates, clock chains, bandwidths, governors and filters   *)
(* ad9361_api.c and the filter files ask for, granted, refused or failed half-way: the  *)
(* rates the driver remembers are those of the chip's registers, and the filters, the   *)
(* tuning and what counts clock cycles are set for them.                                *)
THEOREM ClocksAreRemembered == BbSpec => []ClocksAgree
<1>1. BbInit => BbInv
  BY InitKeeps
<1>2. BbInv /\ [BbNext]_bbVars => BbInv'
  BY StepKeeps
<1>3. BbInv => ClocksAgree
  BY InvMeansAgree
<1> QED
  BY <1>1, <1>2, <1>3, PTL DEF BbSpec

-----------------------------------------------------------------------------

(***************************************************************************)
(* The gain control and the RSSI.                                          *)
(***************************************************************************)

\* The powers up to 2^14
LEMMA TwoTos ==
  /\ TwoTo(0) = 1 /\ TwoTo(1) = 2 /\ TwoTo(2) = 4 /\ TwoTo(3) = 8 /\ TwoTo(4) = 16
  /\ TwoTo(5) = 32 /\ TwoTo(6) = 64 /\ TwoTo(7) = 128 /\ TwoTo(8) = 256 /\ TwoTo(9) = 512
  /\ TwoTo(10) = 1024 /\ TwoTo(11) = 2048 /\ TwoTo(12) = 4096 /\ TwoTo(13) = 8192
  /\ TwoTo(14) = 16384
BY Powers, BigPowers DEF TwoTo

LEMMA SmallPowers ==
  ASSUME NEW k \in 0..14
  PROVE  /\ TwoTo(k) \in Nat /\ TwoTo(k) > 0 /\ TwoTo(k) <= 16384
         /\ k < 14 => TwoTo(k + 1) = 2 * TwoTo(k)
<1>1. CASE k = 0 BY <1>1, TwoTos
<1>2. CASE k = 1 BY <1>2, TwoTos
<1>3. CASE k = 2 BY <1>3, TwoTos
<1>4. CASE k = 3 BY <1>4, TwoTos
<1>5. CASE k = 4 BY <1>5, TwoTos
<1>6. CASE k = 5 BY <1>6, TwoTos
<1>7. CASE k = 6 BY <1>7, TwoTos
<1>8. CASE k = 7 BY <1>8, TwoTos
<1>9. CASE k = 8 BY <1>9, TwoTos
<1>10. CASE k = 9 BY <1>10, TwoTos
<1>11. CASE k = 10 BY <1>11, TwoTos
<1>12. CASE k = 11 BY <1>12, TwoTos
<1>13. CASE k = 12 BY <1>13, TwoTos
<1>14. CASE k = 13 BY <1>14, TwoTos
<1>15. CASE k = 14 BY <1>15, TwoTos
<1> QED BY <1>1, <1>2, <1>3, <1>4, <1>5, <1>6, <1>7, <1>8, <1>9, <1>10, <1>11, <1>12, <1>13, <1>14, <1>15

\* A power of two tells its exponent.
LEMMA PowersDiffer ==
  ASSUME NEW k \in 0..14, NEW l \in 0..14, k < l
  PROVE  2 * TwoTo(k) <= TwoTo(l)
<1>1. CASE k = 0 BY <1>1, TwoTos
<1>2. CASE k = 1 BY <1>2, TwoTos
<1>3. CASE k = 2 BY <1>3, TwoTos
<1>4. CASE k = 3 BY <1>4, TwoTos
<1>5. CASE k = 4 BY <1>5, TwoTos
<1>6. CASE k = 5 BY <1>6, TwoTos
<1>7. CASE k = 6 BY <1>7, TwoTos
<1>8. CASE k = 7 BY <1>8, TwoTos
<1>9. CASE k = 8 BY <1>9, TwoTos
<1>10. CASE k = 9 BY <1>10, TwoTos
<1>11. CASE k = 10 BY <1>11, TwoTos
<1>12. CASE k = 11 BY <1>12, TwoTos
<1>13. CASE k = 12 BY <1>13, TwoTos
<1>14. CASE k = 13 BY <1>14, TwoTos
<1> QED BY <1>1, <1>2, <1>3, <1>4, <1>5, <1>6, <1>7, <1>8, <1>9, <1>10, <1>11, <1>12, <1>13, <1>14

LEMMA LargestIs ==
  ASSUME NEW n \in Nat, n > 0
  PROVE  /\ Largest(n) \in 0..14
         /\ TwoTo(Largest(n)) <= n
         /\ Largest(n) < 14 => n < TwoTo(Largest(n) + 1)
<1> DEFINE Within(i) == TwoTo(i) <= n /\ (i < 14 => n < TwoTo(i + 1))
<1>1. \E i \in 0..14 : Within(i)
  <2>1. CASE n >= 16384
    <3>1. 14 \in 0..14 /\ Within(14) BY <2>1, TwoTos
    <3> QED BY <3>1
  <2>2. CASE n < 16384
    <3>1. \/ Within(0) \/ Within(1) \/ Within(2) \/ Within(3) \/ Within(4) \/ Within(5) \/ Within(6)
          \/ Within(7) \/ Within(8) \/ Within(9) \/ Within(10) \/ Within(11) \/ Within(12) \/ Within(13)
      BY <2>2, TwoTos
    <3> HIDE DEF Within
    <3>2. \A i \in {0, 1, 2, 3, 4, 5, 6, 7, 8, 9, 10, 11, 12, 13} : i \in 0..14
      OBVIOUS
    <3> QED BY <3>1, <3>2
  <2> QED BY <2>1, <2>2
<1>2. Largest(n) = CHOOSE i \in 0..14 : Within(i) BY DEF Largest
<1>3. Largest(n) \in 0..14 /\ Within(Largest(n))
  <2> HIDE DEF Within
  <2> QED BY <1>1, <1>2
<1> QED BY <1>3

LEMMA LeftIs ==
  ASSUME NEW n \in Nat
  PROVE  /\ Left(n) \in Nat /\ Left(n) <= n
         /\ n > 0 => Left(n) = n - TwoTo(Largest(n)) /\ Left(n) < n
         /\ n = 0 => Left(n) = 0
<1>1. CASE n = 0 BY <1>1 DEF Left
<1>2. CASE n > 0
  <2>1. Largest(n) \in 0..14 /\ TwoTo(Largest(n)) <= n BY <1>2, LargestIs
  <2>2. TwoTo(Largest(n)) \in Nat /\ TwoTo(Largest(n)) > 0 BY <2>1, SmallPowers
  <2>3. Left(n) = n - TwoTo(Largest(n)) BY <1>2 DEF Left
  <2> QED BY <1>2, <2>1, <2>2, <2>3
<1> QED BY <1>1, <1>2

\* Nothing is left of a power of two, and of nothing else.
LEMMA LeftOfPower ==
  ASSUME NEW n \in Nat
  PROVE  (\E k \in 0..14 : n = TwoTo(k)) <=> n > 0 /\ Left(n) = 0
<1>1. ASSUME NEW k \in 0..14, n = TwoTo(k) PROVE n > 0 /\ Left(n) = 0
  <2>1. n > 0 BY <1>1, SmallPowers
  <2> DEFINE l == Largest(n)
  <2>2. l \in 0..14 /\ TwoTo(l) <= n /\ (l < 14 => n < TwoTo(l + 1)) BY <2>1, LargestIs
  <2>3. Left(n) = n - TwoTo(l) BY <2>1, LeftIs
  <2> HIDE DEF l
  <2>4. TwoTo(l) \in Nat /\ TwoTo(l) > 0 /\ (l < 14 => TwoTo(l + 1) = 2 * TwoTo(l)) BY <2>2, SmallPowers
  <2>5. ~(k < l) BY <1>1, <2>1, <2>2, <2>4, PowersDiffer
  <2>6. ~(l < k)
    <3> SUFFICES ASSUME l < k PROVE FALSE OBVIOUS
    <3>1. 2 * TwoTo(l) <= TwoTo(k) BY <2>2, PowersDiffer
    <3>2. l < 14 BY <2>2
    <3> QED BY <1>1, <2>2, <2>4, <3>1, <3>2
  <2>7. l = k BY <2>2, <2>5, <2>6
  <2> QED BY <1>1, <2>1, <2>3, <2>4, <2>7
<1>2. ASSUME n > 0, Left(n) = 0 PROVE \E k \in 0..14 : n = TwoTo(k)
  <2>1. Largest(n) \in 0..14 BY <1>2, LargestIs
  <2>2. TwoTo(Largest(n)) \in Nat /\ TwoTo(Largest(n)) > 0 BY <2>1, SmallPowers
  <2>3. n = TwoTo(Largest(n)) BY <1>2, <2>2, LeftIs
  <2> QED BY <2>1, <2>3
<1> QED BY <1>1, <1>2

\* The durations: as many as there are samples left, one after the other.
LEMMA DurationsAre ==
  ASSUME NEW n \in Nat
  PROVE  /\ DOMAIN Durations(n) \in {{}, {1}, {1, 2}, {1, 2, 3}, {1, 2, 3, 4}}
         /\ \A i \in DOMAIN Durations(n) : Durations(n)[i] \in 0..14
         /\ Total(Durations(n)) \in Nat /\ Total(Durations(n)) <= n
         /\ 4 \notin DOMAIN Durations(n) => Total(Durations(n)) = n
         /\ DOMAIN Durations(n) = {1} <=> n > 0 /\ Left(n) = 0
<1> DEFINE a == Left(n)
           b == Left(a)
           c == Left(b)
           left == <<n, a, b, c>>
           used == {k \in 1..4 : left[k] > 0}
           d == [i \in used |-> Largest(left[i])]
<1>1. Durations(n) = d BY DEF Durations
<1>2. a \in Nat /\ a <= n /\ (n > 0 => a = n - TwoTo(Largest(n)) /\ a < n) /\ (n = 0 => a = 0)
  BY LeftIs
<1>3. b \in Nat /\ b <= a /\ (a > 0 => b = a - TwoTo(Largest(a)) /\ b < a) /\ (a = 0 => b = 0)
  BY <1>2, LeftIs
<1>4. c \in Nat /\ c <= b /\ (b > 0 => c = b - TwoTo(Largest(b)) /\ c < b) /\ (b = 0 => c = 0)
  BY <1>3, LeftIs
<1>a. Left(c) \in Nat /\ Left(c) <= c /\ (c > 0 => Left(c) = c - TwoTo(Largest(c)))
  BY <1>4, LeftIs
<1>5. left[1] = n /\ left[2] = a /\ left[3] = b /\ left[4] = c
  OBVIOUS
<1>6. ASSUME NEW m \in Nat, m > 0
      PROVE  Largest(m) \in 0..14 /\ TwoTo(Largest(m)) \in Nat /\ TwoTo(Largest(m)) > 0
  BY <1>6, LargestIs, SmallPowers
<1> HIDE DEF a, b, c, left
<1>7. /\ 1 \in used <=> n > 0
      /\ 2 \in used <=> a > 0
      /\ 3 \in used <=> b > 0
      /\ 4 \in used <=> c > 0
      /\ \A i \in used : i \in {1, 2, 3, 4}
  BY <1>5
<1>8. DOMAIN d = used
  OBVIOUS
<1>9. /\ 1 \in used => d[1] = Largest(n)
      /\ 2 \in used => d[2] = Largest(a)
      /\ 3 \in used => d[3] = Largest(b)
      /\ 4 \in used => d[4] = Largest(c)
  BY <1>5
<1>b. /\ n > 0 => Largest(n) \in 0..14 /\ TwoTo(Largest(n)) \in Nat
      /\ a > 0 => Largest(a) \in 0..14 /\ TwoTo(Largest(a)) \in Nat
      /\ b > 0 => Largest(b) \in 0..14 /\ TwoTo(Largest(b)) \in Nat
      /\ c > 0 => Largest(c) \in 0..14 /\ TwoTo(Largest(c)) \in Nat
  BY <1>2, <1>3, <1>4, <1>6
<1> HIDE DEF d, used
<1>10. \A i \in DOMAIN d : d[i] \in 0..14
  BY <1>7, <1>8, <1>9, <1>b
<1>11. /\ Lasting(d, 1) = IF n > 0 THEN TwoTo(Largest(n)) ELSE 0
       /\ Lasting(d, 2) = IF a > 0 THEN TwoTo(Largest(a)) ELSE 0
       /\ Lasting(d, 3) = IF b > 0 THEN TwoTo(Largest(b)) ELSE 0
       /\ Lasting(d, 4) = IF c > 0 THEN TwoTo(Largest(c)) ELSE 0
  BY <1>7, <1>8, <1>9 DEF Lasting
<1>12. /\ Lasting(d, 1) = n - a
       /\ Lasting(d, 2) = a - b
       /\ Lasting(d, 3) = b - c
       /\ Lasting(d, 4) = c - Left(c)
  <2>1. TwoTo(Largest(n)) \in Nat \/ n = 0 BY <1>b
  <2>2. Left(c) = 0 \/ c > 0 BY <1>4, <1>a
  <2>3. c = 0 => Left(c) = 0 BY <1>a
  <2>4. Lasting(d, 1) = n - a BY <1>2, <1>11, <1>b
  <2>5. Lasting(d, 2) = a - b BY <1>2, <1>3, <1>11, <1>b
  <2>6. Lasting(d, 3) = b - c BY <1>3, <1>4, <1>11, <1>b
  <2>7. Lasting(d, 4) = c - Left(c) BY <1>4, <1>a, <1>11, <1>b
  <2> QED BY <2>4, <2>5, <2>6, <2>7
<1>13. Total(d) = n - Left(c)
  BY <1>2, <1>3, <1>4, <1>a, <1>12 DEF Total
<1>14. used \in {{}, {1}, {1, 2}, {1, 2, 3}, {1, 2, 3, 4}}
  <2>1. CASE n = 0
    <3>1. \A i : i \in used <=> i \in {} BY <2>1, <1>2, <1>3, <1>4, <1>7
    <3>2. used = {} BY <3>1
    <3> QED BY <3>2
  <2>2. CASE n > 0 /\ a = 0
    <3>1. \A i : i \in used <=> i \in {1} BY <2>2, <1>2, <1>3, <1>4, <1>7
    <3>2. used = {1} BY <3>1
    <3> QED BY <3>2
  <2>3. CASE a > 0 /\ b = 0
    <3>1. \A i : i \in used <=> i \in {1, 2} BY <2>3, <1>2, <1>3, <1>4, <1>7
    <3>2. used = {1, 2} BY <3>1
    <3> QED BY <3>2
  <2>4. CASE b > 0 /\ c = 0
    <3>1. \A i : i \in used <=> i \in {1, 2, 3} BY <2>4, <1>2, <1>3, <1>4, <1>7
    <3>2. used = {1, 2, 3} BY <3>1
    <3> QED BY <3>2
  <2>5. CASE c > 0
    <3>1. \A i : i \in used <=> i \in {1, 2, 3, 4} BY <2>5, <1>2, <1>3, <1>4, <1>7
    <3>2. used = {1, 2, 3, 4} BY <3>1
    <3> QED BY <3>2
  <2> QED BY <2>1, <2>2, <2>3, <2>4, <2>5, <1>2, <1>3, <1>4
<1>15. used = {1} <=> n > 0 /\ a = 0
  <2>1. used = {1} <=> (1 \in used /\ 2 \notin used)
    BY <1>14
  <2> QED BY <1>2, <1>7, <2>1
<1>16. 4 \notin used => Total(d) = n
  BY <1>2, <1>4, <1>a, <1>7, <1>13
<1>17. Total(d) \in Nat /\ Total(d) <= n
  BY <1>2, <1>3, <1>4, <1>a, <1>13
<1> QED BY <1>1, <1>8, <1>10, <1>14, <1>15, <1>16, <1>17 DEF a

\* What rounding does: within a half.
LEMMA RoundedIs ==
  ASSUME NEW x \in Nat, NEW t \in Nat, t > 0
  PROVE  /\ RoundDiv(x, t) \in Nat
         /\ 2 * (RoundDiv(x, t) * t) <= 2 * x + t
         /\ 2 * (RoundDiv(x, t) * t) + t >= 2 * x
<1> DEFINE h == t \div 2
           q == (x + h) \div t
           r == (x + h) % t
<1>1. h \in Nat /\ 2 * h <= t /\ 2 * h + 1 >= t
  OBVIOUS
<1> HIDE DEF h
<1>2. /\ q \in Nat /\ r \in Nat /\ r < t
      /\ x + h = q * t + r
  BY <1>1
<1>3. RoundDiv(x, t) = q BY DEF RoundDiv, h
<1> HIDE DEF q, r
<1>4. q * t \in Nat BY <1>2
<1> DEFINE p == q * t
<1>5. x + h = p + r /\ p \in Nat BY <1>2, <1>4
<1> HIDE DEF p
<1>6. 2 * p <= 2 * x + t /\ 2 * p + t >= 2 * x
  BY <1>1, <1>2, <1>5
<1> QED BY <1>2, <1>3, <1>6 DEF p

LEMMA RoundedShare ==
  ASSUME NEW p \in Nat, NEW t \in Nat, t > 0
  PROVE  /\ RoundDiv(255 * p, t) \in Nat
         /\ 2 * (RoundDiv(255 * p, t) * t) <= 510 * p + t
         /\ 2 * (RoundDiv(255 * p, t) * t) + t >= 510 * p
<1> DEFINE x == 255 * p
<1>1. x \in Nat /\ 2 * x = 510 * p
  OBVIOUS
<1> HIDE DEF x
<1>2. /\ RoundDiv(x, t) \in Nat
      /\ 2 * (RoundDiv(x, t) * t) <= 2 * x + t
      /\ 2 * (RoundDiv(x, t) * t) + t >= 2 * x
  BY <1>1, RoundedIs
<1>3. /\ RoundDiv(x, t) \in Nat
      /\ 2 * (RoundDiv(x, t) * t) <= 510 * p + t
      /\ 2 * (RoundDiv(x, t) * t) + t >= 510 * p
  BY <1>1, <1>2
<1> QED BY <1>3 DEF x

\* A multiple of t that is below another.
LEMMA FewerTimes ==
  ASSUME NEW x \in Int, NEW y \in Int, NEW t \in Nat, t > 0, x * t < y * t
  PROVE  x < y
<1> SUFFICES ASSUME x >= y PROVE FALSE
  OBVIOUS
<1>1. (x - y) * t >= 0
  OBVIOUS
<1>2. (x - y) * t = x * t - y * t
  OBVIOUS
<1> QED BY <1>1, <1>2

\* Each weight within one of its share, of 255 that they are together.
Fair(d) ==
  LET w == Weights(d)
  IN /\ w[1] + w[2] + w[3] + w[4] = 255
     /\ \A i \in DOMAIN d :
          /\ w[i] * Total(d) <= 255 * TwoTo(d[i]) + Total(d)
          /\ w[i] * Total(d) >= 255 * TwoTo(d[i]) - Total(d)

LEMMA OneIsFair ==
  ASSUME NEW d, DOMAIN d = {1}, d[1] \in 0..14
  PROVE  Fair(d)
<1> DEFINE p == TwoTo(d[1])
           s == RoundDiv(255 * p, p)
<1>1. p \in Nat /\ p > 0 BY SmallPowers
<1> HIDE DEF p
<1>2. Total(d) = p BY <1>1 DEF Total, Lasting, p
<1>3. Share(d, 1) = s /\ Share(d, 2) = 0 /\ Share(d, 3) = 0 /\ Share(d, 4) = 0
  BY <1>2 DEF Share, p
<1> HIDE DEF s
<1>4. s \in Nat /\ 2 * (s * p) <= 510 * p + p /\ 2 * (s * p) + p >= 510 * p
  BY <1>1, RoundedShare DEF s
<1>5. Weights(d) = [i \in 1..4 |-> IF i = 1 THEN (s - (s - 255)) % 256 ELSE 0]
  BY <1>3, <1>4 DEF Weights
<1>6. (s - (s - 255)) % 256 = 255 BY <1>4
<1>7. Weights(d)[1] = 255 /\ Weights(d)[2] = 0 /\ Weights(d)[3] = 0 /\ Weights(d)[4] = 0
  BY <1>5, <1>6
<1> QED BY <1>1, <1>2, <1>7 DEF Fair, p

LEMMA TwoAreFair ==
  ASSUME NEW d, DOMAIN d = {1, 2}, d[1] \in 0..14, d[2] \in 0..14
  PROVE  Fair(d)
<1> DEFINE p == TwoTo(d[1])
           q == TwoTo(d[2])
           t == p + q
           s == RoundDiv(255 * p, t)
           r == RoundDiv(255 * q, t)
<1>1. p \in Nat /\ p > 0 /\ q \in Nat /\ q > 0 BY SmallPowers
<1> HIDE DEF p, q
<1>2. Total(d) = t BY <1>1 DEF Total, Lasting, p, q
<1>3. t \in Nat /\ t > 0 /\ t = p + q BY <1>1
<1>4. Share(d, 1) = s /\ Share(d, 2) = r /\ Share(d, 3) = 0 /\ Share(d, 4) = 0
  BY <1>2 DEF Share, p, q
<1> HIDE DEF t
<1> HIDE DEF s, r
<1>5. s \in Nat /\ 2 * (s * t) <= 510 * p + t /\ 2 * (s * t) + t >= 510 * p
  BY <1>1, <1>3, RoundedShare DEF s
<1>6. r \in Nat
  BY <1>1, <1>3, RoundedShare DEF r
<1>7. s < 256
  <2>1. s * t \in Nat BY <1>3, <1>5
  <2>2. s * t < 256 * t BY <1>1, <1>3, <1>5, <2>1
  <2> QED BY <1>3, <1>5, <2>2, FewerTimes
<1>8. Weights(d) = [i \in 1..4 |-> IF i = 2 THEN (r - (s + r - 255)) % 256
                                  ELSE IF i = 1 THEN s ELSE 0]
  BY <1>4, <1>5, <1>6 DEF Weights
<1>9. (r - (s + r - 255)) % 256 = 255 - s BY <1>5, <1>6, <1>7
<1>10. Weights(d)[1] = s /\ Weights(d)[2] = 255 - s /\ Weights(d)[3] = 0 /\ Weights(d)[4] = 0
  BY <1>8, <1>9
<1>11. (255 - s) * t = 255 * t - s * t BY <1>3, <1>5
<1> DEFINE u == s * t
<1>12. u \in Nat BY <1>3, <1>5
<1>13. /\ u <= 255 * p + t /\ u >= 255 * p - t
       /\ 255 * t - u <= 255 * q + t /\ 255 * t - u >= 255 * q - t
  <2> HIDE DEF u
  <2>1. 2 * u <= 510 * p + t /\ 2 * u + t >= 510 * p BY <1>5 DEF u
  <2> QED BY <1>1, <1>3, <1>12, <2>1
<1>14. s + (255 - s) + 0 + 0 = 255 BY <1>5
<1> QED BY <1>2, <1>10, <1>11, <1>13, <1>14 DEF Fair, p, q

LEMMA ThreeAreFair ==
  ASSUME NEW d, DOMAIN d = {1, 2, 3}, d[1] \in 0..14, d[2] \in 0..14, d[3] \in 0..14
  PROVE  Fair(d)
<1> DEFINE p == TwoTo(d[1])
           q == TwoTo(d[2])
           o == TwoTo(d[3])
           t == p + q + o
           s == RoundDiv(255 * p, t)
           r == RoundDiv(255 * q, t)
           l == RoundDiv(255 * o, t)
<1>1. p \in Nat /\ p > 0 /\ q \in Nat /\ q > 0 /\ o \in Nat /\ o > 0 BY SmallPowers
<1> HIDE DEF p, q, o
<1>2. Total(d) = t BY <1>1 DEF Total, Lasting, p, q, o
<1>3. t \in Nat /\ t > 0 /\ t = p + q + o BY <1>1
<1>4. Share(d, 1) = s /\ Share(d, 2) = r /\ Share(d, 3) = l /\ Share(d, 4) = 0
  BY <1>2 DEF Share, p, q, o
<1> HIDE DEF t
<1> HIDE DEF s, r
<1>5. s \in Nat /\ 2 * (s * t) <= 510 * p + t /\ 2 * (s * t) + t >= 510 * p
  BY <1>1, <1>3, RoundedShare DEF s
<1>6. r \in Nat /\ 2 * (r * t) <= 510 * q + t /\ 2 * (r * t) + t >= 510 * q
  BY <1>1, <1>3, RoundedShare DEF r
<1> HIDE DEF l
<1>7. l \in Nat
  BY <1>1, <1>3, RoundedShare DEF l
<1> DEFINE u == s * t
           v == r * t
<1>8. /\ u \in Nat /\ 2 * u <= 510 * p + t /\ 2 * u + t >= 510 * p
      /\ v \in Nat /\ 2 * v <= 510 * q + t /\ 2 * v + t >= 510 * q
  BY <1>3, <1>5, <1>6
<1>9. (s + r) * t = u + v BY <1>3, <1>5, <1>6
<1>10. (255 - s - r) * t = 255 * t - u - v BY <1>3, <1>5, <1>6
<1> HIDE DEF u, v
<1>11. s + r < 256
  <2>1. u + v < 256 * t BY <1>1, <1>3, <1>8
  <2>2. (s + r) * t < 256 * t BY <1>9, <2>1
  <2>3. s + r \in Int BY <1>5, <1>6
  <2> QED BY <1>3, <2>2, <2>3, FewerTimes
<1>12. Weights(d) = [i \in 1..4 |-> IF i = 3 THEN (l - (s + r + l - 255)) % 256
                                   ELSE IF i = 1 THEN s ELSE IF i = 2 THEN r ELSE 0]
  BY <1>4, <1>5, <1>6, <1>7 DEF Weights
<1>13. (l - (s + r + l - 255)) % 256 = 255 - s - r BY <1>5, <1>6, <1>7, <1>11
<1>14. /\ Weights(d)[1] = s /\ Weights(d)[2] = r /\ Weights(d)[3] = 255 - s - r
       /\ Weights(d)[4] = 0
  BY <1>12, <1>13
<1>15. /\ u <= 255 * p + t /\ u >= 255 * p - t
       /\ v <= 255 * q + t /\ v >= 255 * q - t
       /\ 255 * t - u - v <= 255 * o + t /\ 255 * t - u - v >= 255 * o - t
  BY <1>1, <1>3, <1>8
<1>16. s + r + (255 - s - r) + 0 = 255 BY <1>5, <1>6
<1> QED BY <1>2, <1>10, <1>14, <1>15, <1>16 DEF Fair, p, q, o, u, v

LEMMA LogFits ==
  ASSUME NEW n \in Nat, n < 65536
  PROVE  /\ Log2(n) \in Nat
         /\ n > 0 => 2^Log2(n) <= n
         /\ n = 0 => 2^Log2(n) = 1
<1> DEFINE Within(k) == 2^k <= n /\ n < 2^(k + 1)
<1>1. CASE n = 0
  BY <1>1, Powers DEF Log2
<1>2. CASE n > 0
  <2>1. \/ Within(0) \/ Within(1) \/ Within(2) \/ Within(3) \/ Within(4) \/ Within(5) \/ Within(6) \/ Within(7)
        \/ Within(8) \/ Within(9) \/ Within(10) \/ Within(11) \/ Within(12) \/ Within(13) \/ Within(14)
        \/ Within(15)
    BY <1>2, Powers, BigPowers
  <2>2. Log2(n) = CHOOSE k \in 0..29 : Within(k) BY <1>2 DEF Log2
  <2> HIDE DEF Within
  <2>3. \A k \in {0, 1, 2, 3, 4, 5, 6, 7, 8, 9, 10, 11, 12, 13, 14, 15} : k \in 0..29
    OBVIOUS
  <2>4. \E k \in 0..29 : Within(k) BY <2>1, <2>3
  <2>5. Log2(n) \in 0..29 /\ Within(Log2(n)) BY <2>2, <2>4
  <2> QED BY <1>2, <2>5 DEF Within
<1> QED BY <1>1, <1>2

LEMMA Longer ==
  ASSUME NEW x \in Nat, NEW y \in Int, NEW z \in Int, y <= z
  PROVE  x * y <= x * z
<1>1. x * (z - y) >= 0 OBVIOUS
<1>2. x * (z - y) = x * z - x * y OBVIOUS
<1> QED BY <1>1, <1>2

\* The settling delay
LEMMA SettlingIs ==
  ASSUME NEW lnaNs \in Nat, NEW clkrf \in Nat, clkrf > 0,
         NEW c, c.lnaNs = lnaNs,
         (lnaNs + 200) * (clkrf \div 2) <= 248000000, SettlingDelay(c, clkrf) < 31
  PROVE  2 * SettlingDelay(c, clkrf) * 1000000 >= (lnaNs + 200) * (clkrf - 1) + 14000000
<1> DEFINE ns == lnaNs + 200
           h == clkrf \div 2
           x == ns * h
           y == RoundUpDiv(x, 1000000)
<1>1. ns \in Nat /\ h \in Nat /\ clkrf - 1 <= 2 * h
  OBVIOUS
<1> HIDE DEF h, ns
<1>2. x \in Nat /\ x <= 248000000
  BY <1>1 DEF h, ns
<1> HIDE DEF x
<1>3. y \in Nat /\ y <= 248 /\ y * 1000000 >= x
  BY <1>2 DEF RoundUpDiv
<1> HIDE DEF y
<1>4. SettlingDelay(c, clkrf) = Clamp((y + 7) % 256, 0, 31)
  BY DEF SettlingDelay, ClampByte, y, x, h, ns
<1>5. SettlingDelay(c, clkrf) = y + 7
  BY <1>3, <1>4 DEF Clamp
<1>6. ns * (clkrf - 1) <= 2 * x
  <2>1. ns * (clkrf - 1) <= ns * (2 * h) BY <1>1, Longer
  <2>2. ns * (2 * h) = 2 * x BY <1>1 DEF x
  <2> QED BY <2>1, <2>2
<1>7. ns * (clkrf - 1) \in Int BY <1>1
<1> DEFINE z == ns * (clkrf - 1)
<1>8. z \in Int /\ z <= 2 * x BY <1>6, <1>7
<1> HIDE DEF z
<1>9. 2 * (y + 7) * 1000000 >= z + 14000000 BY <1>2, <1>3, <1>8
<1> QED BY <1>5, <1>9 DEF z, ns

\* The cycles of the update interval
LEMMA CyclesAre ==
  ASSUME NEW c, NEW clkrf \in Nat, c.intervalUs \in Nat, SettlingDelay(c, clkrf) \in Int
  PROVE  /\ UpdateCycles(c, clkrf) \in Nat
         /\ UpdateCycles(c, clkrf) <= 131071
<1> DEFINE n == c.intervalUs * clkrf - SettlingDelay(c, clkrf) * 2000 - 2000
<1>1. n \in Int
  <2>1. c.intervalUs * clkrf \in Int OBVIOUS
  <2> QED BY <2>1
<1>2. UpdateCycles(c, clkrf) = IF n < 0 THEN 131071 ELSE Clamp(RoundDiv(n, 2000), 0, 131071)
  BY DEF UpdateCycles
<1> HIDE DEF n
<1>3. CASE n < 0 BY <1>2, <1>3
<1>4. CASE n >= 0
  <2>1. RoundDiv(n, 2000) \in Nat BY <1>1, <1>4 DEF RoundDiv
  <2>2. Clamp(RoundDiv(n, 2000), 0, 131071) \in Nat /\ Clamp(RoundDiv(n, 2000), 0, 131071) <= 131071
    BY <2>1 DEF Clamp
  <2> QED BY <1>1, <1>2, <1>4, <2>2
<1> QED BY <1>1, <1>3, <1>4

\* A division is the greatest number of times.
LEMMA DivisionIs ==
  ASSUME NEW x \in Nat, NEW y \in Nat, y > 0
  PROVE  /\ x \div y \in Nat
         /\ (x \div y) * y <= x
         /\ \A k \in Nat : k <= x \div y <=> k * y <= x
<1> DEFINE q == x \div y
           r == x % y
<1>1. q \in Nat /\ r \in Nat /\ r < y /\ x = q * y + r
  OBVIOUS
<1> HIDE DEF q, r
<1>2. q * y \in Nat BY <1>1
<1>3. q * y <= x BY <1>1, <1>2
<1>4. ASSUME NEW k \in Nat, k <= q PROVE k * y <= x
  <2>1. y * k <= y * q BY <1>1, <1>4, Longer
  <2>2. y * k = k * y /\ y * q = q * y BY <1>1
  <2>3. k * y \in Int BY <1>4
  <2> QED BY <1>2, <1>3, <2>1, <2>2, <2>3
<1>5. ASSUME NEW k \in Nat, k * y <= x PROVE k <= q
  <2>1. k * y < (q + 1) * y
    <3>1. (q + 1) * y = q * y + y BY <1>1
    <3>2. k * y \in Int BY <1>5
    <3> QED BY <1>1, <1>2, <1>5, <3>1, <3>2
  <2>2. q + 1 \in Int BY <1>1
  <2>3. k < q + 1 BY <2>1, <2>2, FewerTimes
  <2> QED BY <1>1, <2>3
<1> QED BY <1>1, <1>3, <1>4, <1>5 DEF q

\* A power of two that fits twice
LEMMA TwiceFits ==
  ASSUME NEW samples \in Nat, samples >= 32, NEW m \in Nat, m < 1048576, 2 * m <= samples
  PROVE  FitsTwice(Log2(m \div 16), samples)
<1> DEFINE n == m \div 16
<1>1. n \in Nat /\ n < 65536 /\ 16 * n <= m
  OBVIOUS
<1> HIDE DEF n
<1>2. /\ Log2(n) \in Nat
      /\ n > 0 => 2^Log2(n) <= n
      /\ n = 0 => 2^Log2(n) = 1
  BY <1>1, LogFits
<1>3. 2^Log2(n) \in Int
  BY <1>2
<1> DEFINE w == 2^Log2(n)
<1>4. w \in Int /\ (n > 0 => w <= n) /\ (n = 0 => w = 1) BY <1>2, <1>3
<1> HIDE DEF w
<1>5. 2 * 16 * w <= samples BY <1>1, <1>4
<1> QED BY <1>5 DEF w, n, FitsTwice

\* Two measurements that are slow enough, and the longest of which two fit
LEMMA SlowFits ==
  ASSUME NEW x \in Nat, NEW slow \in Nat, slow > 0, 2 <= x \div slow
  PROVE  2 * slow <= x
BY DivisionIs

LEMMA QuickFits ==
  ASSUME NEW cycles \in Nat, NEW fir \in Nat, fir > 0
  PROVE  /\ cycles \div fir \in Nat /\ cycles \div fir <= cycles
         /\ 2 * (cycles \div fir) <= (cycles * 2) \div fir
<1> DEFINE x == cycles \div fir
<1>1. x \in Nat /\ x * fir <= cycles BY DivisionIs
<1> HIDE DEF x
<1>2. x * fir \in Int BY <1>1
<1>3. x <= cycles
  <2>1. x * 1 <= x * fir BY <1>1, Longer
  <2> QED BY <1>1, <1>2, <2>1
<1>4. (2 * x) * fir = 2 * (x * fir) BY <1>1
<1>5. (2 * x) * fir <= cycles * 2 BY <1>1, <1>2, <1>4
<1>6. 2 * x \in Nat /\ cycles * 2 \in Nat BY <1>1
<1> DEFINE y == cycles * 2
           z == 2 * x
<1>7. z * fir <= y /\ z \in Nat /\ y \in Nat BY <1>5, <1>6
<1> HIDE DEF y, z
<1>8. z <= y \div fir BY <1>7, DivisionIs
<1> QED BY <1>1, <1>3, <1>8 DEF x, y, z

(***************************************************************************)
(* The words are those of the clocks in force.                             *)
(***************************************************************************)
AgcInv ==
  /\ agcConf \in AgcConfs /\ rssiConf \in RssiConfs /\ agcClock \in AgcClocks
  /\ agcFast \in BOOLEAN
  /\ agcSetup = GcSetup(agcConf)
  /\ agcWords = GcUpdate(agcConf, agcClock, agcFast)
  /\ rssiWords = RssiSetup(rssiConf, agcClock)

\* In samples the words do not depend on the rate.
LEMMA SamplesStay ==
  ASSUME NEW conf, conf.samples = TRUE, NEW k, NEW l
  PROVE  RssiSetup(conf, k) = RssiSetup(conf, l)
<1>1. \A us : InSamples(conf, k.rate, us) = InSamples(conf, l.rate, us)
  BY DEF InSamples
<1> QED BY <1>1 DEF RssiSetup, RssiDelay, RssiWait

LEMMA AgcStep ==
  ASSUME AgcInv, [AgcNext]_agcVars
  PROVE  AgcInv'
<1>1. CASE UNCHANGED agcVars
  BY <1>1 DEF agcVars, AgcInv
<1>2. CASE ChangeMode
  BY <1>2 DEF ChangeMode, AgcInv
<1>3. CASE BbClkChange
  <2>1. PICK clk \in AgcClocks :
          /\ agcClock' = clk
          /\ agcWords' = GcUpdate(agcConf, clk, agcFast)
          /\ rssiWords' = IF rssiConf.samples THEN rssiWords ELSE RssiSetup(rssiConf, clk)
          /\ UNCHANGED <<agcConf, rssiConf, agcFast, agcSetup>>
    BY <1>3 DEF BbClkChange
  <2>2. rssiWords' = RssiSetup(rssiConf, clk)
    <3>1. rssiConf.samples \in BOOLEAN BY AgcAssumption DEF AgcInv
    <3>2. CASE rssiConf.samples = TRUE
      <4>1. RssiSetup(rssiConf, agcClock) = RssiSetup(rssiConf, clk) BY <3>2, SamplesStay
      <4> QED BY <2>1, <3>2, <4>1 DEF AgcInv
    <3>3. CASE rssiConf.samples = FALSE BY <2>1, <3>3
    <3> QED BY <3>1, <3>2, <3>3
  <2> QED BY <2>1, <2>2 DEF AgcInv
<1> QED BY <1>1, <1>2, <1>3 DEF AgcNext

\* The levels, from the setup
LEMMA LevelsAre ==
  ASSUME AgcInv
  PROVE  LevelsOrdered
<1> DEFINE c == agcConf
           high == ClampByte(c.innerHigh, 0, 127)
           low == ClampByte(c.innerLow, 0, 127)
<1>1. /\ c.adcSmall \in Nat /\ c.adcLarge \in Nat /\ c.lmtHigh \in Nat /\ c.lmtLow \in Nat
      /\ c.innerHigh \in Nat /\ c.innerLow \in Nat /\ c.outerHigh \in Nat /\ c.outerLow \in Nat
  BY AgcAssumption DEF AgcInv
<1> HIDE DEF c
<1>2. /\ agcSetup.adc = AdcThresholds(c)
      /\ agcSetup.lmtHigh = LmtThreshold(c.lmtHigh) /\ agcSetup.lmtLow = LmtThreshold(c.lmtLow)
      /\ agcSetup.levels = Levels(c)
  BY DEF AgcInv, GcSetup, c
<1>3. high \in Nat /\ low \in Nat
  BY <1>1 DEF ClampByte, Clamp
<1>4. /\ Levels(c).innerHigh = high /\ Levels(c).innerLow = low
      /\ Levels(c).outerHigh = (high - c.outerHigh) % 16
      /\ Levels(c).outerLow = (c.outerLow - low) % 16
  BY DEF Levels
<1> HIDE DEF high, low
<1>5. high - c.outerHigh \in 0..15 => high - ((high - c.outerHigh) % 16) = c.outerHigh
  BY <1>1, <1>3
<1>6. c.outerLow - low \in 0..15 => low + ((c.outerLow - low) % 16) = c.outerLow
  BY <1>1, <1>3
<1>7. AdcThresholds(c).small <= AdcThresholds(c).large
  BY <1>1 DEF AdcThresholds
<1>8. {AdcThresholds(c).small, AdcThresholds(c).large} = {c.adcSmall, c.adcLarge}
  BY <1>1 DEF AdcThresholds
<1>9. 16 <= c.lmtLow /\ c.lmtLow <= c.lmtHigh => LmtThreshold(c.lmtLow) <= LmtThreshold(c.lmtHigh)
  <2> SUFFICES ASSUME 16 <= c.lmtLow, c.lmtLow <= c.lmtHigh
               PROVE  LmtThreshold(c.lmtLow) <= LmtThreshold(c.lmtHigh)
    OBVIOUS
  <2> DEFINE x == c.lmtLow \div 16 - 1
             y == c.lmtHigh \div 16 - 1
  <2>1. x \in Int /\ y \in Int /\ x <= y BY <1>1
  <2>2. LmtThreshold(c.lmtLow) = Clamp(x, 0, 63) /\ LmtThreshold(c.lmtHigh) = Clamp(y, 0, 63)
    BY <1>1 DEF LmtThreshold
  <2> HIDE DEF x, y
  <2> QED BY <2>1, <2>2 DEF Clamp
<1> QED BY <1>2, <1>4, <1>5, <1>6, <1>7, <1>8, <1>9 DEF LevelsOrdered, c

LEMMA SettlingLasts ==
  ASSUME AgcInv
  PROVE  SettlingLongEnough
<1> DEFINE lna == agcConf.lnaNs
           clkrf == agcClock.clkrf
<1>1. lna \in Nat /\ clkrf \in Nat /\ clkrf > 0
  BY AgcAssumption DEF AgcInv
<1>2. agcWords.settling = SettlingDelay(agcConf, clkrf)
  BY DEF AgcInv, GcUpdate
<1>3. agcConf.lnaNs = lna
  OBVIOUS
<1> HIDE DEF lna, clkrf
<1>4. (lna + 200) * (clkrf \div 2) <= 248000000 /\ SettlingDelay(agcConf, clkrf) < 31 =>
        2 * SettlingDelay(agcConf, clkrf) * 1000000 >= (lna + 200) * (clkrf - 1) + 14000000
  BY <1>1, <1>3, SettlingIs
<1> QED BY <1>2, <1>4 DEF SettlingLongEnough, lna, clkrf

LEMMA AgcCycles ==
  ASSUME AgcInv
  PROVE  /\ UpdateCycles(agcConf, agcClock.clkrf) \in Nat
         /\ UpdateCycles(agcConf, agcClock.clkrf) <= 131071
<1>1. /\ agcConf.lnaNs \in Nat /\ agcConf.intervalUs \in Nat
      /\ agcClock.clkrf \in Nat
  BY AgcAssumption DEF AgcInv
<1> DEFINE lna == agcConf.lnaNs
           clkrf == agcClock.clkrf
<1>2. SettlingDelay(agcConf, clkrf) \in Int
  <2> DEFINE x == RoundUpDiv((lna + 200) * (clkrf \div 2), 1000000) + 7
  <2>1. x \in Int BY <1>1 DEF RoundUpDiv
  <2>2. SettlingDelay(agcConf, clkrf) = ClampByte(x, 0, 31) BY DEF SettlingDelay
  <2> HIDE DEF x
  <2> QED BY <2>1, <2>2 DEF ClampByte, Clamp
<1> QED BY <1>1, <1>2, CyclesAre

LEMMA CounterHolds ==
  ASSUME AgcInv
  PROVE  UpdateCounterHolds
<1> DEFINE cycles == UpdateCycles(agcConf, agcClock.clkrf)
<1>1. cycles \in Nat /\ cycles <= 131071 BY AgcCycles
<1>2. agcWords.update = UpdateCounter(cycles)
  BY DEF AgcInv, GcUpdate
<1> HIDE DEF cycles
<1>4. CASE cycles > 65535
  <2>2. UpdateCounter(cycles) = [double |-> TRUE, counter |-> cycles \div 2]
    BY <1>4 DEF UpdateCounter
  <2>3. cycles \div 2 <= 65535 /\ 2 * (cycles \div 2) \in {cycles, cycles - 1} BY <1>1
  <2> QED BY <1>2, <2>2, <2>3 DEF UpdateCounterHolds, cycles
<1>5. CASE ~(cycles > 65535)
  <2>2. UpdateCounter(cycles) = [double |-> FALSE, counter |-> cycles]
    BY <1>5 DEF UpdateCounter
  <2>3. cycles <= 65535 /\ 1 * cycles \in {cycles, cycles - 1} BY <1>1, <1>5
  <2> QED BY <1>2, <2>2, <2>3 DEF UpdateCounterHolds, cycles
<1> QED BY <1>4, <1>5

LEMMA MeasuredFits ==
  ASSUME AgcInv
  PROVE  MeasuredTwice
<1> DEFINE clkrf == agcClock.clkrf
           rate == agcClock.rate
           cycles == UpdateCycles(agcConf, clkrf)
           fir == RoundDiv(clkrf, rate)
           slow == agcConf.slowDur
<1>1. clkrf \in Nat /\ rate \in Nat /\ 0 < rate /\ rate <= clkrf
  BY AgcAssumption DEF AgcInv
<1>2. slow \in Nat /\ slow > 0 /\ slow < 1048576
  BY AgcAssumption DEF AgcInv
<1>3. cycles \in Nat /\ cycles <= 131071 BY AgcCycles
<1>4. fir \in Nat /\ fir > 0
  <2> HIDE DEF clkrf, rate
  <2> DEFINE x == clkrf + rate \div 2
  <2>1. x \in Nat /\ 1 * rate <= x BY <1>1
  <2>2. fir = x \div rate BY DEF RoundDiv
  <2> HIDE DEF x
  <2>3. x \div rate \in Nat /\ 1 <= x \div rate BY <1>1, <2>1, DivisionIs
  <2> QED BY <2>2, <2>3
<1>5. agcWords.measure = Log2(MeasureDuration(agcConf, agcClock, agcFast) \div 16)
  BY DEF AgcInv, GcUpdate
<1>6. agcFast \in BOOLEAN BY DEF AgcInv
<1>7. /\ cycles = UpdateCycles(agcConf, agcClock.clkrf)
      /\ fir = RoundDiv(agcClock.clkrf, agcClock.rate)
      /\ slow = agcConf.slowDur
  OBVIOUS
<1> DEFINE samples == (cycles * 2) \div fir
           short == cycles \div fir
           m == MeasureDuration(agcConf, agcClock, agcFast)
<1>8. MeasuredTwice <=> (~agcFast /\ samples >= 32 => FitsTwice(agcWords.measure, samples))
  BY DEF MeasuredTwice
<1>9. agcFast = FALSE => m = IF samples \div slow < 2 THEN short ELSE slow
  BY DEF MeasureDuration
<1> HIDE DEF clkrf, rate, cycles, fir, slow
<1>10. samples \in Nat
  <2>1. cycles * 2 \in Nat BY <1>3
  <2> QED BY <1>4, <2>1, DivisionIs
<1>11. short \in Nat /\ short < 1048576 /\ 2 * short <= samples
  BY <1>3, <1>4, QuickFits
<1>12. agcWords.measure = Log2(m \div 16) BY <1>5
<1> HIDE DEF samples, short, m
<1>13. ASSUME agcFast = FALSE, samples >= 32 PROVE FitsTwice(agcWords.measure, samples)
  <2>1. CASE samples \div slow < 2
    <3>1. m = short BY <1>9, <1>13, <2>1
    <3> QED BY <1>10, <1>11, <1>12, <1>13, <3>1, TwiceFits
  <2>2. CASE ~(samples \div slow < 2)
    <3>1. 2 <= samples \div slow BY <1>2, <1>10, <2>2
    <3>2. 2 * slow <= samples BY <1>2, <1>10, <3>1, SlowFits
    <3>3. m = slow BY <1>9, <1>13, <2>2
    <3> QED BY <1>2, <1>10, <1>12, <1>13, <3>2, <3>3, TwiceFits
  <2> QED BY <2>1, <2>2
<1> QED BY <1>6, <1>8, <1>13

LEMMA RssiWordsAre ==
  ASSUME AgcInv, NEW n, n = InSamples(rssiConf, agcClock.rate, rssiConf.duration)
  PROVE  /\ rssiWords.durations = Durations(n)
         /\ rssiWords.weights = Weights(Durations(n))
         /\ rssiWords.powerOfTwo <=> Left(n) = 0 /\ DOMAIN Durations(n) = {1}
<1> DEFINE m == InSamples(rssiConf, agcClock.rate, rssiConf.duration)
           d == Durations(m)
           w == Weights(d)
           x == RssiDelay(rssiConf, agcClock.rate)
           y == RssiWait(rssiConf, agcClock.rate)
           power == Left(m) = 0 /\ DOMAIN d = {1}
<1>1. RssiSetup(rssiConf, agcClock) =
        [durations |-> d, weights |-> w, delay |-> x, wait |-> y, powerOfTwo |-> power]
  BY DEF RssiSetup
<1>2. rssiWords = RssiSetup(rssiConf, agcClock) BY DEF AgcInv
<1>3. power \in BOOLEAN OBVIOUS
<1> HIDE DEF d, w, x, y, power
<1>4. rssiWords.durations = d /\ rssiWords.weights = w /\ rssiWords.powerOfTwo = power
  BY <1>1, <1>2
<1>5. rssiWords.powerOfTwo <=> power
  BY <1>3, <1>4
<1>6. rssiWords.powerOfTwo <=> Left(m) = 0 /\ DOMAIN Durations(m) = {1}
  BY <1>5 DEF power, d
<1>7. rssiWords.durations = Durations(m) /\ rssiWords.weights = Weights(Durations(m))
  BY <1>4 DEF d, w
<1>8. m = n OBVIOUS
<1> HIDE DEF m
<1> QED BY <1>6, <1>7, <1>8

LEMMA RssiFollows ==
  ASSUME AgcInv
  PROVE  RssiFollowsRate
<1> SUFFICES ASSUME ~rssiConf.samples PROVE RssiFollowsRate
  BY DEF RssiFollowsRate
<1> DEFINE asked == rssiConf.duration * agcClock.rate
           n == RoundDiv(asked, 1000)
           d == Durations(n)
<1>1. asked \in Nat
  <2>1. rssiConf.duration \in Nat /\ agcClock.rate \in Nat
    BY AgcAssumption DEF AgcInv
  <2> QED BY <2>1
<1>2. n = InSamples(rssiConf, agcClock.rate, rssiConf.duration)
  BY DEF InSamples
<1>3. /\ rssiWords.durations = d
      /\ rssiWords.powerOfTwo <=> Left(n) = 0 /\ DOMAIN d = {1}
  BY <1>2, RssiWordsAre
<1>4. RssiFollowsRate <=>
        /\ Total(rssiWords.durations) * 1000 <= asked + 500
        /\ 4 \notin DOMAIN rssiWords.durations => Total(rssiWords.durations) * 1000 >= asked - 500
        /\ rssiWords.powerOfTwo <=> \E k \in 0..14 : n = TwoTo(k)
  BY DEF RssiFollowsRate
<1> HIDE DEF asked
<1>5. n \in Nat /\ n * 1000 <= asked + 500 /\ n * 1000 >= asked - 500
  BY <1>1 DEF RoundDiv
<1> HIDE DEF n, d
<1>6. /\ Total(d) \in Nat /\ Total(d) <= n
      /\ 4 \notin DOMAIN d => Total(d) = n
      /\ DOMAIN d = {1} <=> n > 0 /\ Left(n) = 0
  BY <1>5, DurationsAre DEF d
<1>7. (\E k \in 0..14 : n = TwoTo(k)) <=> n > 0 /\ Left(n) = 0
  BY <1>5, LeftOfPower
<1>8. Total(d) * 1000 <= asked + 500 BY <1>1, <1>5, <1>6
<1>9. 4 \notin DOMAIN d => Total(d) * 1000 >= asked - 500 BY <1>5, <1>6
<1> QED BY <1>3, <1>4, <1>6, <1>7, <1>8, <1>9

LEMMA WeightsAreFair ==
  ASSUME AgcInv
  PROVE  WeightsUpToThree
<1> DEFINE n == InSamples(rssiConf, agcClock.rate, rssiConf.duration)
           d == Durations(n)
<1>1. n \in Nat
  <2>1. rssiConf.duration \in Nat /\ agcClock.rate \in Nat
    BY AgcAssumption DEF AgcInv
  <2> DEFINE x == rssiConf.duration * agcClock.rate
  <2>2. x \in Nat BY <2>1
  <2>3. n = IF rssiConf.samples THEN rssiConf.duration ELSE RoundDiv(x, 1000)
    BY DEF InSamples
  <2> HIDE DEF n, x
  <2>4. RoundDiv(x, 1000) \in Nat BY <2>2 DEF RoundDiv
  <2> QED BY <2>1, <2>3, <2>4
<1>2. rssiWords.durations = d /\ rssiWords.weights = Weights(d)
  BY DEF AgcInv, RssiSetup
<1> HIDE DEF n
<1>3. /\ DOMAIN d \in {{}, {1}, {1, 2}, {1, 2, 3}, {1, 2, 3, 4}}
      /\ \A i \in DOMAIN d : d[i] \in 0..14
  BY <1>1, DurationsAre
<1> HIDE DEF d
<1>4. ASSUME 1 \in DOMAIN d, 4 \notin DOMAIN d PROVE Fair(d)
  <2>1. DOMAIN d = {1} \/ DOMAIN d = {1, 2} \/ DOMAIN d = {1, 2, 3}
    BY <1>3, <1>4
  <2>2. CASE DOMAIN d = {1} BY <1>3, <2>2, OneIsFair
  <2>3. CASE DOMAIN d = {1, 2} BY <1>3, <2>3, TwoAreFair
  <2>4. CASE DOMAIN d = {1, 2, 3} BY <1>3, <2>4, ThreeAreFair
  <2> QED BY <2>1, <2>2, <2>3, <2>4
<1> QED BY <1>2, <1>4 DEF WeightsUpToThree, Fair

\* What the gain control and the RSSI are given in cycles and samples lasts as long
\* as it was asked to at the clocks in force, through every change of the clocks
\* (ad9361_bb_clk_change_handler) and of the mode, for every configuration.
THEOREM TimesAreKept == AgcSpec => []TimesFollowClocks
<1>1. AgcInit => AgcInv
  BY DEF AgcInit, AgcInv
<1>2. AgcInv /\ [AgcNext]_agcVars => AgcInv'
  BY AgcStep
<1>3. AgcInv => TimesFollowClocks
  BY LevelsAre, SettlingLasts, CounterHolds, MeasuredFits, RssiFollows, WeightsAreFair
  DEF TimesFollowClocks
<1> QED BY <1>1, <1>2, <1>3, PTL DEF AgcSpec
=============================================================================
