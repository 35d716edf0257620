------------------------------- MODULE MCBringup -------------------------------
(* Instances of the models of bringing up and using the board for TLC, one   *)
(* at a time: `focus` names the one that moves, the others rest in one state. *)
EXTENDS Tune, Calib, Setup, Console

CONSTANT Foci     \* the models that are in focus in a run
VARIABLE focus

MCTuneBoards ==
  { [skip |-> 0, firTune |-> TRUE, newCore |-> TRUE, slave |-> FALSE],
    [skip |-> 0, firTune |-> FALSE, newCore |-> FALSE, slave |-> TRUE],
    [skip |-> 1, firTune |-> TRUE, newCore |-> FALSE, slave |-> FALSE],
    [skip |-> 2, firTune |-> TRUE, newCore |-> TRUE, slave |-> FALSE] }
\* The filters delay the signal by one step, the fastest rate allows less
MCEye(w) ==
  [fir \in BOOLEAN |-> [s \in 1..3 |->
     LET shift == IF fir THEN 1 ELSE 0
     IN {d \in -3..3 : w[1] + shift <= d /\ d <= w[2] + shift - (s \div 3)}]]
MCEyes == {[rx |-> MCEye(v), tx |-> MCEye(w)] :
             v \in {<<0, 3>>, <<-3, 1>>, <<-2, -2>>}, w \in {<<-1, 1>>, <<2, 4>>, <<1, 1>>}}

MCCalBoards == {[inverted |-> b, managed |-> b] : b \in BOOLEAN}
MCCalClocks ==
  { [rf |-> 30720, tf |-> 30720, half |-> FALSE], [rf |-> 61440, tf |-> 30720, half |-> FALSE],
    [rf |-> 8000, tf |-> 4000, half |-> FALSE], [rf |-> 8000, tf |-> 8000, half |-> TRUE],
    [rf |-> 61440, tf |-> 15360, half |-> FALSE] }
MCCalBandwidths == {<<11000, 11000>>, <<500, 3000>>}
MCPhaseSets ==
  {{}, 12..17, {1, 2, 3} \cup 7..10, 0..2 \cup 29..31}

MCDacBoards ==
  { [port |-> "linux", version |-> 9, two |-> TRUE, lvds |-> TRUE, firFile |-> FALSE],
    [port |-> "xilinx", version |-> 7, two |-> FALSE, lvds |-> TRUE, firFile |-> TRUE],
    [port |-> "altera", version |-> 6, two |-> TRUE, lvds |-> FALSE, firFile |-> FALSE] }
MCCorrections == {<<0, -250000>>, <<0, 999999>>, <<1, 500001>>, <<-1, 0>>}
MCBeyond == {<<>>, <<7>>}
Decimal(d) == [neg |-> FALSE, hex |-> FALSE, digits |-> d]
Typed(what, op, words) == [name |-> Radio(what), op |-> op, words |-> words]
TypedTone(tx, tone, what, op, words) ==
  [name |-> [tx |-> tx, tone |-> tone, what |-> what], op |-> op, words |-> words]
MCConsoleLines ==
  { Typed("help", "?", <<>>), Typed("tx_lo_freq", "!", <<>>),
    Typed("register", "?", <<[neg |-> FALSE, hex |-> TRUE, digits |-> <<15, 16, 0>>]>>),
    Typed("tx_lo_freq", "=", <<Empty, Decimal(<<2, 4>>)>>), Typed("tx_lo_freq", "=", <<>>),
    Typed("rx1_rf_gain", "=", <<[neg |-> TRUE, hex |-> FALSE, digits |-> <<1, 0>>], Empty>>),
    Typed("rx2_rf_gain", "?", <<>>), Typed("tx_rf_bandwidth", "=", <<Decimal(<<5, 16>>)>>),
    Typed("tx_samp_freq", "=", <<Decimal(<<4, 0, 0, 0, 0, 0, 0>>)>>), Typed("rx_samp_freq", "?", <<>>),
    Typed("rx_fir_en", "=", <<Decimal(<<1>>)>>),
    Typed("rx1_gc_mode", "=", <<Decimal(<<2, 5, 8>>)>>),
    Typed("tx_fir_en", "=", <<[neg |-> TRUE, hex |-> FALSE, digits |-> <<1>>]>>),
    TypedTone(1, 1, "freq", "=", <<Decimal(<<1, 5, 0, 0, 0, 0, 0>>), Decimal(<<9>>)>>),
    TypedTone(1, 1, "freq", "?", <<>>), TypedTone(2, 1, "phase", "?", <<>>),
    TypedTone(2, 1, "phase", "=", <<Decimal(<<3, 0>>)>>),
    TypedTone(2, 1, "phase", "=", <<Decimal(<<1, 8, 1>>)>>),
    TypedTone(1, 2, "scale", "=", <<Decimal(<<2, 0, 0, 0, 0, 0, 0>>)>>),
    TypedTone(2, 2, "scale", "=", <<[neg |-> TRUE, hex |-> FALSE, digits |-> <<7, 0, 0, 0, 1>>]>>) }

\* The states in which a model rests that is not in focus
TuneRests == tuneBoard = (CHOOSE b \in TuneBoards : b.slave) /\ eye = CHOOSE e \in Eyes : TRUE
CalibRests == /\ calBoard = CHOOSE b \in CalBoards : TRUE
              /\ calClock = CHOOSE k \in CalClocks : k.half
              /\ cal.bw = <<11000, 11000>> /\ cal.phase = 0
SetupRests == refin = (CHOOSE f \in Refins : TRUE) /\ maxFref = CHOOSE f \in MaxFrefs : TRUE
ConsoleRests == dacBoard = (CHOOSE b \in DacBoards : b.port = "linux") /\ dac.rate = ResetRate
Init ==
  /\ focus \in Foci
  /\ TuneInit /\ (focus = "tune" \/ TuneRests)
  /\ CalibInit /\ (focus = "calib" \/ CalibRests)
  /\ SetupInit /\ (focus = "setup" \/ SetupRests)
  /\ ConsoleInit /\ (focus = "console" \/ ConsoleRests)
Next ==
  /\ UNCHANGED focus
  /\ \/ focus = "tune" /\ TuneNext /\ UNCHANGED <<calibVars, setupVars, consoleVars>>
     \/ focus = "calib" /\ CalibNext /\ UNCHANGED <<tuneVars, setupVars, consoleVars>>
     \/ focus = "setup" /\ SetupNext /\ UNCHANGED <<tuneVars, calibVars, consoleVars>>
     \/ focus = "console" /\ ConsoleNext /\ UNCHANGED <<tuneVars, calibVars, setupVars>>
Spec == Init /\ [][Next]_<<focus, tuneVars, calibVars, setupVars, consoleVars>>

\* What the models of bringing up and using the board keep of their types.
BringupTypeOK == TuneTypeOK /\ CalibTypeOK /\ SetupTypeOK /\ DacTypeOK
=============================================================================
