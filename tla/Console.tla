------------------------------- MODULE Console -------------------------------
(***************************************************************************)
(* The console: console.c reads a line, finds its command and its parameters, *)
(* and prints; command.c's handlers call the driver's interface and the tone  *)
(* generators of DacCore. A line is its name, the character after it and what *)
(* stands between the blanks that follow; a word is its digits.             *)
(*                                                                         *)
(* The fields of `con` are                                                  *)
(*   param, no    the parameters' buffer and how many a line had             *)
(*   line         the last line                                             *)
(*   asked        the last call of the driver's interface, or <<>>           *)
(*   used         the parameter the last handler acted on, or <<>>           *)
(*   told, shown  the number the last handler printed, and the word it gave  *)
(***************************************************************************)
EXTENDS DacCore, SequencesExt

CONSTANTS
  ConsoleLines,  \* lines typed, [name, op, words]: words of less than ten
                 \* characters, at most five (the buffers hold no more)
  Beyond         \* what may stand after the buffer of int_to_str, up to a NUL

\* Words are as main's buffers hold them.
ConsoleAssumption ==
  /\ Beyond \subseteq Seq(0..16) /\ Beyond # {}
  /\ \A line \in ConsoleLines :
       line.words \in Seq([neg : BOOLEAN, hex : BOOLEAN, digits : Seq(0..16)]) /\ Len(line.words) <= 5
ASSUME ConsoleAssumption

VARIABLE con

consoleVars == <<dacVars, con>>

-----------------------------------------------------------------------------
(***************************************************************************)
(* Numbers: a word is [neg, hex, digits]; the digit 16 is a character that   *)
(* is none of 0-9 and A-F.                                                  *)
(***************************************************************************)

\* int_to_str: at least one digit. The last is put in the place of the buffer's NUL,
\* so that the string goes on with what follows the buffer.
IntToStr(n, base) ==
  LET digits[x \in Nat] == (IF x < base THEN <<>> ELSE digits[x \div base]) \o <<x % base>>
  IN {[neg |-> n < 0 /\ base = 10, hex |-> FALSE, digits |-> digits[Magnitude(n)] \o tail] :
        tail \in Beyond}

\* console_print: %d, and %x, which gives no digit for zero
PrintedDec(n) == IntToStr(n, 10)
PrintedHex(n) ==
  IF n = 0 THEN {[neg |-> FALSE, hex |-> TRUE, digits |-> <<>>]}
  ELSE {[word EXCEPT !.hex = TRUE] : word \in IntToStr(n, 16)}

\* Characters that are no digit are passed over after "0x", and end a decimal (atof).
Over(w, i) == IF w.hex THEN w.digits[i] = 16 ELSE \E j \in 1..i : w.digits[j] > 9
\* The number a word is read as; nothing is zero.
ReadWord(w) ==
  LET base == IF w.hex THEN 16 ELSE 10
      value[i \in 0..Len(w.digits)] ==
        IF i = 0 THEN 0 ELSE IF Over(w, i) THEN value[i - 1] ELSE base * value[i - 1] + w.digits[i]
  IN IF w.neg THEN -value[Len(w.digits)] ELSE value[Len(w.digits)]

Empty == [neg |-> FALSE, hex |-> FALSE, digits |-> <<>>]
\* A blank ends a parameter, if only an empty one; the end of the line does if there
\* is something before it.
Words(words) ==
  IF words # <<>> /\ Last(words) = Empty THEN Front(words) ELSE words
\* console_check_commands: the parameters over those of earlier lines
Params(before, words) ==
  LET read == Words(words)
  IN [i \in 1..5 |-> IF i <= Len(read) THEN ReadWord(read[i]) ELSE before[i]]

\* Mutant: the parameters are counted on from those of the line before.
ParamNoKept(before, words) == before + Len(Words(words))
\* main: the number of parameters is reset for each command.
ParamNo(before, words) == Len(Words(words))

-----------------------------------------------------------------------------
(***************************************************************************)
(* The commands.                                                           *)
(***************************************************************************)

\* A parameter in the handler's variable, by its bits. A negative number has no place
\* in an unsigned one: the conversion is undefined, it gives zero or, where the
\* variable is narrower than the registers, the last bits.
Signed == {"rx1_rf_gain", "rx2_rf_gain", "scale"}
Bits(what) ==
  CASE what \in {"tx_fir_en", "rx_fir_en", "rx1_gc_mode", "rx2_gc_mode"} -> 8
    [] what = "register" -> 16 [] OTHER -> 32
Held(what, p) ==
  IF what \in Signed \/ (Bits(what) = 32 /\ p >= 0) THEN {p}
  ELSE IF Bits(what) = 32 THEN {0}
  ELSE {p % 2^Bits(what)} \cup (IF p < 0 THEN {0} ELSE {})

Radio(what) == [tx |-> 0, tone |-> 0, what |-> what]
RadioNames == {Radio(what) : what \in
  {"tx_lo_freq", "tx_samp_freq", "tx_rf_bandwidth", "tx1_attenuation", "tx2_attenuation",
   "tx_fir_en", "rx_lo_freq", "rx_samp_freq", "rx_rf_bandwidth", "rx1_gc_mode", "rx2_gc_mode",
   "rx1_rf_gain", "rx2_rf_gain", "rx_fir_en"}}
\* dds_tx1_tone1_freq and its like
ToneNames == [tx : {1, 2}, tone : {1, 2}, what : {"freq", "phase", "scale"}]
Commands ==
  {<<Radio("help"), "?">>, <<Radio("register"), "?">>} \cup (RadioNames \cup ToneNames) \X {"?", "="}

Tone(x, part) == ToneChannel(x.tx, part, x.tone)

\* set_dds_tx1_tone1_freq ..; typed in Hz
SetToneFreq(d, x, hz) ==
  ToneFrequency(ToneFrequency(d, Tone(x, "I"), hz \div 1000), Tone(x, "Q"), hz \div 1000)
\* set_dds_tx1_tone1_phase ..: Q a quarter period after I
SetTonePhase(d, x, deg) ==
  TonePhase(TonePhase(d, Tone(x, "I"), deg * 1000), Tone(x, "Q"),
            (IF deg < 90 THEN deg + 270 ELSE deg - 90) * 1000)
\* set_dds_tx1_tone1_scale ..
SetToneScale(d, x, micro) ==
  LET i == ToneScale(d, Tone(x, "I"), micro)
  IN IF i.dead THEN i ELSE ToneScale(i, Tone(x, "Q"), micro)

\* get_dds_tx1_tone1_freq ..: what is remembered of I
ToneTold(d, x) ==
  CASE x.what = "freq" -> d.freq[Tone(x, "I")] * 1000
    [] x.what = "phase" -> d.phase[Tone(x, "I")] \div 1000
    [] x.what = "scale" -> d.scale[Tone(x, "I")]

ToneCommand(c, x, op) ==
  LET set(p) == CASE x.what = "freq" -> SetToneFreq(dac, x, p)
                  [] x.what = "phase" -> SetTonePhase(dac, x, p)
                  [] x.what = "scale" -> SetToneScale(dac, x, p)
  IN IF op = "?"
     THEN \E word \in PrintedDec(ToneTold(dac, x)) :
            /\ con' = [c EXCEPT !.told = ToneTold(dac, x), !.shown = word]
            /\ UNCHANGED <<dac, stale>>
     ELSE \E p \in Held(x.what, c.param[1]) : \E word \in PrintedDec(ToneTold(set(p), x)) :
            /\ c.no >= 1 /\ dac' = set(p)
            /\ con' = [c EXCEPT !.used = <<c.param[1]>>, !.told = ToneTold(set(p), x), !.shown = word]
            /\ UNCHANGED stale

\* set_tx_samp_freq, set_rx_samp_freq: refused or not, the tones are set again; the
\* rate that was obtained is printed.
SampFreqCommand(c, x) ==
  \E p \in Held(x.what, c.param[1]) : \E rate \in {dac.rate} \cup ({p \div 1000} \cap DacRates) :
    \E word \in PrintedDec(rate * 1000) :
      /\ c.no >= 1
      /\ dac' = UpdateTones([dac EXCEPT !.rate = rate]) /\ stale' = FALSE
      /\ con' = [c EXCEPT !.used = <<c.param[1]>>, !.asked = <<x.what, p>>,
                          !.told = rate * 1000, !.shown = word]

\* set_tx_fir_en, set_rx_fir_en: with filters from a file the rate may become the file's.
FirCommand(c, x) ==
  \E p \in Held(x.what, c.param[1]) : \E word \in PrintedDec(p) :
    \E rate \in IF dacBoard.firFile THEN DacRates ELSE {dac.rate} :
      /\ c.no >= 1 /\ dac' = [dac EXCEPT !.rate = rate] /\ stale' = (stale \/ rate # dac.rate)
      /\ con' = [c EXCEPT !.used = <<c.param[1]>>, !.asked = <<x.what, p>>,
                          !.told = p, !.shown = word]

\* The other commands of the radio: the value is passed on and printed, whatever the
\* driver makes of it; the LO in MHz, an attenuation, a bandwidth and a gain as typed.
SetRadio(c, x) ==
  LET silent == x.what = "tx_rf_bandwidth"
  IN \E p \in Held(x.what, c.param[1]) : \E word \in IF silent THEN {Empty} ELSE PrintedDec(p) :
       /\ c.no >= 1
       /\ con' = [c EXCEPT !.used = <<c.param[1]>>, !.asked = <<x.what, p>>,
                           !.told = IF silent THEN 0 ELSE p, !.shown = word]
       /\ UNCHANGED <<dac, stale>>
\* get_tx_lo_freq ..: the driver's answer; the rate of the samples is known here.
GetRadio(c, x) ==
  \E answer \in IF x.what \in {"tx_samp_freq", "rx_samp_freq"} THEN {dac.rate * 1000} ELSE {0, 71} :
    \E word \in PrintedDec(answer) :
      /\ con' = [c EXCEPT !.asked = <<x.what>>, !.told = answer, !.shown = word]
      /\ UNCHANGED <<dac, stale>>

\* get_register: the address is printed
GetRegister(c) ==
  \E addr \in Held("register", c.param[1]) : \E word \in PrintedHex(addr) :
    /\ c.no >= 1
    /\ con' = [c EXCEPT !.used = <<c.param[1]>>, !.asked = <<"register", addr>>,
                        !.told = addr, !.shown = word]
    /\ UNCHANGED <<dac, stale>>

\* No parameter where there must be one, help, or no command
NothingDone(c, name, op) ==
  /\ \/ <<name, op>> \notin Commands \/ name.what = "help"
     \/ c.no = 0 /\ (op = "=" \/ name.what = "register")
  /\ con' = c /\ UNCHANGED <<dac, stale>>

\* main's loop: one line
ConsoleLine ==
  \E line \in ConsoleLines :
    LET known == <<line.name, line.op>> \in Commands
        c == [con EXCEPT !.line = line, !.asked = <<>>, !.used = <<>>, !.told = 0, !.shown = Empty,
                         !.param = IF known THEN Params(@, line.words) ELSE @,
                         !.no = IF known THEN ParamNo(@, line.words) ELSE 0]
        radio == known /\ line.name \in RadioNames
    IN /\ \/ NothingDone(c, line.name, line.op)
          \/ known /\ line.name \in ToneNames /\ ToneCommand(c, line.name, line.op)
          \/ radio /\ line.op = "?" /\ GetRadio(c, line.name)
          \/ radio /\ line.op = "=" /\ line.name.what \in {"tx_samp_freq", "rx_samp_freq"} /\ SampFreqCommand(c, line.name)
          \/ radio /\ line.op = "=" /\ line.name.what \in {"tx_fir_en", "rx_fir_en"} /\ FirCommand(c, line.name)
          \/ radio /\ line.op = "=" /\ SetRadio(c, line.name)
             /\ line.name.what \notin {"tx_samp_freq", "rx_samp_freq", "tx_fir_en", "rx_fir_en"}
          \/ known /\ line.name.what = "register" /\ GetRegister(c)
       /\ UNCHANGED corrected

ConsoleInit ==
  /\ DacInit
  /\ con = [param |-> <<0, 0, 0, 0, 0>>, no |-> 0, line |-> [name |-> Radio(""), op |-> "", words |-> <<>>],
            asked |-> <<>>, used |-> <<>>, told |-> 0, shown |-> Empty]
ConsoleNext ==
  /\ dacCalls < MaxDacCalls /\ dacCalls' = dacCalls + 1 /\ ~dac.dead
  /\ UNCHANGED dacBoard
  /\ \/ ConsoleLine
     \/ DacCalls /\ UNCHANGED con
ConsoleSpec == ConsoleInit /\ [][ConsoleNext]_consoleVars

-----------------------------------------------------------------------------
(***************************************************************************)
(* Properties.                                                             *)
(***************************************************************************)

\* A handler acts on a number typed in its own line, the first of them: never on one
\* of an earlier line. (A blank before the first makes it a zero, see README.)
ActsOnWhatWasTyped ==
  con.used # <<>> =>
    /\ con.line.words # <<>>
    /\ con.line.words[1] # Empty => con.used[1] = ReadWord(con.line.words[1])

\* What a conversion writes into a register is the number it was given, to within a
\* step: the scales and the corrections of the cores.
ConversionsHold == ScalesInForce /\ CorrectionReadsBack
=============================================================================
