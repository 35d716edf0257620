-------------------------------- MODULE Setup --------------------------------
(***************************************************************************)
(* Set-up of the AD9361 (ad9361_init, ad9361_setup, ad9361_set_no_ch_mode), *)
(* where every step may fail, the synchronisation of two chips              *)
(* (ad9361_do_mcs), and the auxiliary DAC.                                  *)
(*                                                                         *)
(* The fields of `dev` are                                                  *)
(*   exists           ad9361_init has returned the device                   *)
(*   bbRef, synthRef  the reference frequencies, in kHz; 0 before            *)
(*   ext, mux         pdata's use_ext_rx_lo and _tx_lo, and the LO in use    *)
(*   attenSet, calibrated, tracking, active      steps the chip went through *)
(*   autoCal          a large change of the TX LO calibrates again          *)
(***************************************************************************)
EXTENDS Integers, Sequences

CONSTANTS
  Refins,        \* frequencies of the reference clock, in kHz
  MaxFrefs,      \* pdata's trx_synth_max_fref, in kHz
  AuxValues,     \* voltages asked of the auxiliary DAC, in mV
  SyncPins,      \* the chips, of {"master", "slave"}, whose gpio_sync is valid
  MaxSetupCalls  \* bound: the calls made

ASSUME SetupAssumption ==
  /\ Refins \subseteq Nat \ {0} /\ MaxFrefs \subseteq Nat \ {0}
  /\ AuxValues \subseteq Nat

VARIABLES
  refin, maxFref, dev, setupCalls,
  extAsked,      \* ghost: the LOs asked for
  broken,        \* ghost: a set-up has failed since the device was returned
  lostExt,       \* ghost: the LOs a failed set-up has forgotten
  aux,           \* the auxiliary DAC: [asked, code, vref, off]
  mcs            \* the synchronisation: [step, who, mask, ensm, before, pulse]

setupVars == <<refin, maxFref, dev, setupCalls, extAsked, broken, lostExt, aux, mcs>>

MAX_BBPLL_FREF == 70000
MIN_SYNTH_FREF == 10000
MAX_SYNTH_FREF == 80000
SetupSides == {"rx", "tx"}
Chips == {"slave", "master"}

-----------------------------------------------------------------------------
(***************************************************************************)
(* ad9361_setup.                                                           *)
(***************************************************************************)

\* ad9361_ref_div_sel; 0 if there is no divider
RefDivSel(f, max) ==
  IF f <= max \div 2 THEN 2 * f ELSE IF f <= max THEN f
  ELSE IF f <= 2 * max THEN f \div 2 ELSE IF f <= 4 * max THEN f \div 4 ELSE 0

\* The steps that return an error, in their order
Steps == <<"bbref", "chain", "port", "synthref", "rxcp", "txcp", "rxlo", "txlo", "gain",
           "filters", "bbdc", "rfdc", "quad", "mode", "atten", "rssi", "end">>
Place(s) == CHOOSE i \in 1..Len(Steps) : Steps[i] = s
Frefs == LET low(a, b) == IF a < b THEN a ELSE b  high(a, b) == IF a < b THEN b ELSE a
         IN [bb |-> RefDivSel(refin, MAX_BBPLL_FREF),
             synth |-> RefDivSel(refin, low(high(maxFref, MIN_SYNTH_FREF), MAX_SYNTH_FREF))]
\* The step a set-up ends at: the one that fails, or the first whose reference
\* there is none for
EndOf(fault) ==
  IF Frefs.bb = 0 THEN "bbref"
  ELSE IF Frefs.synth = 0 /\ Place(fault) >= Place("synthref") THEN "synthref" ELSE fault

\* The flags of the external LOs are cleared while the LOs are tuned, and lost if
\* that fails.
\* Mutant: they are not put back.
FlagsCleared(x, tuning, tuned) == IF tuning THEN [s \in SetupSides |-> FALSE] ELSE x.ext
FlagsAfter(x, tuning, tuned) == IF tuning /\ ~tuned THEN [s \in SetupSides |-> FALSE] ELSE x.ext

\* The chip is active only when everything has succeeded.
ActiveAfter(last) == last = "end"

\* The state after a set-up of a chip that was reset, which ended at `last`
SetupTo(x, last) ==
  LET did(s) == Place(s) < Place(last)
  IN [x EXCEPT !.bbRef = IF did("bbref") THEN Frefs.bb ELSE 0,
               !.synthRef = IF did("synthref") THEN Frefs.synth ELSE 0,
               !.ext = FlagsAfter(x, did("txcp"), did("txlo")),
               !.mux = IF did("txlo") THEN FlagsAfter(x, TRUE, TRUE) ELSE [s \in SetupSides |-> FALSE],
               !.calibrated = did("quad"), !.tracking = did("quad"), !.attenSet = did("atten"),
               !.active = ActiveAfter(last), !.autoCal = x.autoCal \/ last = "end"]

-----------------------------------------------------------------------------
(***************************************************************************)
(* The calls on one device.                                                *)
(***************************************************************************)

NoDevice ==
  [exists |-> FALSE, bbRef |-> 0, synthRef |-> 0, ext |-> [s \in SetupSides |-> FALSE],
   mux |-> [s \in SetupSides |-> FALSE], calibrated |-> FALSE, tracking |-> FALSE,
   attenSet |-> FALSE, active |-> FALSE, autoCal |-> FALSE]
Quiet == [step |-> -1, who |-> "slave", mask |-> [c \in Chips |-> {}],
          ensm |-> [c \in Chips |-> "fdd"], before |-> "fdd", pulse |-> [c \in Chips |-> 0]]
\* ad9361_auxdac_setup with the default of 0 mV
AuxOff == [asked |-> 0, code |-> 0, vref |-> 0, off |-> TRUE]
SetupInit ==
  /\ refin \in Refins /\ maxFref \in MaxFrefs /\ setupCalls = 0
  /\ dev = NoDevice /\ extAsked = NoDevice.ext /\ broken = FALSE /\ lostExt = {}
  /\ aux = AuxOff
  /\ mcs = Quiet

\* ad9361_init: what was allocated is freed if set-up fails.
Returned(x) == IF x.active THEN x ELSE NoDevice

\* ad9361_init
InitDevice ==
  \E fault \in {Steps[i] : i \in 1..Len(Steps)}, ext \in [SetupSides -> BOOLEAN] :
    LET x == SetupTo([NoDevice EXCEPT !.exists = TRUE, !.ext = ext], EndOf(fault))
    IN /\ ~dev.exists
       /\ dev' = Returned(x)
       /\ extAsked' = IF dev'.exists THEN ext ELSE extAsked
       /\ UNCHANGED <<broken, lostExt>>

\* ad9361_set_no_ch_mode: the results of the set-up are dropped.
SetUpAgain ==
  \E fault \in {Steps[i] : i \in 1..Len(Steps)} :
    LET last == EndOf(fault)
    IN /\ dev.exists
       /\ dev' = SetupTo(dev, last)
       /\ broken' = (last # "end")
       /\ lostExt' = IF Place(last) \in {Place("rxlo"), Place("txlo")} THEN SetupSides ELSE lostExt
       /\ UNCHANGED extAsked

\* ad9361_set_rx_lo_int_ext, ad9361_set_tx_lo_int_ext
SetLoExt ==
  \E s \in SetupSides, on \in BOOLEAN :
    /\ dev.exists
    /\ dev' = [dev EXCEPT !.ext[s] = on, !.mux[s] = on]
    /\ extAsked' = [extAsked EXCEPT ![s] = on] /\ lostExt' = lostExt \ {s}
    /\ UNCHANGED broken

-----------------------------------------------------------------------------
(***************************************************************************)
(* The auxiliary DAC and the synchronisation of two chips.                  *)
(***************************************************************************)

\* ad9361_auxdac_set: the code for a voltage
AuxCode(mV) ==
  LET v == IF mV < 306 THEN 306 ELSE mV
      code == IF v < 1888 THEN ((v - 306) * 1000) \div 1469 ELSE ((v - 1761) * 1000) \div 1512
  IN [vref |-> IF v < 1888 THEN 0 ELSE 3, code |-> IF code > 1023 THEN 1023 ELSE code]
SetAux ==
  \E mV \in AuxValues :
    LET c == AuxCode(mV)
    IN /\ mcs = Quiet
       /\ aux' = [asked |-> mV, code |-> c.code, vref |-> c.vref, off |-> mV = 0]
       /\ UNCHANGED mcs

\* ad9361_do_mcs begins: both chips go to ALERT.
McsStart ==
  /\ mcs = Quiet /\ aux = AuxOff
  /\ \E m \in {"fdd", "alert", "rx"} :
       mcs' = [Quiet EXCEPT !.step = 0, !.before = m, !.ensm = [c \in Chips |-> "alert"]]
  /\ UNCHANGED aux

\* ad9361_mcs: step 0 goes on into step 1; steps 2 and 4 are pulses of the SYNC_IN
\* of the chips whose pin is known.
McsStep(m, c) ==
  CASE m.step \in {0, 1} -> [m EXCEPT !.mask[c] = {"bb", "bbpll", "rf"}]
    [] m.step = 3 -> [m EXCEPT !.mask[c] = {"bb", "clk", "rf"}]
    [] m.step = 5 -> [m EXCEPT !.mask[c] = {"rf"}]
    [] OTHER -> IF c \in SyncPins THEN [m EXCEPT !.pulse[c] = @ + 1] ELSE m
\* Mutant: a chip goes through all the steps before the other.
McsTurnAlone(m) ==
  IF m.step < 5 THEN [m EXCEPT !.step = @ + 1]
  ELSE IF m.who = "slave" THEN [m EXCEPT !.who = "master", !.step = 0] ELSE [m EXCEPT !.step = 6]
\* The chips take turns in every step.
McsTurn(m) ==
  IF m.who = "slave" THEN [m EXCEPT !.who = "master"] ELSE [m EXCEPT !.who = "slave", !.step = @ + 1]
McsGo ==
  /\ mcs.step \in 0..5
  /\ mcs' = McsTurn(McsStep(mcs, mcs.who))
  /\ UNCHANGED aux

\* ad9361_do_mcs ends: both chips go to the state the master was in.
McsEnd ==
  /\ mcs.step = 6
  /\ mcs' = [mcs EXCEPT !.step = -1, !.ensm = [c \in Chips |-> mcs.before]]
  /\ UNCHANGED aux

\* Bound: these do not depend on the references or the calls; one board is enough.
OneBoard == /\ refin = (CHOOSE f \in Refins : TRUE) /\ maxFref = (CHOOSE f \in MaxFrefs : TRUE)
            /\ setupCalls = 0
SetupNext ==
  /\ UNCHANGED <<refin, maxFref>>
  /\ \/ /\ setupCalls < MaxSetupCalls /\ setupCalls' = setupCalls + 1
        /\ InitDevice \/ SetUpAgain \/ SetLoExt
        /\ UNCHANGED <<aux, mcs>>
     \/ /\ OneBoard /\ UNCHANGED <<setupCalls, dev, extAsked, broken, lostExt>>
        /\ SetAux \/ McsStart \/ McsGo \/ McsEnd

SetupSpec == SetupInit /\ [][SetupNext]_setupVars

-----------------------------------------------------------------------------
(***************************************************************************)
(* Properties.                                                             *)
(***************************************************************************)

SetupTypeOK ==
  /\ aux.code \in 0..1023 /\ aux.vref \in {0, 3}
  /\ mcs.step \in -1..6 /\ mcs.who \in Chips
  /\ lostExt \subseteq SetupSides

\* The user has a device only if its set-up went through, until a later one of
\* the same device fails.
DeviceReady ==
  dev.exists /\ ~broken => dev.active /\ dev.calibrated /\ dev.tracking /\ dev.attenSet

\* A set-up that fails leaves the chip inactive: it does not transmit before its
\* attenuation is set.
SilentUntilAttenuated == dev.active => dev.attenSet

\* The references are within the limits the dividers are chosen for.
ReferencesInRange ==
  dev.active => dev.bbRef \in 1..MAX_BBPLL_FREF /\ dev.synthRef \in 1..MAX_SYNTH_FREF
                /\ (MIN_SYNTH_FREF <= maxFref => dev.synthRef <= maxFref)

\* An external LO stays the one in use through a set-up, for which it is put
\* aside, unless the set-up failed when it was.
ExternalLoKept ==
  dev.exists =>
    /\ \A s \in SetupSides \ lostExt : dev.ext[s] = extAsked[s]
    /\ ~broken => dev.mux = dev.ext

\* The auxiliary DAC gives the voltage asked for within one step, in the ranges of
\* its two references (they leave out 1811 to 1887 mV, where it gives 1809).
VoltageGiven(a) ==
  LET out == IF a.vref = 0 THEN 306000 + a.code * 1469 ELSE 1761000 + a.code * 1512
  IN a.asked \in 306..1810 \cup 1888..3308 => out - 1000 * a.asked \in -1511..0
AuxVoltage == VoltageGiven(aux)

\* A pulse meets both chips in the same step: "HDL ensures Multi-chip
\* Synchronization SYNC_IN Pulse Timing" for chips that wait for it.
PulsesMeetBoth ==
  [][mcs'.pulse # mcs.pulse /\ mcs'.step # -1 /\ mcs.step # -1 =>
       mcs.mask["slave"] = mcs.mask["master"] /\ mcs.mask["slave"] # {}]_mcs

\* Both chips end in the state the master was in, with nothing of the
\* synchronisation on but the RF part.
SyncedChipsReturn ==
  mcs.step = -1 /\ mcs.pulse # [c \in Chips |-> 0] =>
    \A c \in Chips : mcs.ensm[c] = mcs.before /\ mcs.mask[c] = {"rf"}

\* A set-up ends with a device that is ready or with none that transmits, clocked
\* within its limits, on the LOs and the auxiliary voltage the user had chosen.
SetupSafe ==
  DeviceReady /\ SilentUntilAttenuated /\ ReferencesInRange /\ ExternalLoKept /\ AuxVoltage

\* The synchronisation of two chips: each pulse meets both, and both come back.
ChipsSynchronised == []SyncedChipsReturn /\ PulsesMeetBoth
=============================================================================
