-------------------------------- MODULE Ensm --------------------------------
(***************************************************************************)
(* The enable state machine (ENSM) of the AD9361 and the driver that moves *)
(* it (sw/ad9361.c, ad9361_api.c, ad9361_conv.c).  The driver is one       *)
(* thread; what it runs beside is the chip, which leaves TX, RX and FDD    *)
(* through a flush that takes its time, and which follows its pins while   *)
(* ENABLE_ENSM_PIN_CTRL is set.                                            *)
(*                                                                         *)
(* The driver's call is a program in `todo`: a sequence of register        *)
(* accesses and of calls, each call expanded when it is reached, with the  *)
(* arguments and the registers it finds there.                             *)
(*                                                                         *)
(* The chip (config1, fddMode, txnrx, state, clocks) is modelled from how  *)
(* the driver uses it.  LEVEL_MODE, ENABLE_RX_DATA_PORT_FOR_CAL, the gain  *)
(* and VCO bits that the same calls write do not decide where the ENSM     *)
(* goes and are left out.                                                  *)
(*                                                                         *)
(* The driver does not wait for the flush it leaves behind (384 cycles of  *)
(* the ADC clock), and a call may start during it.  The history variable   *)
(* outrun only records that one has looked at the state then.              *)
(***************************************************************************)
EXTENDS Naturals, Sequences

VARIABLES
  plat,      \* phy->pdata: fdd, dualSynth (tdd_use_dual_synth), pinCtrl
  config1,   \* the bits set in REG_ENSM_CONFIG_1
  fddMode,   \* FDD_MODE in REG_ENSM_MODE
  txnrx,     \* TXNRX_SPI_CTRL in REG_ENSM_CONFIG_2: the TX synthesizer runs
  state,     \* REG_STATE, the four flush states as one
  clocks,    \* BBPLL and clocks on in REG_CLOCK_ENABLE
  tracking,  \* the tracking calibrations are enabled
  curr,      \* phy->curr_ensm_state
  prev,      \* phy->prev_ensm_state
  pinCtl,    \* phy->ensm_pin_ctl_en
  saved,     \* ensm_state, the local variable of ad9361_dig_tune
  todo,      \* what is left of the running call
  began,     \* ghost: who had control when the running call began, "PIN" or
             \* "SPI"; "ANY" when the call is to set it
  asked,     \* ghost: the state last asked for and granted, or "NONE"
  tuned,     \* ghost: the interface was tuned since
  outrun,    \* ghost: ad9361_ensm_force_state or ad9361_dig_tune has since
             \* found the chip in a flush
  failed     \* ghost: a change of bandwidth failed since tracking was last set

chip == <<config1, fddMode, txnrx, state, clocks, tracking>>
phy == <<curr, prev, pinCtl, saved>>
ghosts == <<began, asked, tuned, outrun, failed>>
vars == <<plat, chip, phy, todo, ghosts>>

Active == {"TX", "RX", "FDD"}
States == Active \cup {"WAIT", "ALERT", "FLUSH"}
Bits == {"toAlert", "forceAlert", "tx", "rx", "pin"}
Alert == {"toAlert", "forceAlert"}

-----------------------------------------------------------------------------
(***************************************************************************)
(* The chip.                                                               *)
(***************************************************************************)

\* Where the bits c send the chip.  FORCE_TX_ON counts though
\* FORCE_ALERT_STATE is still set: the delay scan forces FDD that way.
Goal(c) ==
  IF c \cap {"tx", "rx"} # {}
    THEN IF fddMode THEN "FDD" ELSE IF "tx" \in c THEN "TX" ELSE "RX"
    ELSE IF c \cap Alert # {} THEN "ALERT" ELSE "WAIT"

\* The state right after c is written.
After(c) ==
  IF ~clocks \/ state = "FLUSH" \/ "pin" \in c THEN state
  ELSE IF state \in Active /\ state # Goal(c) THEN "FLUSH"
  ELSE Goal(c)

\* The flush ends and the chip goes on to where CONFIG_1 sends it.
FlushEnd ==
  /\ state = "FLUSH"
  /\ state' = IF "pin" \in config1 THEN "ALERT" ELSE Goal(config1)
  /\ UNCHANGED <<plat, config1, fddMode, txnrx, clocks, tracking, phy, todo,
                 ghosts>>

\* Under pin control the ENABLE and TXNRX pins move the chip at any time.
PinMove ==
  /\ "pin" \in config1 /\ clocks
  /\ \/ state \in {"WAIT", "FLUSH"} /\ state' = "ALERT"
     \/ state = "ALERT" /\ state' \in IF fddMode THEN {"FDD"} ELSE {"TX", "RX"}
     \/ state \in Active /\ state' = "FLUSH"
  /\ UNCHANGED <<plat, config1, fddMode, txnrx, clocks, tracking, phy, todo,
                 ghosts>>

-----------------------------------------------------------------------------
(***************************************************************************)
(* The calls, as programs.                                                 *)
(***************************************************************************)

\* ad9361_set_intf_delay with clock_changed
SetIntfDelay == << <<"force", "ALERT">>, <<"force", "FDD">> >>

\* ad9361_dig_tune_delay: the errors at each delay are counted in FDD, for
\* both ends of the clock delay; then the best one is set.  The rates it goes
\* through at set-up are set with the filters bypassed (ad9361_clear_state),
\* so that none of them is tuned for (ad9361_set_trx_clock_chain).
DigTuneDelay(ok) ==
  LET scan == Append(SetIntfDelay, <<"run", "FDD">>)
  IN scan \o scan \o (IF ok THEN SetIntfDelay ELSE <<>>)

\* ad9361_set_en_state_machine_mode
SetMode(st, pinctrl) ==
  << <<"mode", plat.fdd, pinctrl>>, <<"state", st, pinctrl>> >>

\* Mutant: tracking is not enabled again after a calibration.
DoCalibRunUntracked ==
  << <<"track", FALSE>>, <<"force", "ALERT">>, <<"run", "ALERT">>,
     <<"restorePrev">> >>

\* ad9361_do_calib_run: the result of the calibration is overwritten.
DoCalibRun ==
  << <<"track", FALSE>>, <<"force", "ALERT">>, <<"run", "ALERT">>,
     <<"track", TRUE>>, <<"restorePrev">> >>

\* ad9361_update_rf_bandwidth: an error returns at once.
UpdateRfBandwidth ==
  << <<"track", FALSE>>, <<"force", "ALERT">>, <<"try", "ALERT">>,
     <<"track", TRUE>>, <<"restorePrev">> >>

\* Three calls that load tables between force and restore.
LoadFirFilterCoef ==
  << <<"force", "ALERT">>, <<"run", "ALERT">>, <<"restorePrev">> >>
ClkMuxSetParent == LoadFirFilterCoef
RssiGainStepCalib == LoadFirFilterCoef

\* ad9361_dig_tune: skip is RESTORE_DEFAULT or the skip mode, ok whether
\* the scan found a delay.
DigTune(skip, ok) ==
  LET duplex(fdd, pin) ==
        IF plat.fdd THEN <<>> ELSE << <<"mode", fdd, pin>> >>
      scan == duplex(TRUE, FALSE) \o DigTuneDelay(ok)
  IN << <<"save">> >>
     \o (IF skip THEN <<>> ELSE scan)
     \o (IF skip \/ ~ok THEN << <<"force", "ALERT">> >> ELSE <<>>)
     \o duplex(plat.fdd, plat.pinCtrl)
     \o << <<"restoreSaved">> >>

\* ad9361_dig_interface_timing_analysis goes the way of a tuning that fails.
TimingAnalysis == DigTune(FALSE, FALSE)

\* The end of ad9361_setup and ad9361_post_setup.
SetUp(ok) ==
  << <<"state", IF plat.fdd THEN "FDD" ELSE "RX", plat.pinCtrl>> >>
  \o DigTune(FALSE, ok) \o << <<"force", "ALERT">>, <<"restorePrev">> >>

Init ==
  /\ plat \in [fdd : BOOLEAN, dualSynth : BOOLEAN, pinCtrl : BOOLEAN]
  /\ config1 = IF plat.fdd THEN {"tx", "rx"} ELSE Alert
  /\ state = IF plat.fdd THEN "FDD" ELSE "ALERT"
  /\ fddMode = plat.fdd /\ txnrx = FALSE /\ clocks = TRUE /\ tracking = TRUE
  /\ curr = state /\ prev = "WAIT" /\ pinCtl = FALSE /\ saved = "WAIT"
  /\ \E ok \in BOOLEAN : todo = SetUp(ok)
  /\ began = "ANY" /\ asked = "NONE" /\ tuned = FALSE
  /\ outrun = FALSE /\ failed = FALSE

\* The user's next call.
Call(program) ==
  /\ todo = <<>>
  /\ todo' = program
  /\ began' = IF Head(program)[1] = "mode" THEN "ANY"
              ELSE IF "pin" \in config1 THEN "PIN" ELSE "SPI"
  /\ asked' = IF "pin" \in config1 THEN "NONE" ELSE asked
  /\ UNCHANGED <<plat, chip, phy, tuned, outrun, failed>>

UserCalls ==
  \/ \E st \in Active \cup {"ALERT", "WAIT", "SLEEP"} : Call(SetMode(st, FALSE))
  \/ Call(SetMode("WAIT", TRUE))
  \/ Call(DoCalibRun)
  \/ Call(UpdateRfBandwidth)
  \/ Call(LoadFirFilterCoef)
  \/ Call(ClkMuxSetParent)
  \/ Call(RssiGainStepCalib)
  \/ Call(TimingAnalysis)
  \/ \E skip, ok \in BOOLEAN : Call(DigTune(skip, ok))

-----------------------------------------------------------------------------
(***************************************************************************)
(* One step of the running call.                                           *)
(***************************************************************************)

At(op) == todo # <<>> /\ Head(todo)[1] = op
Arg == Head(todo)[2]
Then(program) == todo' = program \o Tail(todo)

\* A write of REG_ENSM_CONFIG_1.
Write ==
  /\ At("write") /\ Then(<<>>)
  /\ config1' = Arg /\ state' = After(Arg)
  /\ UNCHANGED <<plat, fddMode, txnrx, clocks, tracking, phy, ghosts>>

\* Mutant: the poll of REG_STATE is dropped: the call goes on during the flush.
PollBlind ==
  /\ At("poll") /\ Then(<<>>)
  /\ UNCHANGED <<plat, chip, phy, ghosts>>

\* A poll of REG_STATE: it ends when the state is reached, or by its timeout,
\* which is longer than any flush.
Poll ==
  /\ At("poll") /\ Then(<<>>)
  /\ state # "FLUSH"
  /\ UNCHANGED <<plat, chip, phy, ghosts>>

\* The state is read, to come back to it.
Sees == outrun' = (outrun \/ state = "FLUSH")

\* ad9361_ensm_force_state.  It finds the chip where it wants it and leaves
\* the pin control bits as they are, or it takes control and waits.
ForceState ==
  /\ At("force")
  /\ prev' = state
  /\ IF state = Arg
       THEN Then(<<>>) /\ UNCHANGED pinCtl
       ELSE LET kept == (config1 \ {"pin"})
                        \ (IF state = "WAIT" THEN {} ELSE {"toAlert"})
                val == IF Arg = "ALERT" THEN (kept \ {"tx", "rx"}) \cup Alert
                       ELSE kept \cup {"tx"}
            IN /\ pinCtl' = ("pin" \in config1)
               /\ Then(<< <<"write", Alert>>, <<"write", val>>, <<"poll">> >>)
  /\ Sees
  /\ UNCHANGED <<plat, chip, curr, saved, began, asked, tuned, failed>>

\* Mutant: FDD is missing from the cases of ad9361_ensm_restore_state.
RestoringWithoutFdd(st) ==
  LET val == (config1 \ {"tx", "rx", "forceAlert"}) \cup {"toAlert"}
             \cup (CASE st = "TX" -> {"tx"} [] st = "RX" -> {"rx"}
                     [] OTHER -> {})
  IN << <<"write", Alert>>, <<"write", val>> >>

\* What ad9361_ensm_restore_state writes to come back to st; nothing when
\* st is a state it cannot restore.
Restoring(st) ==
  LET val == (config1 \ {"tx", "rx", "forceAlert"}) \cup {"toAlert"}
             \cup (CASE st \in {"TX", "FDD"} -> {"tx"}
                     [] st = "RX" -> {"rx"}
                     [] OTHER -> {})
  IN IF st \notin Active \cup {"ALERT"} THEN <<>>
     ELSE << <<"write", Alert>>, <<"write", val>> >>
          \o (IF pinCtl THEN << <<"write", val \cup {"pin"}>> >> ELSE <<>>)

RestoreState ==
  /\ \/ At("restorePrev") /\ Then(Restoring(prev))
     \/ At("restoreSaved") /\ Then(Restoring(saved))
  /\ tuned' = (tuned \/ At("restoreSaved"))
  /\ UNCHANGED <<plat, chip, phy, began, asked, outrun, failed>>

\* ad9361_set_ensm_mode
SetEnsmMode ==
  /\ At("mode") /\ Then(<<>>)
  /\ fddMode' = Arg
  /\ txnrx' = FALSE
  /\ config1' = IF Arg THEN {"tx", "rx"} ELSE config1
  /\ state' = IF ~clocks \/ ~Arg \/ state = "FLUSH" THEN state
              ELSE IF state \in {"TX", "RX"} THEN "FLUSH" ELSE "FDD"
  /\ UNCHANGED <<plat, clocks, tracking, phy, ghosts>>

\* What a state asks of REG_ENSM_CONFIG_1.
Request(st, pinctrl) ==
  {"toAlert"} \cup (IF pinctrl THEN {"pin"} ELSE {})
  \cup (CASE st \in {"TX", "FDD"} -> {"tx"}
          [] st = "RX" -> {"rx"}
          [] st = "ALERT" -> {"forceAlert"}
          [] OTHER -> {})

\* The states the driver's duplex mode has.
Fits(st) == st \notin IF plat.fdd THEN {"TX", "RX"} ELSE {"FDD"}

\* Mutant: leaving sleep does not turn the clocks on.
WakeUpDark ==
  IF curr = "SLEEP" THEN << <<"write", Alert>> >> ELSE <<>>

WakeUp ==
  IF curr = "SLEEP" THEN << <<"clocks", TRUE>>, <<"write", Alert>> >> ELSE <<>>

FallAsleep ==
  << <<"write", {}>>, <<"write", {IF plat.fdd THEN "tx" ELSE "rx"}>>,
     <<"poll">>, <<"write", {}>>, <<"clocks", FALSE>>,
     <<"done", "SLEEP", FALSE>> >>

\* ad9361_ensm_set_state.  A transition that is not valid as such is made
\* through ALERT, unless the driver believes to be there already.
SetState ==
  /\ At("state")
  /\ LET st == Arg
         pinctrl == Head(todo)[3]
         val == Request(st, pinctrl)
         invalid == ~Fits(st) \/ (st \in {"TX", "RX"} /\ curr # "ALERT")
         through == << <<"write", (val \ {"tx", "rx"}) \cup Alert>>, <<"poll">> >>
         synth == ~plat.fdd /\ ~pinctrl /\ ~plat.dualSynth /\ st \in {"TX", "RX"}
         refuse == invalid /\ curr = "ALERT"
     IN /\ Then(WakeUp \o
          IF st = "SLEEP" THEN FallAsleep
          ELSE IF refuse THEN <<>>
          ELSE (IF invalid THEN through ELSE <<>>)
               \o (IF synth THEN << <<"synth", st = "TX">> >> ELSE <<>>)
               \o << <<"write", val>>, <<"done", st, pinctrl>> >>)
        /\ asked' = IF refuse THEN "NONE" ELSE asked
  /\ UNCHANGED <<plat, chip, phy, began, tuned, outrun, failed>>

\* The last statement of ad9361_ensm_set_state.
StateSet ==
  /\ At("done") /\ Then(<<>>)
  /\ curr' = Arg
  /\ asked' = IF Fits(Arg) /\ ~Head(todo)[3] /\ Arg \in Active \cup {"ALERT"}
                THEN Arg ELSE "NONE"
  /\ tuned' = FALSE /\ outrun' = FALSE
  /\ UNCHANGED <<plat, chip, prev, pinCtl, saved, began, failed>>

\* Mutant: TXNRX_SPI_CTRL selects the other synthesizer.
RegistersSwapped ==
  /\ \/ At("clocks") /\ clocks' = Arg /\ state' = "WAIT"
        /\ UNCHANGED <<txnrx, tracking, failed>>
     \/ At("synth") /\ txnrx' = ~Arg
        /\ UNCHANGED <<clocks, state, tracking, failed>>
     \/ At("track") /\ tracking' = Arg /\ failed' = FALSE
        /\ UNCHANGED <<clocks, state, txnrx>>
  /\ Then(<<>>)
  /\ UNCHANGED <<plat, config1, fddMode, phy, began, asked, tuned, outrun>>

\* The other registers a call writes on its way.
Registers ==
  /\ \/ At("clocks") /\ clocks' = Arg /\ state' = "WAIT"
        /\ UNCHANGED <<txnrx, tracking, failed>>
     \/ At("synth") /\ txnrx' = Arg
        /\ UNCHANGED <<clocks, state, tracking, failed>>
     \/ At("track") /\ tracking' = Arg /\ failed' = FALSE
        /\ UNCHANGED <<clocks, state, txnrx>>
  /\ Then(<<>>)
  /\ UNCHANGED <<plat, config1, fddMode, phy, began, asked, tuned, outrun>>

\* What the state was forced for: a calibration, a table, a scan.
Run ==
  /\ At("run") \/ At("try")
  /\ Then(<<>>)
  /\ UNCHANGED <<plat, chip, phy, ghosts>>

\* A filter or a calibration fails in ad9361_update_rf_bandwidth.
Fail ==
  /\ At("try")
  /\ todo' = <<>> /\ asked' = "NONE" /\ failed' = TRUE
  /\ UNCHANGED <<plat, chip, phy, began, tuned, outrun>>

\* Mutant: the state is saved as ENSM_STATE_INVALID.
SaveInvalid ==
  /\ At("save") /\ Then(<<>>)
  /\ saved' = "INVALID"
  /\ UNCHANGED <<plat, chip, curr, prev, pinCtl, ghosts>>

Save ==
  /\ At("save") /\ Then(<<>>)
  /\ saved' = state
  /\ Sees
  /\ UNCHANGED <<plat, chip, curr, prev, pinCtl, began, asked, tuned, failed>>

Driver ==
  \/ Write \/ Poll \/ ForceState \/ RestoreState \/ SetEnsmMode \/ SetState
  \/ StateSet \/ Registers \/ Run \/ Fail \/ Save

Next == FlushEnd \/ PinMove \/ UserCalls \/ Driver

Spec == Init /\ [][Next]_vars

-----------------------------------------------------------------------------
(***************************************************************************)
(* Properties.                                                             *)
(***************************************************************************)

Idle == todo = <<>> /\ state # "FLUSH"

TypeOK ==
  /\ plat \in [fdd : BOOLEAN, dualSynth : BOOLEAN, pinCtrl : BOOLEAN]
  /\ config1 \subseteq Bits
  /\ {fddMode, txnrx, clocks, tracking, pinCtl, tuned, outrun, failed}
       \subseteq BOOLEAN
  /\ {state, prev, saved} \subseteq States
  /\ curr \in States \cup {"SLEEP"}
  /\ asked \in Active \cup {"ALERT", "NONE"}
  /\ began \in {"PIN", "SPI", "ANY"}

\* A calibration, a table load or a delay scan runs in the state that was
\* forced for it, unless the pins may move the chip or its clocks are off.
RunsWhereForced ==
  (At("run") \/ At("try")) /\ "pin" \notin config1 /\ clocks => state = Arg

\* The chip is in the state the user last asked for, whatever calibrations,
\* filter loads and interface tunings ran since: what ad9361.c says of
\* ad9361_ensm_restore_prev_state, "Restore the previous Enable State Machine
\* (ENSM) state", and what a call that starts during a flush breaks.
StateRestored ==
  Idle /\ asked # "NONE" /\ "pin" \notin config1 => state = asked

\* That is the only way to break it: until a call has found the chip in a flush,
\* it is where the user put it.
StateHeld == ~outrun => StateRestored

\* With one synthesizer on at a time, the one of the direction asked for is
\* on, until the interface is tuned (which forgets it).
SynthFollows ==
  Idle /\ asked \in {"TX", "RX"} /\ "pin" \notin config1 /\ ~plat.dualSynth
  /\ ~tuned => txnrx = (asked = "TX")

\* Only a change of bandwidth that failed leaves the tracking calibrations off.
TrackingReturns == todo = <<>> /\ ~failed => tracking

\* Between calls the driver believes the chip asleep exactly while its clocks
\* are off: the next request to leave sleep turns them on.
SleepsDark == todo = <<>> => (clocks <=> curr # "SLEEP")

\* A calibration or a load that succeeds gives control of the ENSM back to
\* whom it took it from, the pins or the SPI port.
ControlReturns ==
  todo = <<>> /\ ~failed /\ ~tuned =>
    /\ began = "PIN" => "pin" \in config1
    /\ began = "SPI" => "pin" \notin config1

=============================================================================
