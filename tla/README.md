# A verification project for sdr5

sdr5 is a software-defined radio. An FPGA design (`hdl_websdr/`) captures the
samples of an AD9361 transceiver and reduces them; `websdr/` runs on the Zynq
beside it, moves buffers through that hardware and shows the result in a
browser; `sw/` is the driver of the transceiver, Analog Devices' no-OS code with
the board's set-up in `main.c`.

The modules here model the parts whose control is worth checking. TLC checks
each on a small instance. What matters most is also proved with TLAPS for every
value of the constants: the capture pipeline and the threads, the mipmap reader, the
enable state machine, the clock chain with the filters, the synthesizers, the gain, the
tuning of the interface, the calibrations and the set-up. Definitions keep the
names of the source where they can, and `PROJECT.json` maps each to its lines.

## 1. The system

| part | state | operations | called by |
|---|---|---|---|
| buffer pools, `websdr/buffer_pool.H` | a stack of free buffers for each of two sizes | `addPool`, `get`, `put` | both threads of websdr |
| capture pipeline, `websdr/hw.C`, `hw.H` | receive queue, chunk processors, the ring of chunks, `currChunk`, `totalChunksCounter` | `AXIPipeRecv::start`, `addChunk`, `chunkProcessor`, `hw_reserveChunk`, `hw_freeChunk`, `snapshot` | interrupts of three AXI pipes on the hardware thread; handlers on the server thread |
| connection handler, `websdr/server.C` | per connection: two views, the pinned chunk, the frame being written | open, `start`, `stop`, `setview`, a timer, close | an event loop on the server thread |
| mipmap reader, `websdr/mipmap_reader.H` | sizes of the levels, place in the tree of chunks | `init`, `goToChunk`, `advanceChunk`, `requestView`, `read` | the handler |
| raw sample order, `websdr/hw_data_format.H` | none | `copyOriginal`, `copySpectrum` and address functions | the reader |
| browser client, `websdr/index.html`, `js/` | view, zoom stack, last frame | zoom, drag, decode a frame | the user; websocket messages |
| FPGA, `hdl_websdr/` | handshakes, counters | word splitter, channel framing, mipmap flow control, address permutation | clock edges |
| transceiver driver, `sw/ad9361.c`, `ad9361_api.c`, `ad9361_conv.c` | `struct ad9361_rf_phy`: ENSM state, clock tree, synthesizers, gain tables, filters, calibration state | the API and what it calls | `main.c`, the console; one thread, over SPI |
| console, `sw/console_commands/` | the line being edited | parse, dispatch | a serial port |
| platforms, `sw/platform_*`, `util.c` | register access, delays; integer helpers | | the driver |

How they interact. A full capture buffer raises an interrupt; the hardware
thread submits a new buffer, drops five chunks out of six and gives the sixth to
a `chunkProcessor`, which takes buffers from the pools and submits an FFT and a
reduction, then a second reduction of the spectrum. When both results are there
the chunk replaces the oldest one of a ring of two, whose buffers are freed. The
server thread reads the ring without a lock every time a connection's timer
fires, and may pin the latest chunk ("stop") until it is told otherwise
("start") or closes. Every buffer is a raw pointer that passes through all of
these hands. The driver under `sw/` is a separate program. It shares nothing with
websdr but the samples.

What is hard. In websdr: who owns a buffer when interrupts of three pipes,
pins of several clients and disconnects come in any order; what happens when the pools are
empty; two threads without a lock; the arithmetic of levels and ranges; and the
order in which hardware stores samples. In the driver: the transceiver moves on
its own (a state is left through a flush; pins may move it), a dozen calls force
it into a state and must bring it back, and failures return half way. No part
persists anything, and the messages of a websocket are neither lost nor
reordered, so there are no crashes with recovery and no lossy channels to model.

What correct means, part by part:

* pools and pipeline: a buffer has one owner; nobody writes to what is shown or
  free; chunks are published whole and in order; closing releases; new chunks
  keep coming; the pools suffice.
* threads: what a client has pinned, and what the timer is copying, is not in use for
  anything else, at every access of either thread.
* reader: every request is served with enough detail and covers the range, and
  the chunks copied are those of the range, in order and without a gap.
* sample order: reading undoes storing; no address is used twice.
* enable state machine: what needs a state runs in it; the chip returns to where
  the user put it; sleeping means clocks off.
* clock chain, filters, synthesizers, gain: what was granted is what the chip has
  and goes on having, whatever is done to the other side or refused or fails
  later; registers, cached fields and reported values agree; everything counted
  in clock cycles follows the clocks.
* calibrations and tuning: what they change for their own use is back however they
  end; what they search for is the best there is.
* set-up: it ends with a device that is ready, or with one that is silent.
* cores and console: what plays is what is remembered, a register reads back as
  the number written to it, a handler acts on the parameter that was typed.

## 2. Modules

| module | models | kind |
|---|---|---|
| `HwStream` | pipeline, pools, pins; one step per interrupt or websocket command | state machine |
| `Ownership` | what moving a buffer may do: the abstract specification of `HwStream` | state machine |
| `HwStreamProofs` | lemmas on queues and stacks; invariants of `HwStream` | proofs |
| `HwStreamOwnership` | that `HwStream` implements `Ownership`; counting buffers | proofs |
| `HwThreads` | pools, publication, snapshot, pin and release at single accesses of two threads | state machine |
| `HwThreadsProofs` | the invariants of `HwThreads` | proofs |
| `IntervalInduction` | induction and recursion over intervals, division | proofs |
| `DisplayProofs` | the finder against the listing; views and frames | proofs |
| `MipmapFinder` | the place in the tree of chunks: `goToChunk`, `advanceChunk` | operators |
| `MipmapView` | `setview`, `requestView` and the copy of a frame; composes the finder | state machine |
| `SampleLayout` | addresses of samples and bins, the writer of a test signal | algorithm |
| `Ensm` | the enable state machine of the AD9361 and the calls that move it | state machine |
| `EnsmProofs` | programs, registers and the state asked for in `Ensm` | proofs |
| `ClockChain` | BBPLL, dividers, the registry of clocks, the calculation of a chain | operators |
| `Baseband` | rates, FIR and analog filters, and what follows the clocks; composes `ClockChain` | state machine |
| `Synth` | the two RF synthesizers: LOs, fast lock profiles, external LO, power | state machine |
| `Gain` | gain, modes, attenuation, ports and loopbacks per channel | state machine |
| `Agc` | the words of gain control and RSSI, and their update | state machine |
| `Search` | `ad9361_find_opt`, the longest good run of a row | operators |
| `Tune` | the tuning of the data interface; composes `Search` | state machine |
| `Calib` | calibrations after set-up and what they undo; composes `Search` | state machine |
| `Setup` | `ad9361_init` and `ad9361_setup` step by step, two chips, the auxiliary DAC | state machine |
| `BringupProofs` | what calibrations and tunings undo and find; how far a set-up came | proofs |
| `RadioProofs` | what was granted for a channel in `Gain`; LOs and profiles in `Synth`; clocks and filters in `Baseband`; times in `Agc` | proofs |
| `DacCore` | the FPGA's transmit and receive cores on three platforms | state machine |
| `Console` | the console's parser and handlers, over `DacCore` | state machine |

`MC...` modules extend these with what TLC needs: small values and, for the
first two, a `VIEW`. `MCDisplay`, `MCRadio` and `MCBringup` put several machines in one run: a
variable `focus` names, from the initial state on, the one that moves, and the
others rest. The states of a run are then the sum of theirs and not the
product, and a property of one machine is checked on all of its behaviours. It is
sound because these machines share no variable; where the code does couple
them (a rate that tunes the interface, an LO that calibrates) the coupled part is in the
module that needs it.

### HwStream

`availBig` and `availSmall` are the two pools as stacks; `pending` the receive
queue; `proc` the chunk in each live `chunkProcessor`, named by its original
buffer; `fftQ` and `mipQ` the jobs given to two pipes; `chunks` and `currChunk`
the ring; `reserved` what each connection has pinned. `DropBuffer`,
`StartProcessing` and `ExhaustPool` are the three ways `addChunk` and the
following `start` can go; `FftDone`, `MipmapDone` and `SpectrumMipmapDone` are
the completions; `HandleStart`, `HandleStop`, `Open` and `Close` the handler. The
AXI pipes are external: jobs complete in the order of a pipe and in any order
across pipes. An exception of `BufferPool::get` leaves the hardware thread
uncaught, so it ends the process (`failed`).

`Ownership` says who may hand a buffer to whom. `HwStream` implements it with
`owner` mapped to the one holder of each buffer.

### HwThreads

The same calls, one memory access a step, of one hardware and one server thread. A
chunk has two buffers in place of four. Nothing in the code keeps the threads apart,
and the model does not either: a handler may be slow for any number of publications, and
both threads may be inside `BufferPool`. A history variable, `races`, which no action
looks at, records when they have met: `"pool"`, one entered `BufferPool` while the other
was in it (a stale size of the vector gives a buffer out twice); `"pin"`,
`hw_reserveChunk` marked or copied a slot that `checkDone` was replacing; `"show"`,
`checkDone` came round to the slot that the running timer had taken for the latest.
The properties say that nothing goes wrong before one of these has happened, so that there
is no other way; run `threads_pin` shows that the second does break a pin.

### MipmapFinder and MipmapView

Positions are integers. Levels, steps, chunk size and length are constants with
the relation `hw_init` gives them as assumption. A request is clamped, a level
chosen, the range rounded outward, and chunks are copied one step at a time,
the two displays in turn over one finder. Sample values are left out; what is
copied is the index of a chunk. Non-finite numbers in a request, which the code
does not filter, are not modelled.

### SampleLayout

Powers of two replace 1024: the matrix has 16 rows. Memory holds sample
numbers, so reading the right sample is equality of numbers.

### Ensm

The driver is one thread and the chip runs beside it. A call is a program in
`todo`: a sequence of register writes, polls and further calls, each expanded
when it is reached, so every write is a step that the chip's own moves
(`FlushEnd`, `PinMove`) interleave with. `plat` is the platform data, any
combination. `Init` is the end of `ad9361_setup`, and `ad9361_post_setup` is
the first call. `ForceState`, `Restoring`, `SetEnsmMode`, `SetState` are the
functions of those names; the calls that force a state are `DoCalibRun`,
`UpdateRfBandwidth`, `LoadFirFilterCoef`, `ClkMuxSetParent`,
`RssiGainStepCalib`, `DigTune` and `TimingAnalysis`. What they do while the
state is forced is one step, which fails where an error matters to the ENSM.

The chip is external. Its moves follow what the driver relies on: CONFIG_1
decides where it goes; leaving TX, RX or FDD takes a flush; with the clocks off
nothing moves; under pin control it moves at any time. FORCE_TX_ON counts though
FORCE_ALERT_STATE is set, since the delay scan forces FDD that way.
A flush is 384 ADC clock cycles, some 15 microseconds at 25 MHz, and the code
does nothing to wait for the one a call leaves behind, so the next call may begin
in it, and does in runs and theorems alike: `restore_state` cannot restore a flush and
leaves the chip in ALERT (TLC finds it in a few steps if `StateHeld` is stated
without its guard). `outrun` records that
a call has read a flush as the state to come back to, and `StateHeld` says that nothing else
breaks `StateRestored`. A poll ends when the state is reached
or by its timeout, and no timeout is shorter than a flush.

The scan over the rates at set-up sets the clocks with the filters bypassed
(`ad9361_clear_state`), so that `ad9361_set_trx_clock_chain` does not tune again inside
it. `ad9361_set_no_ch_mode` repeats the set-up with the filters as they are; with a filter on in TDD
the tuning inside the scan ends by leaving FDD (`ad9361_conv.c:564`), and the scan goes
on without it. That call is not one of `Ensm`.

Ghost variables record what was `asked` and granted last, whether a flush was read since (`outrun`), who had control when
a call `began`, whether the interface was `tuned` since the last request, and whether a
change of bandwidth `failed`.

### The settings of the chip: ClockChain, Baseband, Synth, Gain, Agc

A call of the API is one step, since nothing else runs in the driver, and what
the chip may do to it (a PLL that does not lock, a calibration that fails) is an
input. The state keeps chip and driver apart: `bb.chip` holds registers and
`bb.rate` the rates that the registry of `util.c` remembers; `lo[t]` has the word
and the row the synthesizer was given beside `want`, the rate remembered; `gain` has
the index, mode and attenuation in the chip beside `agc` and `cached`.
An operation is an operator from record to record, composed as the code composes
its functions, with `ok` for the result that is returned on the way.

* `ClockChain` follows `ad9361_calculate_rf_clock_chain`, `set_trx_clock_chain` and
  the set, round and recalc functions of BBPLL and dividers. Rates are multiples of 10 kHz, so
  that products stay within TLC's integers; the PLL's modulus is scaled with them.
* `Baseband` adds what a change of rate leads to: FIR validation, switching by hand
  (`set_trx_clock_chain`'s end), the analog filters, the ADC, `bb_clk_change_handler`,
  and the file loader's order of clocks, filters and bandwidths.
* `Synth` has `rfpll_int_set_rate` with the fix-up of the other side, the four
  fast lock calls with the ALC workaround, the clock mux of an external LO, and
  the powering down with its cache.
* `Gain` maps channels to receivers and transmitters (`rx2tx2`, `rxNum`, `txNum`),
  bands to tables, and has `hdlLoop` for the loop that `ad9361_hdl_loopback` was asked for,
  which need not be what the core does on a new core (see below).
* `Agc` computes the words in the integers of the code, with its widths.

Ghosts: `bbWant` the rate granted last, `bbLost` that cached and true rates differ by
the code as it is, after a PLL that did not lock or a chain that does not suit the
filters; `bbSuits` that the last chain did suit them; `loHeld`, `gainHeld`, `modeHeld`, `attenHeld` what was granted
and not ended by the user since.

### Bringing up the board: Search, Tune, Calib, Setup, DacCore, Console

* `Tune`: `eye` says for filters on and off and for each of three rates which
  delays pass. `ad9361_dig_tune`, its two scans, the loops and the ways out are
  operators on `tune`; `SetFirOn`, `SetSpeed`, `SetNoChMode` call it as the code does.
  A row of delays has length 4 in place of 16 (`LastDelay` 3).
  Setting a rate may tune the interface and tuning it at all rates sets them, one
  level deep: `DigTune` is the call at the rate that is set, `DigTuneAll` the one at
  three rates.
* `Calib`: a calibration meets the set of phases that converge and what goes
  wrong in it, both chosen freely; 32 phases, as in the chip.
* `Setup`: every step of `ad9361_init` and `ad9361_setup` may fail; the
  synchronisation of two chips is a step per call of `ad9361_mcs`.
* `DacCore`: `dac` has the tones the driver remembers and the core's registers
  with their widths. The platforms differ in the order of steps and in the
  version of the core; a board is one of the three.
* `Console`: a line is a name, an operator and words of digits, in which a
  character that is no digit is the digit 16. Handlers of the tone generators
  change `DacCore`; those of the radio are recorded in `con.asked`, with the
  parameter as the variable of 8, 16 or 32 bits holds it that the handler keeps it
  in (`Held`); a negative number in one without a sign is, as undefined as that
  is in C, zero or its last bits. `IntToStr` is a set: `int_to_str` puts its last
  digit where the end of the string belongs, so what is printed is the digits and
  then whatever stands in memory behind the buffer (`Beyond`).

Inputs are those the code defines: words have fewer than ten characters and a line
at most five, since the buffers hold no more. What a number beyond 32 bits is
converted to is left out: it is beyond TLC's integers too. An
increment counts 65535 steps of a period and is always odd, a scale below eight
millionths loses bits of its divisor before version 7 of the core, and the
fraction next to a one is lost where the register holds one as an integer; all
three are in the model's arithmetic as they are in the code's. Two known quirks are left out of a property
by its guard: a blank before the first parameter makes the parser read an empty word, so the
handler acts on zero (`ActsOnWhatWasTyped`); and with one
transmitter on Linux the DMA plays half a period of the sine, because the table is
stepped in halves there (`SinePlayed`).

## 3. Runs

| run | instance | distinct states | what it shows |
|---|---|---|---|
| `hwstream_pins` | 2 clients, ring of 2, 12 + 6 buffers, one processor | 3,670 | the inductive invariant; no DMA into what is free, shown or pinned; closing releases; only pins exhaust the pools; the ownership rules are implemented |
| `hwstream_refresh` | 1 client, two processors, counter wraps at 3 | 13,042 | chunks are published in the order of capture; publication goes on for ever |
| `hwstream_freed` | | | violated: a released chunk is shown as the latest while its buffers are free |
| `threads` | 2 clients, ring of 2 | 175,549 | pins hold, no buffer is lost and what is shown stays, at every access, up to the first lasting race |
| `threads_pin` | same | | violated: the race of `hw_reserveChunk` with `checkDone` breaks a pin |
| `display` | 3 levels, 64 samples, 7 positions; 16 by 16 samples | 96,202 | requests are served, ranges covered, frames filled with the right chunks; reading undoes storing; the spectrum is whole |
| `ensm` | 8 platforms, unbounded calls | 1,341,658 | calibrations run where they were forced; the chip is where it was asked to be after any sequence of calls; sleep; synthesizer; tracking |
| `ensm_control` | same | | violated: pin control is restored after the user turned it off |
| `radio` | foci baseband, synth, gain, agc; 3 calls each | 75,655 | clocks, filters, LOs, profiles, gains and times that were granted are those the chip has |
| `bringup` | foci tune (6 calls), calib (2), setup (3), console (3) | 138,538 | searches find the best; what is changed for a while is put back; a set-up ends ready or silent; cores and console |
| `radio_lo` | focus synth | | violated: an LO asked for again after a recall is not tuned |
| `tune_atten` | focus tune | | violated: a tuning that is skipped unmutes with an old attenuation |

The properties of `radio` and `bringup` are conjunctions of named parts, one group
for one question:

| property | parts | relates |
|---|---|---|
| `ClocksAgree` | `RatesRemembered`, `FiltersSwitched`, `FiltersFollow`, `TimingFollows` | the registry, the registers, the filters' tuning and everything that counts cycles |
| `RatesGranted` | `RateObtained`, `ClocksInRange` | the rate granted and the rate of both sides |
| `LosObtained` | `LoObtained`, `TablesFollowBothLos`, `TableFollowsLo` | an LO granted earlier and what is done to the other side |
| `ProfilesObeyed` | `ProfileKnown`, `DividerRestored`, `PowerdownKept`, `RecallChangesAlc` | profile, external LO and power across switching |
| `GainsKept` | `GainKept`, `ModeInForce`, `DurationFollowsModes`, `AttenKept`, `MonitorsFollowPort`, `LoopbackPairs`, `MuteReturns` | what was granted for a channel and what its receiver or transmitter has |
| `TimesFollowClocks` | `SettlingLongEnough`, `UpdateCounterHolds`, `MeasuredTwice`, `RssiFollowsRate`, `WeightsUpToThree`, `LevelsOrdered` | words in cycles and times in the configuration |
| `FoundDelaysPass` | | the delays set, every rate they were found for, and the longest run |
| `TuningLeavesNoTrace` | `DelaysOfSetup`, `CoresRestored`, `SpeedAsAsked`, `KeptOfSetup` | a tuning and what was there before it |
| `CalibrationUndone` | `BandwidthRestored`, `InversionRestored`, `LoPowerRestored`, `TrackingRestored` | a calibration and what was there before it |
| `QuadratureBest` | `NcosAgree`, `CalibratedWide`, `BestPhaseSet` | the tone, both filters and the phases that converge |
| `SetupSafe` | `DeviceReady`, `SilentUntilAttenuated`, `ReferencesInRange`, `ExternalLoKept`, `AuxVoltage` | how far a set-up came and what the user has |
| `ChipsSynchronised` | `SyncedChipsReturn`, `PulsesMeetBoth` | the two chips at each pulse and at the end |
| `CoresFollow` | `TonesFollowRate`, `Quadrature`, `CoresFollowMode`, `SinePlayed` | tones remembered, registers, rate and mode |
| `ConversionsHold` | `ScalesInForce`, `CorrectionReadsBack` | a number and its field |

Why these bounds are enough. The ring has its real size. Pools of 12 and 6 carry the
pipeline and one pin, so that two clients exhaust them: larger ones only hide
exhaustion. `OnlyPinsExhaust` says that more must then be pinned than the pools hold beside
what the pipeline can have in flight; with the real 20 and 20, a ring of 2, four
pending and one processor, that takes a fourth client that pins. The process may
die of exhaustion, so `hwstream_pins` does not check for deadlock. Two processors
cover overlap of chunks. The counter wraps at 3, as an int does, and a
skip of 3 makes the remainder of a negative number occur. Three levels with
unequal steps give every carry; the positions lie around every chunk boundary,
below the start and past the end. In 16 rows the two burst formats have masks of
different width, as in 1024. `Ensm` has no bound.

The machines of `radio` and `bringup` are bounded by a number of calls, because
their ghosts and data grow with the calls. Three calls are one to bring about a
state (a filter loaded, a profile stored, a lock that failed, a mute), one to change
something beside it, and one to come back; a tuning has six, since it
needs a set-up, the filters and rates before it is called again. `OneBoard`, a
definition of `Setup`, keeps synchronisation and auxiliary DAC to one of the reference clocks, on
which they do not depend; `CorrectedChannels` keeps corrections to two of four like channels. The
values are chosen at the edges of the code: rates below and above what needs a filter,
LOs at 104 MHz (below the first row of the table), at both edges of bands and in FDD
and TDD tables, gains below and above every range, clocks at which the update counter
doubles, durations of one, three and four parts, delays that pass at an end, nowhere
or at one step, and phases that pass across zero.

`threads` stops where a lasting race has been run (`BeforeRaces`): nothing is claimed
of what follows, and `races` never shrinks by these two.

`StreamView` and `ThreadsView` identify states that differ only by a renaming of
buffers. They are sound because the actions compare and move buffers and
never look at which one it is, and `Small` buffers are never mixed with `Big` ones; the
view keeps, for every place that can hold a buffer, the first place that
holds the same one. The properties are symmetric in the same way.

Fairness is used by `hwstream_refresh` alone: weak fairness of the three
completions. The pipes of the FPGA finish what they are given, and the hardware
thread's loop dispatches every interrupt. Nothing is assumed of clients. The driver
is called or not as the user likes, so nothing there must eventually happen.

### Findings

Judged by a run:

* `hwstream_freed`, `server.C:197`: releasing the latest chunk frees buffers the
  ring still shows.
* `threads_pin`, `hw.C:333`: `hw_reserveChunk` marks and copies a slot in three accesses without
  a lock, and `checkDone` may replace it in between (the code has a TODO).
* `ensm_control`, `ad9361.c:1728`: `force_state` returns early without updating
  `ensm_pin_ctl_en`, and `restore_state` uses the value an earlier call left.
  The same happens when a pin has the chip in a flush as the call begins: pin
  control is then never given back.
* `radio_lo`, `util.c:131`: the registry skips a rate it remembers, though a recalled
  profile has moved the synthesizer or the last lock failed.
* `tune_atten`, `ad9361_conv.c:571`: a tuning that is skipped unmutes what it did not
  mute; a set-up with skip mode 2 ends at full power.

Seen while modelling and not judged by a run. Where a property has a guard for one
of these, the guard is named in the module.

* websdr: `server.C:135` shows the latest chunk also before the first one;
  `BufferPool` is used by two threads without a lock; a second
  "stop" in one chunk period takes no pin; non-finite positions pass the clamps.
* states: `force_state` remembers a flush it finds the chip in (`ad9361.c:1726`), and the
  chip stays in ALERT when that is restored (`outrun` in `StateHeld`); a refused request in FDD has written FORCE_TX_ON and FORCE_RX_ON
  (`ad9361_api.c:530`); a request for FDD in TDD made from RX is accepted, since
  its error is overwritten on the way through ALERT; `dig_tune` loses pin
  control and, in TDD, the choice of the synthesizer; `do_calib_run` drops the
  result of a calibration; a failed `update_rf_bandwidth` leaves the chip in
  ALERT and tracking off, and asking for the same tracking again does nothing.
* clocks and filters: a file whose rates are not those of its filter can leave the
  filter bypassed in the chip and in use for the driver, since a stage that is asked for
  the rate it has is skipped (`bbSuits`); an enabling whose calibration fails leaves the filter on in the
  chip and bypassed in the driver; interpolation and decimation that differ, or
  `rx_eq_2tx`, give a rate that was not asked for; the results of several steps of
  `set_trx_fir_en_dis` and `trx_load_enable_fir` are dropped.
* synthesizers: `set_rx_lo_int_ext` assigns where it should compare
  (`ad9361_api.c:772`); a profile is left before the rate is validated; the fix-up
  overwrites the result of the lock before it and writes the divider of a side
  that is on an external LO; a profile stored on an external LO keeps its divider.
* gain: the mode is stored before it is validated; a mute while muted, or an
  attenuation set while muted, loses what the unmute should restore; a refused
  port stays in the platform data; the comment on `ad9361_tx_mute` has
  its argument reversed.
* gain control: four RSSI weights may be rounded to 256, and the last one is then 255
  (`ad9361.c:4148`, `WeightsUpToThree`); an LMT threshold below 16 mV wraps to the largest (`ad9361.c:3588`,
  `LevelsOrdered`); outer levels more than 15 from the inner ones lose their upper bits; a settling
  delay whose number passes 255 wraps before it is clamped (`SettlingLongEnough`, for
  amplifiers slower than 7 us at the fastest clock); an RSSI duration of no sample writes before the
  weights (`weight[j - 1]`, `ad9361.c:4148`).
* calibration: with no phase that converges the search sets phase 0 and reports
  success; after a time-out the result is read uninitialised; the last phase 31 is
  never tried again.
* tuning: `hdl_loopback` asked twice on a new core turns the loop off
  (`ad9361_conv.c:114`); a tuning that fails in `post_setup` returns before the rate is restored;
  a BIST pattern that was on is left on (`ad9361_conv.c:543`).
* set-up: an early return leaves the flags of external LOs cleared; `set_no_ch_mode`
  drops results; `do_mcs` leaves the slave in the master's mode and needs
  `gpio_sync`, which `main.c` sets to none; the auxiliary DAC has a gap from 1811 to 1887 mV.
* cores and console: `int_to_str` puts the last digit where the end of the string
  belongs (`console.c:120`), so that a printed number goes on with what stands behind the
  buffer (`Beyond`); `axiadc_init` before `ad9361_setup` sets tones at the rate of
  reset (`ad9361_api.c:436`); a scale of 0 divides by zero on cores up to version 6; lower-case hex
  digits are passed over, and `%x` of zero prints nothing; enabling filters
  with a file's rates changes the rate without setting the tones again.

## 4. Proofs

A theorem holds for every value of the constants its assumptions allow. The assumptions
are typing, and what the code itself ensures.

### The capture pipeline

From `HwStreamAssumption` only (natural numbers of buffers; positive ring, queue
and skip; more small buffers than pending ones), for any number of clients:

| theorem | says |
|---|---|
| `TypeCorrect`, `InvariantHolds` | `[]TypeOK`, `[]IInv` |
| `SingleOwnerHolds` | every buffer has exactly one holder |
| `NoDuplicatesHolds` | no queue or pool has a buffer twice |
| `PublishedCompleteHolds` | a published or pinned chunk has all four buffers or none |
| `DmaIsolatedHolds` | hardware never writes to a buffer that is free, shown or pinned |
| `ClosedHoldsNothingHolds` | a closed connection has nothing pinned |
| `PipelineImplementsOwnership` | every step hands buffers over as `Ownership` permits |
| `OnlyPinsExhaustHolds` | the process dies only if more is pinned than the pools spare |

`SingleOwner` is not inductive. That the completion of a job gives its
destination to a processor without losing an earlier result needs `JobsMatch`: a job's processor is
alive and waits for just that result. That freeing a chunk puts three different
buffers back needs `ChunksSane`. That a put cannot push a second copy needs
`NoDuplicates`, since holders are sets. And that a publication does not lose part
of a pinned chunk needs `PublishedComplete`. `IInv` is their conjunction with
`TypeOK`, checked first by `hwstream_pins`.

The argument for ownership goes through one lemma, `Reassign`: if each holder
after the step has what it had, less what moved away, plus what moved to it, and
the moves are disjoint, there is still one holder for each buffer. Every action is
then a small table of moves, proved from the facts on what a
push, a pop and a tail do to the set of elements. `DmaIsolated` follows from
`IInv` without a further induction.

The refinement mapping `Owner` is a `CHOOSE`; `IInv` makes the choice unique, so that the
same tables of moves say which owners change, and each action of `HwStream` maps to a
transfer of `Ownership` or, where no buffer changes hands, to a stutter.
`OnlyPinsExhaust` counts: the pools have what the receive queue, the processors,
the ring and the pins have not, as sets that are disjoint by `SingleOwner`.
`ShareOfPipe` adds that the queue always has `TargetPending` buffers: `addChunk` submits
a new one for each that is full.

### The threads

From `HwThreadsAssumption` only (a ring of two or more), for any speed of either thread:

| theorem | says, for any number of buffers, slots and connections |
|---|---|
| `PinsAreExclusive` | no access sees a pinned buffer anywhere else, unless `"pool"` or `"pin"` is in `races` |
| `BuffersAreConserved` | between rounds every buffer is in one place, unless one of these two is |
| `ShownIsResident` | what the timer reads is one publication, and not given back, unless any of the three is |

The inductive invariant `IInv` holds on every behaviour and has the parts below under
`Orderly`, that neither of the two lasting races was run. It names a place
for each line of the two threads at which a buffer is neither in the pool nor in a
slot: in a call of `BufferPool`, in the round of the hardware thread, or with a
handler that has marked a slot and copies it (`OneOwner`, `NoTwice`, `CallInv`,
`ChunkInv`). `SlotInv` and `ServerInv` relate what a thread has read to what the slot
holds now.

### The mipmap reader

From `MipmapFinderAssumption` and `MipmapViewAssumption`, the relations `hw_init` gives
levels, steps and lengths, for any number of levels and any positions:

| theorem | says |
|---|---|
| `TypeCorrect` | places and views stay within the tree and the waveform |
| `AllServed` | no assertion of `requestView` fails, and `read` finds its level |
| `RequestShown` | a view covers the request, at the coarsest level that has enough detail |
| `ViewCopied` | jumps and steps of the finder go through the depth-first listing of the forest, and the chunks copied are those of the view, in order |
| `FrameFilled` | a frame is filled exactly, never beyond |

`FinderInv` says that the path the finder remembers is that of its place in the
listing; `ViewInv` is about what was requested and chosen, `CopyInv` about how far the
copy came. A step of the finder climbs as many levels as are complete, by a loop in the
code and a recursive function here. `IntervalInduction` derives induction over an
interval of integers from the least element of a set, and with it that such a function
obeys its equation, so that no induction theorem with an operator parameter is needed.
It also has the facts on division and remainder that carries rest on.

### The enable state machine

| theorem | says, for all platforms, calls and moves of the pins |
|---|---|
| `DriverTypes` | `[]TypeOK` |
| `WorkIsWhereForced` | what needs ALERT or FDD runs there |
| `TrackingComesBack` | only a failed change of bandwidth leaves tracking off |
| `SleepIsKnown` | between calls the clocks are off exactly when the driver says SLEEP |
| `SynthIsRight` | the synthesizer of the direction asked for is on |
| `StateIsHeld` | until a call has read a flush, the chip is in the state the user asked for last |

A call is a program that is consumed and expanded, so an invariant has to speak of
what is left of it. `Follows` says for each operation what the rest may be (a
tracking that is put off is put on later; a `force` has its restore; nothing comes
after `restorePrev`), and `Sound` that this is so at each place of the program.
Consuming an operation keeps `Sound` at once; that expanding one keeps it is
proved once for each function of the driver. The other parts
are then implications from what the rest has or lacks: with no `track` to come, tracking is
on; with no `clocks` to come, the clocks are as `curr` says; at a `poll` before a `run`,
the chip is in the forced state or in the flush that leads there.

`HoldInv` says where the asked state is while a call moves the chip: in the chip,
in `prev` of the force that is not restored yet, or in `saved` of the tuning around
it. `DoneInv` has the request that is written and not yet
recorded, and `StartInv` is for `ad9361_post_setup`, which tunes before the
user has asked for anything.

### Calibrations and set-up

From `CalibAssumption`, `SetupAssumption` and `TuneAssumption`, which give types to
boards, clocks, bandwidths, sets of phases and auxiliary values, and let clocks and the
last delay be positive:

| theorem | says |
|---|---|
| `CalibrationsUndone` | a calibration leaves what it found, however it ends |
| `QuadratureIsBest` | the tone has one frequency on both sides, within a fourth of both filters; the phase that is set is the middle of a longest run of phases that converge |
| `DelaysPass` | the delays that were found pass, and are the middle of a longest run, at each rate they were found for |
| `NoTraceOfTuning` | the filters' delays go with the filters; cores, loops and the rate are the user's again |
| `SetupsSafe` | a set-up ends with a device that is ready, or silent |
| `ChipsAreSynchronised` | each pulse meets both chips in one step; both come back |

`CalibInv` adds to the properties that the NCOs' words are a row of
the table for the clocks, since the code compares them with a rate rounded
down. In `DeviceInv` the place a set-up came to is a number, and `Places` gives the
numbers of the steps that matter; `SyncInv` says what both chips are in at each of the
steps of `ad9361_mcs`.

The search is `ad9361_find_opt`, a walk along a row with the run it is in and the longest
one so far. `WalkInv` says at each place that these are what they are called, and
`FindOptLongest` follows by the induction of `IntervalInduction`. `MiddleIsBest` puts the
two rows of a delay scan together, which meet at zero; `BestPhaseIsBest` is about a row of
phases that is read twice over, since phases are a circle: no phase is farther from
those that fail than the one that is set.

`TuneInv` is about a tuning that may be called from within a tuning (setting a rate
tunes, and tuning at all rates sets them). `BothRight` is that the delays in use are right
for what was found; `Stocked` says the same of those that are kept to go back to, without
which a switch of the filters would bring back wrong ones. A scan that fails leaves a
stale result behind, which `Settle` repairs, so `BothRight` holds between calls and only
`Sound` within them. `Linked` relates the core's loop to the one the driver remembers,
`SpeedAsAsked` the rate to the user's, and a set-up that failed leaves the driver as it was
powered up.

### Gain

From `GainAssumption` (boards have one or two receivers and transmitters in use; gains
are integers and attenuations natural numbers), for any number of calls:

| theorem | says |
|---|---|
| `GainsAreKept` | what was granted for a channel is what its receiver or transmitter has; an unmute restores what the mute put away |
| `GainTypes` | indices, words and modes keep their ranges |

`GainInv` has a part for the receivers, one for the transmitters and one for the ports
and loopbacks; each call changes what one of them is about, and `ReceiverRests`,
`TransmitterRests` and `PathRests` keep the other two. That a grant for one channel
leaves the other's alone rests on `ChannelFacts`: on a board with one channel,
`ad9361_1rx1tx_channel_map` sends both setting and telling to the same transmitter. For
the unmute the properties need one more conjunct: after a mute that nothing came between,
the words in the cache are those from before it. `MuteEnds` shows that no other call ends
a mute, so the action property is about the unmute alone.

### Synthesizers

From `SynthAssumption` (profiles 0 to 7, ALC words as the chip has them, LOs that are
integers, and boards whose first LOs `ad9361_setup` does not fail on), for any number of
calls:

| theorem | says |
|---|---|
| `LosAreObtained` | a granted LO is the synthesizer's, with the tables of VCO and gain that belong to it |
| `ProfilesAreObeyed` | the driver knows what each synthesizer runs from; a recall is one that locks |

`CarrierGiven` is the arithmetic: every carrier has a divider, and dividing the VCO's
frequency by it gives the carrier back. `SynthInv` has a part for each side (`SideInv`),
one for both (`PairInv`: which tables the VCOs are set up from follows from whether the
LOs are equal) and one for what was granted (`HeldInv`). `LosObtained` is not inductive,
for the fix-up sets the other side up for the LO the driver remembers of it: the
invariant needs that a granted LO is the one remembered (`want`), with the word and the
divider of it. Rates remembered by the registry are not in the invariant
(`RatesDoNotMatter`): that it skips a rate it remembers (`radio_lo`) breaks no grant that
still stands, since the recall or the failed lock ended it. That a recall changes the ALC
word needs that the word in the chip is the one `phy` remembers as written (`AlcInv`).

### Clocks and filters

From `BasebandAssumption`, types of the rates, bandwidths, filters, files and boards:

| theorem | says |
|---|---|
| `ClocksAreRemembered` | after any calls, granted, refused or failed half-way, the rates the driver remembers are those of the chip's registers; filters, analog tuning and what counts clock cycles are set for them |

The registry recomputes every rate after a clock was set, but an enabling at the end of
`ad9361_set_trx_clock_chain` writes the divider of a filter without telling it. That the
rates remembered are still right then is where the work is: the stage must already run
at the rate it has with the filter switched. `AimIsClose` and `LastIsRight` show it by the
arithmetic of the dividers. Once the stage above the filter is set, or skipped because it
had that rate, the rate it has and the one it was asked for differ so little that their
quotient rounds to 1; and a chain that suits the filters asks the last stage for exactly
the latter by the filter's factor. The PLL's word must be large enough for
that (`WordGood`), as it is after `ad9361_setup`.

`BbInv` has the rates remembered unless `bbLost`, the switches when the last chain was
granted and suits the filters, the tuning when the last call was granted, the timing when
the last chain was. Every operator gets one lemma on what it keeps and, when it is
granted, what it sets up (`TrxSet`, `Retuned`, `Configured`, `FirSwitched`); a call is
their composition, and three lemmas (`ChainEnds`, `FiltersEnd`, `NothingEnds`) draw the
invariant from it. An action that fails half-way keeps the rates because each stage alone
does.

### Gain control and RSSI

From `AgcAssumption` (natural numbers; a receiver that does not run faster than CLKRF; a slow
measurement whose logarithm fits its field):

| theorem | says |
|---|---|
| `TimesAreKept` | after any changes of clocks and mode the words in cycles and samples last what the configuration asks for at the clocks in force, and ordered levels arrive in order |

`AgcInv` is that the words are those computed for the clocks and the mode in force:
`ad9361_bb_clk_change_handler` writes them again at each change, and leaves those of an RSSI in
samples, which do not depend on a rate (`SamplesStay`). The rest is arithmetic that a test
would sample. `DurationsAre` follows the greedy powers of two of `ad9361_rssi_setup`: what is left
decreases, so the durations used are the first ones, and they make up the whole unless there are four.
`OneIsFair`, `TwoAreFair` and `ThreeAreFair` add the roundings up: what is over after
all but the last weight is at most 255, so the last one is right. With four it may be
256, which the comment at `ad9361.c:4146` excludes. `MeasuredFits` has the two divisions of the update interval.
The proof corrected two parts of the property that only the small instance
satisfied: that longer durations never weigh less (1027 samples have 254, 0 and 1), and that low
LMT thresholds keep their order.

### Cores and console

From `DacAssumption` (boards, rates that are not zero, corrections of less than two either
way) and `ConsoleAssumption` (words of digits and of characters that are none, at most five in a
line; any numbers of sequences behind the printing buffer), for any number of lines and calls:

| theorem | says |
|---|---|
| `CoresPlay` | the tones remembered are the ones that play, in tune and in quadrature; sources, mode and receive channels follow the number of channels; the DMA plays a whole sine |
| `RegistersHold` | a scale in force is the one remembered; a correction reads back as it was set |
| `TypedIsUsed` | no line acts on a number typed in an earlier one |

`ConInv` is `DacOk` and, of the console, `ConOk`. `DacOk` says the tones pair by pair: I and
Q are remembered with one frequency and one scale and a quarter period apart, and the
words are those of what is remembered. That is what the register words alone would not
give: a new rate sets them again from what is remembered, channel by channel, so they stay
in quadrature only if the memory was. A pair is in tune unless the rate was changed
by the set-up or by filters from a file and the tones not set again (`stale`). A handler changes one pair (`PairChanged`); a change of
rate all of them, and each channel's three words in turn, up to the one that stops an old
driver (`dead`). `QuarterPeriod` is the rounding of a phase and of the phase 90
degrees before it, `ReadsAs` that of a correction and back; both hold for every integer.

### Model-checked only

* `DisplayRefreshes` is liveness. `PublishInOrder` selects from a queue, and selection is
  defined by recursion in the library: what it computes for every input needs an
  induction that the provers here cannot do.
* `SampleLayout` has bitwise operators, which the provers do not know.
* `RatesGranted` in `Baseband`: how far a granted rate may be off depends on each
  frequency, through four roundings; the tolerance is that of the frequencies of the runs.
* The statements that the findings refute.

## 5. Not modelled, and why

* sample values, filter coefficients, the contents of gain and loop filter tables, and
  the drawing of the browser: data that decides nothing the properties tell apart.
* the websocket and HTTP libraries, and the kernel's AXI pipes: not in the repository.
* schematics, boards, generated block designs: no behaviour.
* platform drivers beside the cores: reads and writes of registers, delays, files. The
  capture by DMA writes a memory and stops.
* of the driver: temperature, DCXO trims, auxiliary ADC readings, GPO, gain steps by
  pins, the register values of charge pump, TIA and baseband filter calibration;
  `dig_tune_iodelay`, which nothing reaches; `main.c`'s tables of parameters.
* the browser client and the FPGA: see the plan.

## 6. Plan

1. Proofs: `RatesGranted`, whose arithmetic starts from `SetIsClose`; `PublishInOrder`,
   with a function in place of the library's selection.
2. `Viewer` (zoom stack against `setview`), `WordSplitter`, `Channelizer`,
   `MipmapFlow`: handshakes that lose and repeat nothing, refining a queue.
3. A composition of `Ensm` with `Calib` and `Tune`, so that what runs while a state is
   forced is no longer one step.
4. The capture by DMA on the two platforms, and the client's decoding of a frame.
