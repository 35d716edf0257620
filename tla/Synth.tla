-------------------------------- MODULE Synth --------------------------------
(***************************************************************************)
(* The two RF synthesizers of the AD9361 as the driver runs them           *)
(* (sw/ad9361.c, ad9361_api.c, util.c): the LO frequency of each side, the  *)
(* fast lock profiles, the external LO, the powering down of an LO, and what *)
(* follows an LO: the receiver's gain table and the transmitter's quadrature *)
(* calibration.                                                            *)
(*                                                                         *)
(* Frequencies are in MHz.  The word of a synthesizer is named by the VCO   *)
(* frequency it gives, a row of the VCO tables by its index.               *)
(***************************************************************************)
EXTENDS Integers, Sequences, FiniteSets, SequencesExt

CONSTANTS
  LoFreqs,     \* the LO frequencies asked for
  LoBoards,    \* the boards: [dev, fdd, indep, skipCal, first], first by side
  LoProfiles,  \* the fast lock profiles used, of 0..7
  AlcWords,    \* what the chip's ALC may come to at a VCO calibration: evens
  MaxLoCalls   \* bound: the calls made after set-up
ASSUME SynthAssumption ==
  /\ LoProfiles \subseteq 0..7
  /\ \A a \in AlcWords : a \in 0..254 /\ a % 2 = 0
  /\ LoFreqs \subseteq Int
  \* The first LOs are ones that ad9361_setup does not fail on.
  /\ \A b \in LoBoards, t \in {"RX", "TX"} :
       b.first[t] \in IF b.dev = "AD9363A" THEN 325..3800 ELSE 70..6000
  /\ \A b \in LoBoards :
       DOMAIN b.first = {"RX", "TX"} /\ {b.fdd, b.indep, b.skipCal} \subseteq BOOLEAN

VARIABLES
  loBoard,     \* phy->dev_sel and pdata
  lo,          \* the chip and phy
  loCalls,     \* the calls made so far
  loHeld,      \* ghost, by side: the frequency last granted and not given up
               \* for a profile, an external LO or another call's failure; 0
  loAsked      \* ghost: <<side, frequency>> of the last call, when it set an LO
               \* and returned no error

loVars == <<loBoard, lo, loCalls, loHeld, loAsked>>

LoSides == {"RX", "TX"}
OtherSide(t) == IF t = "RX" THEN "TX" ELSE "RX"

MIN_VCO_FREQ == 6000
Garbage == 8589          \* -EINVAL, taken for a rate of 32 bits, in MHz

-----------------------------------------------------------------------------
(***************************************************************************)
(* The words.                                                              *)
(***************************************************************************)

\* ad9361_rfpll_int_round_rate and ad9361_validate_rfpll: what can be tuned.
InCarrierRange(f) == f \in 70..6000
ValidLo(f) == IF loBoard.dev = "AD9363A" THEN f \in 325..3800
              ELSE InCarrierRange(f)

\* ad9361_calc_rfpll_int_divder: the VCO's frequency is the LO's doubled until
\* it is above 6 GHz, and the divider says how often.
LoDivider(f) == (CHOOSE d \in 1..7 : /\ f * 2^d > MIN_VCO_FREQ
                                     /\ f * 2^(d - 1) <= MIN_VCO_FREQ) - 1
VcoFor(f) == f * 2^(LoDivider(f) + 1)

\* ad9361_calc_rfpll_int_freq
LoFrequency(vco, div) == vco \div 2^(div + 1)

\* The VCO frequencies of the rows of SynthLUT_FDD and SynthLUT_TDD, whose
\* settings stand for the row: they are the same for every reference.
VcoMHz ==
  << 12605, 12245, 11906, 11588, 11288, 11007, 10742, 10492, 10258, 10036,
     9827, 9631, 9445, 9269, 9103, 8946, 8797, 8655, 8520, 8392, 8269, 8153,
     8041, 7934, 7831, 7733, 7638, 7547, 7459, 7374, 7291, 7212, 7135, 7061,
     6988, 6918, 6850, 6784, 6720, 6658, 6597, 6539, 6482, 6427, 6373, 6321,
     6270, 6222, 6174, 6128, 6083, 6040, 5997 >>

\* The search of ad9361_rfpll_vco_init: the first row not above the VCO.  With
\* no such row the search ends behind the table.
VcoRow(vco) ==
  LET below == {i \in 1..Len(VcoMHz) : VcoMHz[i] <= vco}
  IN IF below = {} THEN Len(VcoMHz) + 1
     ELSE CHOOSE i \in below : \A j \in below : i <= j

\* ad9361_gt_tableindex
GainTable(f) == IF f <= 1300 THEN "low" ELSE IF f <= 4000 THEN "middle" ELSE "high"

-----------------------------------------------------------------------------
(***************************************************************************)
(* The state, per side: in the chip                                        *)
(*   vco, div     the synthesizer's word and divider                       *)
(*   lut          the <<table, row>> its VCO was set up from               *)
(*   alc          the word its ALC came to                                 *)
(*   fast         the profile it runs from, plus one; 0 for the word       *)
(*   slot         the profiles: [vco, div, alc]                            *)
(*   used         the ALC word it was last locked with                     *)
(*   ready, cal   the synthesizer is taken for ready; its VCO calibrates   *)
(*   pd           what is powered down, of {"LO", "VCO"}                   *)
(*   ext          the buffer of the external LO is on                      *)
(* and in phy                                                              *)
(*   rate         the rate remembered for the LO's clock                   *)
(*   dummy        the rate of the external LO                              *)
(*   want         current_rx_lo_freq                                       *)
(*   cachedDiv, tdd, profile, cachedPd, useExt                             *)
(*   entry        the profiles: [init, orig, written]                      *)
(* and for both sides table, the gain table loaded, auto and quad, the      *)
(* automatic quadrature calibration and the LO it was last run for.        *)
(***************************************************************************)

ChipLo(x, t) ==
  IF x[t].fast # 0
    THEN LoFrequency(x[t].slot[x[t].fast - 1].vco, x[t].slot[x[t].fast - 1].div)
    ELSE LoFrequency(x[t].vco, x[t].div)

\* ad9361_rfpll_int_recalc_rate goes by phy's profile.
IntRate(x, t) ==
  LET p == x[t].profile
  IN IF p # 0 THEN LoFrequency(x[t].slot[p - 1].vco, x[t].slot[p - 1].div)
     ELSE LoFrequency(x[t].vco, x[t].div)

\* ad9361_rfpll_recalc_rate
LoRate(x, t) == IF x[t].useExt THEN x[t].dummy ELSE IntRate(x, t)

\* The end of clk_set_rate
Recomputed(x) ==
  [x EXCEPT !["RX"].rate = LoRate(x, "RX"), !["TX"].rate = LoRate(x, "TX")]

\* ad9361_rfpll_round_rate: the receiver's case falls through into the
\* transmitter's, whose LO then decides.
RoundLo(x, f) == IF x["TX"].useExt \/ InCarrierRange(f) THEN f ELSE Garbage

\* ad9361_fastlock_prepare(phy, t, 0, false): forcing the ALC for a moment
\* brings it back to the register's word.
LeaveProfile(x, t) ==
  IF x[t].profile = 0 THEN x
  ELSE [x EXCEPT ![t].fast = 0, ![t].profile = 0, ![t].ready = FALSE,
                 ![t].cal = TRUE, ![t].used = x[t].alc]

\* ad9361_rfpll_vco_init: in FDD with two LOs the tables of FDD.
LutFor(x, t, vco) ==
  << IF loBoard.fdd /\ ~loBoard.indep /\ x["RX"].want # x["TX"].want
       THEN "FDD" ELSE "TDD", VcoRow(vco) >>

\* One round of ad9361_rfpll_int_set_rate: the side is set up for a frequency
\* and calibrates its VCO.
TuneVco(x, t, f, alc) ==
  LET l == LutFor(x, t, VcoFor(f))
  IN [x EXCEPT ![t].vco = VcoFor(f), ![t].div = LoDivider(f), ![t].lut = l,
               ![t].tdd = (l[1] = "TDD"), ![t].alc = alc, ![t].used = alc]

\* In FDD both sides use the tables of TDD at one LO and those of FDD at two,
\* so a change of one LO may call for the other's VCO to be set up again.
NeedsFixup(x) ==
  /\ loBoard.fdd /\ ~loBoard.indep
  /\ IF x["RX"].want = x["TX"].want THEN x["RX"].tdd # x["TX"].tdd
                                    ELSE x["RX"].tdd \/ x["TX"].tdd

\* Mutant: the other side is set up for the frequency of this one.
FixupSame(x, t, alc) ==
  LET u == OtherSide(t) IN TuneVco(LeaveProfile(x, u), u, x[t].want, alc)
\* A profile of the other side is left only when the LOs differ.
Fixup(x, t, alc) ==
  LET u == OtherSide(t)
  IN TuneVco(IF x[t].want # x[u].want THEN LeaveProfile(x, u) ELSE x,
             u, x[u].want, alc)

\* ad9361_rfpll_int_set_rate.  A profile is left before the frequency is looked
\* at; the result is that of the last lock.
IntSetRate(x, t, f, alc, l1, l2) ==
  LET y == LeaveProfile(x, t)
      z == [y EXCEPT ![t].want = f, ![t].cachedDiv = LoDivider(f)]
      v == TuneVco(z, t, f, alc)
      w == IF NeedsFixup(v) THEN Fixup(v, t, alc) ELSE v
      skipped == IF loBoard.skipCal THEN [w EXCEPT ![t].cal = FALSE] ELSE w
  IN IF ~ValidLo(f) THEN [y EXCEPT !.ok = FALSE]
     ELSE [skipped EXCEPT !.ok = IF NeedsFixup(v) THEN l2 ELSE l1]

\* What ad9361_rfpll_set_rate does after the LO is set: the gain table of the
\* frequency, and the quadrature calibrated again, for the frequency even when
\* that fails.
FollowLo(x, t, f) ==
  IF t = "RX" THEN [x EXCEPT !.table = GainTable(f)]
  ELSE IF x.auto /\ ~x["TX"].useExt /\ (f - x.quad > 100 \/ x.quad - f > 100)
         THEN [x EXCEPT !.quad = f]
         ELSE x

\* clk_set_rate of RX_RFPLL or TX_RFPLL
SetLoRate(x, t, f, alc, l1, l2) ==
  LET r == RoundLo(x, f)
      y == IF x[t].useExt THEN [x EXCEPT ![t].dummy = r]
           ELSE IntSetRate(x, t, r, alc, l1, l2)
  IN IF x[t].rate = f THEN x
     ELSE IF ~y.ok THEN y
     ELSE Recomputed(FollowLo(y, t, r))

-----------------------------------------------------------------------------
(***************************************************************************)
(* Fast lock.                                                              *)
(***************************************************************************)

\* ad9361_fastlock_load
LoadProfile(x, t, p, values) ==
  [x EXCEPT ![t].slot[p] = values,
            ![t].entry[p] = [init |-> TRUE, orig |-> values.alc,
                             written |-> values.alc]]

\* ad9361_fastlock_store reads the synthesizer's own registers.
StoredProfile(x, t) == [vco |-> x[t].vco, div |-> x[t].div, alc |-> x[t].alc]

\* Mutant: the word is written as it was stored.
NextAlcAsStored(curr, e) == e.written
\* The workaround of ad9361_fastlock_recall: a profile whose ALC word is the
\* one in use is given another one, and back.
NextAlc(curr, e) ==
  IF curr # e.written THEN e.written
  ELSE IF e.orig = e.written THEN (e.written + 2) % 256 ELSE e.orig

\* ad9361_fastlock_recall of a profile that was stored or loaded
RecallProfile(x, t, p) ==
  LET e == x[t].entry[p]
      curr == IF x[t].profile = 0 THEN x[t].alc
              ELSE x[t].entry[x[t].profile - 1].written
      alc == NextAlc(curr, e)
      written == [x EXCEPT ![t].entry[p].written = alc,
                           ![t].slot[p].alc = IF curr = e.written THEN alc ELSE @]
      prepared == IF x[t].profile # 0 THEN written
                  ELSE [written EXCEPT ![t].ready = TRUE, ![t].cal = FALSE]
  IN [prepared EXCEPT ![t].profile = p + 1, ![t].fast = p + 1,
                      ![t].used = prepared[t].slot[p].alc]

-----------------------------------------------------------------------------
(***************************************************************************)
(* The external LO and the powering down.                                  *)
(***************************************************************************)

\* ad9361_trx_ext_lo_control through ad9361_clk_mux_set_parent: a divider of 7
\* takes the external LO.
ExtLoControl(x, t, on) ==
  LET pd == IF on THEN x[t].cachedPd \cup {"VCO"} ELSE x[t].cachedPd \ {"VCO"}
  IN [x EXCEPT ![t].div = IF on THEN 7 ELSE x[t].cachedDiv,
               ![t].cachedPd = pd, ![t].pd = pd, ![t].ext = on]

\* ad9361_synth_lo_powerdown
LoPowerdown(x, t, on) ==
  LET pd == IF on THEN x[t].cachedPd \ {"LO"} ELSE x[t].cachedPd \cup {"LO"}
  IN [x EXCEPT ![t].cachedPd = pd, ![t].pd = pd]

\* ad9361_get_rx_lo_power, ad9361_get_tx_lo_power: 0 is ON, 1 is OFF.
LoPowerTold(x, t) == IF "LO" \notin x[t].cachedPd THEN "OFF" ELSE "ON"

-----------------------------------------------------------------------------
(***************************************************************************)
(* The steps, one per call.                                                *)
(***************************************************************************)

LoEnds(x, held, asked) ==
  /\ loCalls < MaxLoCalls /\ loCalls' = loCalls + 1
  /\ lo' = [x EXCEPT !.ok = TRUE] /\ loHeld' = held /\ loAsked' = asked
  /\ UNCHANGED loBoard

\* ad9361_set_rx_lo_freq, ad9361_set_tx_lo_freq
SetLoFreq(t) ==
  \E f \in LoFreqs, alc \in AlcWords, l1, l2 \in BOOLEAN :
    LET y == SetLoRate(lo, t, f, alc, l1, l2)
        u == OtherSide(t)
        skipped == lo[t].useExt \/ lo[t].rate = f
        left == (lo[u].profile # 0 /\ y[u].profile = 0)   \* u's profile
                  \/ (~y.ok /\ y[u] # lo[u])
    IN LoEnds(y, [s \in LoSides |->
                   IF s = u THEN IF left THEN 0 ELSE loHeld[u]
                   ELSE IF ~y.ok THEN 0
                   ELSE IF skipped THEN loHeld[t] ELSE f],
              IF y.ok THEN <<t, f>> ELSE <<>>)
SetRxLoFreq == SetLoFreq("RX")
SetTxLoFreq == SetLoFreq("TX")

\* ad9361_rx_fastlock_store, ad9361_tx_fastlock_store
FastlockStore(t) ==
  \E p \in LoProfiles :
    LoEnds(LoadProfile(lo, t, p, StoredProfile(lo, t)), loHeld, <<>>)
RxFastlockStore == FastlockStore("RX")
TxFastlockStore == FastlockStore("TX")

\* ad9361_rx_fastlock_save, to the user, and ad9361_rx_fastlock_load of it
FastlockLoad(t) ==
  \E p, q \in LoProfiles :
    /\ p # q /\ lo[t].entry[q].init
    /\ LoEnds(LoadProfile(lo, t, p, lo[t].slot[q]), loHeld, <<>>)
RxFastlockLoad == FastlockLoad("RX")
TxFastlockLoad == FastlockLoad("TX")

\* ad9361_rx_fastlock_recall, ad9361_tx_fastlock_recall
FastlockRecall(t) ==
  \E p \in LoProfiles :
    /\ lo[t].entry[p].init
    /\ LoEnds(RecallProfile(lo, t, p), [loHeld EXCEPT ![t] = 0], <<>>)
RxFastlockRecall == FastlockRecall("RX")
TxFastlockRecall == FastlockRecall("TX")

\* ad9361_set_rx_lo_int_ext, ad9361_set_tx_lo_int_ext: on the AD9363A the
\* condition assigns int_ext, and every call is refused.
SetLoIntExt(t) ==
  \E on \in BOOLEAN :
    /\ loBoard.dev # "AD9363A"
    /\ LoEnds(ExtLoControl([lo EXCEPT ![t].useExt = on], t, on),
              [loHeld EXCEPT ![t] = 0], <<>>)
SetRxLoIntExt == SetLoIntExt("RX")
SetTxLoIntExt == SetLoIntExt("TX")

\* ad9361_rx_lo_powerdown, ad9361_tx_lo_powerdown
SetLoPower(t) ==
  \E on \in BOOLEAN : LoEnds(LoPowerdown(lo, t, on), loHeld, <<>>)
RxLoPowerdown == SetLoPower("RX")
TxLoPowerdown == SetLoPower("TX")

\* ad9361_set_tx_auto_cal_en_dis
SetTxAutoCal == \E on \in BOOLEAN : LoEnds([lo EXCEPT !.auto = on], loHeld, <<>>)

\* The state ad9361_setup leaves: the RX LO and then the TX LO of the board set
\* from nothing.
ClearedSide(alc) ==
  [vco |-> 0, div |-> 0, lut |-> <<"FDD", 1>>, alc |-> alc, fast |-> 0,
   slot |-> [p \in LoProfiles |-> [vco |-> 0, div |-> 0, alc |-> 0]],
   used |-> alc, ready |-> FALSE, cal |-> TRUE, pd |-> {}, ext |-> FALSE,
   rate |-> 0, dummy |-> 0, want |-> 0, cachedDiv |-> 0, tdd |-> FALSE,
   profile |-> 0, cachedPd |-> {}, useExt |-> FALSE,
   entry |-> [p \in LoProfiles |-> [init |-> FALSE, orig |-> 0, written |-> 0]]]
LoSetup(alc) ==
  LET none == [RX |-> ClearedSide(alc), TX |-> ClearedSide(alc), ok |-> TRUE,
               table |-> "none", auto |-> FALSE, quad |-> loBoard.first["TX"]]
      rx == SetLoRate(none, "RX", loBoard.first["RX"], alc, TRUE, TRUE)
      tx == SetLoRate(rx, "TX", loBoard.first["TX"], alc, TRUE, TRUE)
  IN [tx EXCEPT !.auto = TRUE]

SynthInit ==
  /\ loBoard \in LoBoards /\ loCalls = 0
  /\ \E alc \in AlcWords : lo = LoSetup(alc)
  /\ loHeld = loBoard.first
  /\ loAsked = <<>>

SynthNext ==
  \/ SetRxLoFreq \/ RxFastlockStore \/ RxFastlockLoad \/ RxFastlockRecall
  \/ SetTxLoFreq \/ TxFastlockStore \/ TxFastlockLoad \/ TxFastlockRecall
  \/ SetRxLoIntExt \/ RxLoPowerdown \/ SetTxLoIntExt \/ TxLoPowerdown
  \/ SetTxAutoCal

SynthSpec == SynthInit /\ [][SynthNext]_loVars

-----------------------------------------------------------------------------
(***************************************************************************)
(* Properties.                                                             *)
(***************************************************************************)

SynthTypeOK ==
  /\ loBoard \in LoBoards /\ lo.ok /\ lo.auto \in BOOLEAN
  /\ \A t \in LoSides : /\ lo[t].div \in 0..7
                        /\ lo[t].lut[1] \in {"FDD", "TDD"}
                        /\ lo[t].lut[2] \in 1..Len(VcoMHz)
                        /\ lo[t].pd \subseteq {"LO", "VCO"}

\* A granted LO frequency is the one the chip's synthesizer gives from then on,
\* through everything done to the other side, until the side itself is given a
\* profile or an external LO: the other side's set-up never takes it away.
LoObtained ==
  \A t \in LoSides : loHeld[t] # 0 /\ ~lo[t].useExt => ChipLo(lo, t) = loHeld[t]

\* In FDD the VCOs of two equal LOs are set up from the tables of TDD and those
\* of two different LOs from the tables of FDD, whichever was set last, and
\* each from the row of its own frequency.
TablesFollowBothLos ==
  \A t \in LoSides :
    lo[t].fast = 0 =>
      /\ lo[t].lut[2] = VcoRow(lo[t].vco)
      /\ loBoard.fdd /\ ~loBoard.indep =>
           (lo[t].lut[1] = "TDD" <=> lo["RX"].want = lo["TX"].want)

\* The chip runs from a profile exactly when the driver counts with that
\* profile, and only then is the synthesizer taken for ready and its VCO kept
\* from calibrating.
ProfileKnown ==
  \A t \in LoSides :
    /\ lo[t].fast = lo[t].profile
    /\ lo[t].ready <=> lo[t].profile # 0
    /\ lo[t].profile # 0 => ~lo[t].cal

\* The gain table is that of the receiver's LO, as long as the LO was set.
TableFollowsLo == loHeld["RX"] # 0 /\ ~lo["RX"].useExt => lo.table = GainTable(loHeld["RX"])

\* Back on its own synthesizer, a side has the divider of its frequency again.
DividerRestored == \A t \in LoSides : ~lo[t].useExt => lo[t].div # 7

\* The power-down of an LO survives switching to the external LO and back, and
\* the VCO is down exactly with the external LO.
PowerdownKept ==
  \A t \in LoSides : /\ lo[t].pd = lo[t].cachedPd
                     /\ ("VCO" \in lo[t].pd <=> lo[t].ext)

\* A profile is never recalled with the ALC word already in use, for which the
\* synthesizer would not lock, unless the profile in use was loaded anew.
RecallChangesAlc ==
  [][\A t \in LoSides :
       (/\ lo'[t].fast # 0 /\ lo'[t].fast # lo[t].fast
        /\ lo[t].fast # 0 => lo[t].slot[lo[t].fast - 1].alc = lo[t].used)
       => lo'[t].used # lo[t].used]_loVars

\* A call that sets an LO and returns no error leaves the synthesizer at the
\* frequency asked for (ad9361_api.c:725).
LoObeyed ==
  loAsked # <<>> /\ ~lo[loAsked[1]].useExt =>
    ChipLo(lo, loAsked[1]) = loAsked[2]

\* An LO that was granted stays, with the tables of VCO and gain that belong to it,
\* through everything done to the other side.
LosObtained == LoObtained /\ TablesFollowBothLos /\ TableFollowsLo

\* In and out of profiles and external LOs the driver knows what the synthesizer
\* runs from, and a recall is one the synthesizer locks on.
ProfilesObeyed ==
  [](ProfileKnown /\ DividerRestored /\ PowerdownKept) /\ RecallChangesAlc
=============================================================================
