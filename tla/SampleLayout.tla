---------------------------- MODULE SampleLayout ----------------------------
(***************************************************************************)
(* The order of samples in a capture buffer and of bins in a spectrum.     *)
(* The pipes store a matrix in bursts and interleave the bits of the row   *)
(* and column numbers of a burst; copyOriginal and copySpectrum            *)
(* (hw_data_format.H) undo that one sample at a time, and                  *)
(* copyArrayToMemHalfWidth (hw.C) does it by hand for a test signal.       *)
(*                                                                         *)
(* Sample i of a waveform is the one in row i / RowLen and column          *)
(* i % RowLen; memory holds sample numbers.                                *)
(***************************************************************************)
EXTENDS Integers, Bitwise, FiniteSets, Functions

CONSTANTS
  RowBits,  \* the matrix has 2^RowBits rows and columns
  Starts    \* bound: where the views of the spectrum begin; they go to the end

RowLen == 2 ^ RowBits      \* 1024
Len2   == RowLen * RowLen  \* samples in a chunk

ASSUME SampleLayoutAssumption ==
  /\ RowBits \in Nat /\ RowBits >= 4
  /\ Starts \subseteq 0 .. Len2 - 1

\* A waveform is stored in bursts of w rows and h columns of 32-bit samples.
w == 4
h == 2
W == RowLen \div w
H == RowLen \div h
burstLength == w * h
Imask == W - 1        \* W < H
Ibits == RowBits - 3  \* myLog2(W) - 1

Bits == 0 .. RowBits - 1
BitOf(v, k) == (v \div 2 ^ k) % 2

\* expandBits: bit k moves to bit 2 * k.
expandBits(v) ==
  LET sum[k \in -1 .. RowBits - 1] ==
        IF k = -1 THEN 0 ELSE sum[k - 1] + BitOf(v, k) * 4 ^ k
  IN  sum[RowBits - 1]

\* The bits of the smaller dimension are interleaved, those above keep together.
Interleaved(n) ==
  expandBits(n & Imask) | ((n - (n & Imask)) * 2 ^ Ibits)

\* The index of a burst in memory, in samples.
BurstAddress(bx, by) == (Interleaved(bx) | (Interleaved(by) * 2)) * burstLength

VARIABLES
  memory,  \* what copyArrayToMemHalfWidth has stored: a sample by address
  X, Y,    \* its loop counters; X = W when it has ended
  first,   \* the range copySpectrum was asked for, and how far it is
  count,
  i,       \* its loop counter
  bins     \* the number of bins it has copied

layoutVars == <<memory, X, Y, first, count, i, bins>>

LayoutInit ==
  /\ memory = << >>
  /\ X = 0
  /\ Y = 0
  /\ first = 0
  /\ count = 0
  /\ i = 0
  /\ bins = 0

\* The samples of burst (X, Y) in the order they are stored.
BurstSamples ==
  LET at(row, col) == (Y * h + col) + (X * w + row) * RowLen
  IN  << at(0, 0), at(1, 0), at(0, 1), at(1, 1), at(2, 0), at(3, 0), at(2, 1), at(3, 1) >>

\* One round of copyArrayToMemHalfWidth.
StoreBurst ==
  /\ X < W
  /\ LET base == BurstAddress(X, Y)
     IN  memory' = [a \in DOMAIN memory \cup (base .. base + burstLength - 1) |->
                      IF a - base \in 0 .. burstLength - 1
                      THEN BurstSamples[a - base + 1] ELSE memory[a]]
  /\ IF Y + 1 < H THEN Y' = Y + 1 /\ X' = X ELSE Y' = 0 /\ X' = X + 1
  /\ UNCHANGED <<first, count, i, bins>>

\* Faulty variant: row and column inside a burst are mixed up
WithinSwapped(row, col) == (col % 2) + row * 2

WithinBurst(row, col) == (row % 2) + col * 2 + (row \div 2) * 4

\* copyOriginal: the address of sample n.
OriginalAddress(n) ==
  LET row == n \div RowLen
      col == n % RowLen
  IN  BurstAddress(row \div w, col \div h) + WithinBurst(row % w, col % h)

\* Faulty variant: the bits of the row are not moved out of the way
SpectrumAddressUnshifted(n) ==
  LET row == n \div RowLen
      col == n % RowLen
  IN  (expandBits(col \div 2) | expandBits(row \div 2)) * 4 + (col % 2) + (row % 2) * 2

\* copySpectrum: bursts of two rows and two columns of 64-bit bins.
SpectrumAddress(n) ==
  LET row == n \div RowLen
      col == n % RowLen
  IN  (expandBits(col \div 2) | (expandBits(row \div 2) * 2)) * 4 + (col % 2) + (row % 2) * 2

HalfFurther(n) ==
  IF n + Len2 \div 2 >= Len2 THEN n + Len2 \div 2 - Len2 ELSE n + Len2 \div 2

\* copySpectrum is called for the bins from s on, n of them.
BeginSpectrum(s, n) ==
  /\ bins = count
  /\ first' = s
  /\ count' = n
  /\ i' = HalfFurther(s)
  /\ bins' = 0
  /\ UNCHANGED <<memory, X, Y>>

\* One round of its loop.
CopyBin ==
  /\ bins < count
  /\ bins' = bins + 1
  /\ i' = (i + 1) % Len2
  /\ UNCHANGED <<memory, X, Y, first, count>>

\* Samples and spectra are in different buffers: a spectrum is read before the
\* samples are stored or after.
LayoutNext ==
  \/ count = 0 /\ StoreBurst
  \/ X \in {0, W} /\ Y = 0 /\ \E s \in Starts : BeginSpectrum(s, Len2 - s)
  \/ CopyBin

-----------------------------------------------------------------------------
(* Properties.                                                             *)

LayoutTypeOK ==
  /\ DOMAIN memory \cup Range(memory) \subseteq 0 .. Len2 - 1
  /\ X \in 0 .. W
  /\ Y \in 0 .. H - 1
  /\ first \in 0 .. Len2 - 1
  /\ count \in 0 .. Len2
  /\ i \in 0 .. Len2 - 1
  /\ bins \in 0 .. count

\* Whether the burst of sample n has been stored.
Stored(n) ==
  LET bx == (n \div RowLen) \div w
      by == (n % RowLen) \div h
  IN  bx * H + by < X * H + Y

\* copyOriginal finds every sample where copyArrayToMemHalfWidth has put it,
\* although the two number rows, columns and bits in different ways: from the
\* first burst on, and no burst is stored over another one.
ReadsWhatIsStored ==
  X + Y > 0 => \A n \in 0 .. Len2 - 1 :
    LET a == OriginalAddress(n)
    IN  (a \in DOMAIN memory) = Stored(n) /\ (Stored(n) => memory[a] = n)

\* Where a bin of the FFT is shown: the lowest frequency is in the middle of the
\* buffer, and bins at neighbouring addresses are neighbours.
Bin(n) == (n + Len2 \div 2) % Len2

\* The loop of copySpectrum is at the bin of the position it copies next, inside
\* the buffer and across its end.
SpectrumCentred ==
  bins < count => i = Bin(first + bins) /\ SpectrumAddress(i) \in 0 .. Len2 - 1

\* The bins of the spectrum are read from different addresses: no bin is shown
\* twice in place of another one.
SpectrumInjective ==
  bins = 0 /\ count > 0 =>
    Cardinality({SpectrumAddress(n) : n \in 0 .. Len2 - 1}) = Len2

\* The spectrum is read from its middle on, around its end, each bin once.
SpectrumWhole == SpectrumCentred /\ SpectrumInjective
=============================================================================
