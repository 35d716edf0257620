----------------------------- MODULE MipmapView -----------------------------
(***************************************************************************)
(* What one websocket connection looks at (server.C, MyHandler) and how    *)
(* mipmapReader serves it: "setview" clamps the range a client asks for,   *)
(* requestView picks a mipmap level and rounds the range to its chunks,    *)
(* and the timer copies the chunks of both displays into one frame.        *)
(*                                                                         *)
(* The two displays share one finder.  A position is a sample of the       *)
(* waveform or a bin of the spectrum, counted as the client counts them.   *)
(***************************************************************************)
EXTENDS MipmapFinder, FiniteSetsExt

CONSTANTS
  baseLevelStep,  \* samples in one point of level 0
  chunkSize,      \* points in one chunk of a level
  length,         \* samples in a captured chunk
  Resolution,     \* points the server asks for
  MinTail,        \* the start of a view is at most length - MinTail
  MinSpan,        \* the end of a view is at least start + MinSpan
  DefaultEnd,     \* the end of the view a connection starts with
  Asked           \* bound: the positions a client may send as start or end

VARIABLES
  mView,      \* the view of each display
  asked,      \* the request each view was made from, clamped
  display,    \* the display whose data timerCB copies, or none
  copied,     \* indices of the chunks copied for it
  writing,    \* wsw.writing
  failed      \* read has thrown or an assertion of requestView has failed

vars == <<levelIndex, currLevel, currIndex, mView, asked, display, copied, writing, failed>>

Displays == 0 .. 1
NoDisplay == 2

levelCompression[i \in Levels] ==
  IF i = 0 THEN baseLevelStep ELSE levelCompression[i - 1] * Step(i - 1)

\* hw_init: the steps describe a whole captured chunk.
ASSUME MipmapViewAssumption ==
  /\ {baseLevelStep, chunkSize, Resolution, MinTail, MinSpan} \subseteq Nat \ {0}
  /\ MinTail >= MinSpan /\ length >= MinTail
  /\ DefaultEnd \in 1 .. length
  /\ Asked \subseteq Int
  /\ length = Count[0] * chunkSize * baseLevelStep

View == [start : 0 .. length, end : 0 .. length, resolution : 1 .. length]

-----------------------------------------------------------------------------
(* mipmapReaderView and requestView.                                       *)

compression(v) == (v.end - v.start) \div v.resolution

\* The levels with at least the points that were asked for.
Detailed(start, end) == {i \in Levels : levelCompression[i] * Resolution <= end - start}

RoundDown(n, to) == (n \div to) * to

RoundUp(n, to) == ((n + to - 1) \div to) * to

\* Faulty variant: the finest of the levels that are detailed enough
ChooseFinest(fits) == Min(fits)

ChooseLevel(fits) == Max(fits)

\* The original samples when no mipmap is detailed enough, otherwise the coarsest
\* level that is, from chunk to chunk.
requestView(start, end) ==
  LET fits == Detailed(start, end)
  IN  IF fits = {}
      THEN [start |-> start, end |-> end, resolution |-> end - start]
      ELSE LET c    == levelCompression[ChooseLevel(fits)]
               from == RoundDown(start, c * chunkSize)
               to   == RoundUp(end, c * chunkSize)
           IN  [start |-> from, end |-> to, resolution |-> (to - from) \div c]

\* The assertions of requestView.
Requestable(start, end) ==
  /\ start >= 0 /\ start < length
  /\ end > start /\ end <= length
  /\ requestView(start, end).end <= length

-----------------------------------------------------------------------------
(* The handlers.                                                           *)

\* wsStart.
Init ==
  /\ FinderInit
  /\ mView = [d \in Displays |-> requestView(0, DefaultEnd)]
  /\ asked = [d \in Displays |-> <<0, DefaultEnd>>]
  /\ display = NoDisplay
  /\ copied = << >>
  /\ writing = FALSE
  /\ failed = FALSE

\* Faulty variant: the start is limited to the length
ClampStartLate(start) == IF start < 0 THEN 0 ELSE IF start > length THEN length ELSE start

ClampStart(start) ==
  IF start < 0 THEN 0 ELSE IF start > length - MinTail THEN length - MinTail ELSE start

ClampEnd(start, end) ==
  LET e == IF end < start + MinSpan THEN start + MinSpan ELSE end
  IN  IF e > length THEN length ELSE e

\* "setview": every text frame is echoed first, which starts a write.
SetView(d, start, end) ==
  LET s == ClampStart(start)
      e == ClampEnd(s, end)
  IN  /\ ~failed
      /\ display = NoDisplay
      /\ writing' = TRUE
      /\ IF Requestable(s, e)
         THEN /\ mView' = [mView EXCEPT ![d] = requestView(s, e)]
              /\ asked' = [asked EXCEPT ![d] = <<s, e>>]
              /\ UNCHANGED failed
         ELSE failed' = TRUE /\ UNCHANGED <<mView, asked>>
      /\ UNCHANGED <<finder, display, copied>>

\* The write has ended.
Written ==
  /\ writing
  /\ display = NoDisplay
  /\ writing' = FALSE
  /\ UNCHANGED <<finder, mView, asked, display, copied, failed>>

UseOriginal(d) == compression(mView[d]) = 1
IsSpectrum(d) == d = 1

LevelsOf(d) == {i \in Levels : levelCompression[i] = compression(mView[d])}

\* The chunks of a level.
TotalChunks(i) == (length \div levelCompression[i]) \div chunkSize

\* Faulty variant: the spectrum is read from the lowest bin the FFT has
FirstChunkUnshifted(d, i) == (mView[d].start \div compression(mView[d])) \div chunkSize

\* Where read and readSpectrum begin; the middle of the spectrum is the first
\* bin of the FFT.
FirstChunk(d, i) ==
  LET n == (mView[d].start \div compression(mView[d])) \div chunkSize
      k == n + TotalChunks(i) \div 2
  IN  IF ~IsSpectrum(d) THEN n
      ELSE IF k >= TotalChunks(i) THEN k - TotalChunks(i) ELSE k

\* The data of display d begins.
Begin(d) ==
  /\ display' = d
  /\ copied' = << >>
  /\ writing' = TRUE
  /\ UNCHANGED <<mView, asked, failed>>

\* timerCB: skip a frame if there are still data waiting to be sent.
TimerCB ==
  /\ ~failed
  /\ display = NoDisplay
  /\ ~writing
  /\ Begin(0)
  /\ UNCHANGED finder

Copying == display # NoDisplay /\ ~UseOriginal(display)

\* read and readSpectrum: goToChunk and the first chunk.
CopyFirst ==
  /\ Copying
  /\ copied = << >>
  /\ IF LevelsOf(display) = {}
     THEN failed' = TRUE /\ display' = NoDisplay /\ UNCHANGED <<finder, copied>>
     ELSE /\ \E i \in LevelsOf(display) : goToChunk(i, FirstChunk(display, i))
          /\ copied' = << currIndex' >>
          /\ UNCHANGED <<failed, display>>
  /\ UNCHANGED <<mView, asked, writing>>

\* Faulty variant: one chunk too many
MoreToCopyLate == Len(copied) * chunkSize <= mView[display].resolution

\* dstOffs < dstElements
MoreToCopy == Len(copied) * chunkSize < mView[display].resolution

CopyNext ==
  /\ Copying
  /\ copied # << >>
  /\ MoreToCopy
  /\ advanceChunk
  /\ copied' = Append(copied, currIndex')
  /\ UNCHANGED <<mView, asked, display, writing, failed>>

\* The frame of one display is complete: on to the next, or flush.
EndDisplay ==
  /\ display # NoDisplay
  /\ Copying => copied # << >> /\ ~MoreToCopy
  /\ IF display + 1 \in Displays
     THEN Begin(display + 1)
     ELSE display' = NoDisplay /\ copied' = << >> /\ UNCHANGED <<mView, asked, writing, failed>>
  /\ UNCHANGED finder

Next ==
  \/ \E d \in Displays : \E s, e \in Asked : SetView(d, s, e)
  \/ TimerCB \/ CopyFirst \/ CopyNext \/ EndDisplay \/ Written

Spec == Init /\ [][Next]_vars

-----------------------------------------------------------------------------
(* Properties.                                                             *)

TypeOK ==
  /\ mView \in [Displays -> View]
  /\ asked \in [Displays -> (0 .. length) \X (0 .. length)]
  /\ display \in Displays \cup {NoDisplay}
  /\ copied \in Seq(0 .. totalChunkCount - 1)
  /\ writing \in BOOLEAN
  /\ failed \in BOOLEAN
  /\ FinderTypeOK

\* Whatever range a client sends, no assertion of requestView fails and read
\* finds the level that requestView meant from the range and the number of
\* points alone.
Served == ~failed

\* requestView returns at least the range that was asked for, in at least as
\* many points as the server wants, or in as many as there are samples, and no
\* coarser level would have had as many.
ShowsRequest ==
  \A d \in Displays :
    LET v == mView[d]
        span == asked[d][2] - asked[d][1]
        c == compression(v)
    IN  /\ v.start <= asked[d][1] /\ v.end >= asked[d][2]
        /\ v.resolution * c = v.end - v.start
        /\ c = 1 \/ c * Resolution <= span
        /\ \A i \in Levels : levelCompression[i] > c => levelCompression[i] * Resolution > span

\* Positions of the k-th chunk of a view, as its place in the level.
Place(d, k) ==
  LET c == compression(mView[d])
      n == TotalChunks(CHOOSE i \in Levels : levelCompression[i] = c)
      p == mView[d].start \div (c * chunkSize) + k - 1
  IN  IF IsSpectrum(d) THEN (p + n \div 2) % n ELSE p

\* The finder is at the chunk that the hardware listed for its level and offset,
\* and the chunks in a frame are those of the positions in its header, one after
\* the other, across the carry of the finder and, for the spectrum, across the
\* end of the FFT.
CopiesView ==
  FindsChunk /\ \A k \in 1 .. Len(copied) :
    Listing[copied[k] + 1] = <<currLevel, Place(display, k)>>

\* The copy stays in the part of the frame that was set aside for it and fills
\* it: the chunks make up the resolution exactly.
FillsFrame ==
  Copying /\ copied # << >>
    => /\ Len(copied) * chunkSize <= mView[display].resolution
       /\ mView[display].resolution % chunkSize = 0
=============================================================================
