------------------------------ MODULE HwStream ------------------------------
(***************************************************************************)
(* The capture pipeline of websdr (hw.C, hw.H, buffer_pool.H) and the      *)
(* calls the websocket handlers of server.C make into it.                  *)
(*                                                                         *)
(* Every step is one whole handler: an interrupt callback of the hardware  *)
(* thread or one websocket command of the server thread.  HwThreads breaks *)
(* the same calls into the accesses that the two threads interleave.       *)
(*                                                                         *)
(* Buffers are numbers: 1..NBig are the buffers of the sz*2 pool, the next *)
(* NSmall those of the sz pool; 0 is nullptr.                              *)
(***************************************************************************)
EXTENDS Integers, SequencesExt

CONSTANTS
  NBig,          \* bufPool.addPool(sz*2, NBig)
  NSmall,        \* bufPool.addPool(sz, NSmall)
  RingSize,      \* chunks.resize(RingSize)
  TargetPending, \* AXIPipeRecv::nTargetPending
  Skip,          \* one captured chunk out of Skip is processed
  IntMax,        \* largest value of an int, the type of totalChunksCounter
  MaxProcs,      \* bound: chunkProcessors the hardware lets pile up
  Clients        \* websocket connections

ASSUME HwStreamAssumption ==
  /\ NBig \in Nat
  /\ NSmall \in Nat
  /\ RingSize \in Nat \ {0}
  /\ TargetPending \in Nat \ {0}
  /\ TargetPending < NSmall
  /\ Skip \in Nat \ {0}
  /\ IntMax \in Nat
  /\ MaxProcs \in Nat

Null  == 0
Big   == 1 .. NBig
Small == NBig + 1 .. NBig + NSmall
Buffers == Big \cup Small
Slots == 0 .. RingSize - 1
TestBuffer == NBig + 1    \* the buffer hw_init takes and never returns

Chunk == [original : Small \cup {Null}, mipmap : Big \cup {Null},
          spectrum : Big \cup {Null}, spectrumMipmap : Big \cup {Null},
          noFree : BOOLEAN]
NoChunk == [original |-> Null, mipmap |-> Null, spectrum |-> Null,
            spectrumMipmap |-> Null, noFree |-> FALSE]

\* hw_streamViewChunk::operator bool
HasData(ch) == ch.original # Null \/ ch.mipmap # Null

BigOf(ch) == {ch.mipmap, ch.spectrum, ch.spectrumMipmap} \ {Null}
BuffersOf(ch) == BigOf(ch) \cup ({ch.original} \ {Null})

FftJob == [of : Small, dst : Big, scratch : Big]
MipJob == [of : Small, kind : {"mipmap", "spectrumMipmap"}, dst : Big]

VARIABLES
  availBig,    \* availableBuffers of the sz*2 pool; the back is the last element
  availSmall,  \* availableBuffers of the sz pool
  pending,     \* buffers submitted to mainPipe and not yet filled, oldest first
  total,       \* totalChunksCounter
  proc,        \* the chunk member of the chunkProcessor of each original
  fftQ,        \* transforms submitted to fftPipe, oldest first
  mipQ,        \* reductions submitted to mipmapPipe, oldest first
  chunks,      \* hw_streamViews[0].chunks
  currChunk,   \* hw_streamViews[0].currChunk
  open,        \* the connections with a MyHandler in websocket mode
  reserved,    \* MyHandler::reservedChunk of each connection
  failed       \* an exception left the hardware thread: the process is gone

vars == <<availBig, availSmall, pending, total, proc, fftQ, mipQ, chunks,
          currChunk, open, reserved, failed>>

-----------------------------------------------------------------------------
(* BufferPool is a stack: put pushes at the back, get pops from the back:  *)
(* Append, and Last with Front.                                            *)

PutUnlessNull(s, b) == IF b = Null THEN s ELSE Append(s, b)

\* Faulty variant: the spectrum mipmap is forgotten
FreeBigLeak(s, ch) == PutUnlessNull(PutUnlessNull(s, ch.mipmap), ch.spectrum)

\* freeChunk: each pointer that is set goes back to the pool it came from.
FreeBig(s, ch) ==
  PutUnlessNull(PutUnlessNull(PutUnlessNull(s, ch.mipmap), ch.spectrum),
                ch.spectrumMipmap)
FreeSmall(s, ch) == PutUnlessNull(s, ch.original)

\* totalChunksCounter is an int and the build says -fwrapv.
IntMin == -IntMax - 1
Wrap(n) == IF n > IntMax THEN IntMin ELSE n
NextTotal == Wrap(total + 1)
IsProcessed == NextTotal % Skip = 0

Live(o) == proc[o].original # Null
LiveProcs == {o \in Small : Live(o)}

-----------------------------------------------------------------------------
(* The state after hw_init and the first pipeRecv.start().                 *)

Init ==
  /\ availBig = [i \in 1 .. NBig |-> NBig + 1 - i]
  /\ availSmall = [i \in 1 .. NSmall - 1 - TargetPending |-> NBig + NSmall + 1 - i]
  /\ pending = [i \in 1 .. TargetPending |-> TestBuffer + i]
  /\ total = 0
  /\ proc = [o \in Small |-> NoChunk]
  /\ fftQ = <<>>
  /\ mipQ = <<>>
  /\ chunks = [i \in Slots |-> NoChunk]
  /\ currChunk = 0
  /\ open = {}
  /\ reserved = [c \in Clients |-> NoChunk]
  /\ failed = FALSE

-----------------------------------------------------------------------------
(* Hardware thread: a capture buffer is full.  addChunk, then start() of   *)
(* AXIPipeRecv submits one buffer in place of the one that completed.      *)

\* Most chunks are dropped: the buffer goes to the pool and the next get
\* takes it from there again.
DropBuffer ==
  /\ ~failed
  /\ pending # <<>>
  /\ ~IsProcessed
  /\ LET s == Append(availSmall, Head(pending))
     IN  /\ availSmall' = Front(s)
         /\ pending' = Append(Tail(pending), Last(s))
  /\ total' = NextTotal
  /\ UNCHANGED <<availBig, proc, fftQ, mipQ, chunks, currChunk, open, reserved,
                 failed>>

\* The hardware finishes a chunk before MaxProcs others have piled up.
RoomForProc == Cardinality(LiveProcs) < MaxProcs

\* chunkProcessor::start: spectrum, scratch and mipmap buffers are taken, in
\* this order, and both jobs are submitted.
StartProcessing ==
  /\ ~failed
  /\ pending # <<>>
  /\ IsProcessed
  /\ RoomForProc
  /\ Len(availBig) >= 3
  /\ availSmall # <<>>
  /\ LET buf == Head(pending)
         n   == Len(availBig)
     IN  /\ proc' = [proc EXCEPT ![buf] =
                       [NoChunk EXCEPT !.original = buf, !.spectrum = availBig[n]]]
         /\ fftQ' = Append(fftQ, [of |-> buf, dst |-> availBig[n], scratch |-> availBig[n - 1]])
         /\ mipQ' = Append(mipQ, [of |-> buf, kind |-> "mipmap",
                                  dst |-> availBig[n - 2]])
         /\ availBig' = SubSeq(availBig, 1, n - 3)
         /\ availSmall' = Front(availSmall)
         /\ pending' = Append(Tail(pending), Last(availSmall))
  /\ total' = NextTotal
  /\ UNCHANGED <<chunks, currChunk, open, reserved, failed>>

\* BufferPool::get throws and nothing catches it.
ExhaustPool ==
  /\ ~failed
  /\ pending # <<>>
  /\ IsProcessed
  /\ RoomForProc
  /\ Len(availBig) < 3 \/ availSmall = <<>>
  /\ failed' = TRUE
  /\ UNCHANGED <<availBig, availSmall, pending, total, proc, fftQ, mipQ, chunks,
                 currChunk, open, reserved>>

RecvDone == DropBuffer \/ StartProcessing \/ ExhaustPool

-----------------------------------------------------------------------------
(* Hardware thread: a transform or a reduction is complete.                *)

\* The scratch buffer is put back, then computeFFTMipmap gets a destination.
FftDone ==
  /\ ~failed
  /\ fftQ # <<>>
  /\ LET s == Append(availBig, Head(fftQ).scratch)
     IN  /\ availBig' = Front(s)
         /\ mipQ' = Append(mipQ, [of |-> Head(fftQ).of, kind |-> "spectrumMipmap",
                                  dst |-> Last(s)])
  /\ fftQ' = Tail(fftQ)
  /\ UNCHANGED <<availSmall, pending, total, proc, chunks, currChunk, open,
                 reserved, failed>>

\* Faulty variant: the index is not advanced
NextSlotStuck == currChunk % RingSize

NextSlot == (currChunk + 1) % RingSize

\* Faulty variant: the test of the second result is dropped
BothResultsEarly(ch) == ch.mipmap # Null

BothResults(ch) == ch.mipmap # Null /\ ch.spectrumMipmap # Null

\* Faulty variant: a pinned chunk is freed like any other
MayFreeAlways(ch) == TRUE

MayFree(ch) == ~ch.noFree

\* checkDone with a result still missing.
KeepWaiting(o, ch) ==
  /\ ~BothResults(ch)
  /\ proc' = [proc EXCEPT ![o] = ch]
  /\ UNCHANGED <<availBig, availSmall, chunks, currChunk>>

\* checkDone with both results: the chunk replaces the oldest one of the ring,
\* whose buffers are freed unless a client has pinned it.
Publish(o, ch) ==
  /\ BothResults(ch)
  /\ IF MayFree(chunks[NextSlot])
     THEN /\ availBig' = FreeBig(availBig, chunks[NextSlot])
          /\ availSmall' = FreeSmall(availSmall, chunks[NextSlot])
     ELSE UNCHANGED <<availBig, availSmall>>
  /\ chunks' = [chunks EXCEPT ![NextSlot] = ch]
  /\ currChunk' = NextSlot
  /\ proc' = [proc EXCEPT ![o] = NoChunk]

CheckDone(o, ch) == KeepWaiting(o, ch) \/ Publish(o, ch)

MipmapDone ==
  /\ ~failed
  /\ mipQ # <<>>
  /\ Head(mipQ).kind = "mipmap"
  /\ CheckDone(Head(mipQ).of, [proc[Head(mipQ).of] EXCEPT !.mipmap = Head(mipQ).dst])
  /\ mipQ' = Tail(mipQ)
  /\ UNCHANGED <<pending, total, fftQ, open, reserved, failed>>

SpectrumMipmapDone ==
  /\ ~failed
  /\ mipQ # <<>>
  /\ Head(mipQ).kind = "spectrumMipmap"
  /\ CheckDone(Head(mipQ).of,
               [proc[Head(mipQ).of] EXCEPT !.spectrumMipmap = Head(mipQ).dst])
  /\ mipQ' = Tail(mipQ)
  /\ UNCHANGED <<pending, total, fftQ, open, reserved, failed>>

MipDone == MipmapDone \/ SpectrumMipmapDone

-----------------------------------------------------------------------------
(* Server thread: connections and the commands "start" and "stop".         *)

Open(c) ==
  /\ ~failed
  /\ c \notin open
  /\ open' = open \cup {c}
  /\ UNCHANGED <<availBig, availSmall, pending, total, proc, fftQ, mipQ, chunks,
                 currChunk, reserved, failed>>

\* if(reservedChunk) hw_freeChunk(reservedChunk)
Unreserve(c) ==
  IF HasData(reserved[c])
  THEN /\ availBig' = FreeBig(availBig, reserved[c])
       /\ availSmall' = FreeSmall(availSmall, reserved[c])
  ELSE UNCHANGED <<availBig, availSmall>>

HandleStart(c) ==
  /\ ~failed
  /\ c \in open
  /\ Unreserve(c)
  /\ reserved' = [reserved EXCEPT ![c] = NoChunk]
  /\ UNCHANGED <<pending, total, proc, fftQ, mipQ, chunks, currChunk, open, failed>>

\* hw_reserveChunk marks the latest chunk and returns a copy of it, or an empty
\* chunk when it is marked already; the handler keeps a copy that has data.
HandleStop(c) ==
  /\ ~failed
  /\ c \in open
  /\ Unreserve(c)
  /\ LET pinned == [chunks[currChunk] EXCEPT !.noFree = TRUE]
     IN  IF chunks[currChunk].noFree
         THEN /\ reserved' = [reserved EXCEPT ![c] = NoChunk]
              /\ UNCHANGED chunks
         ELSE /\ chunks' = [chunks EXCEPT ![currChunk] = pinned]
              /\ reserved' = [reserved EXCEPT ![c] =
                                IF HasData(pinned) THEN pinned ELSE NoChunk]
  /\ UNCHANGED <<pending, total, proc, fftQ, mipQ, currChunk, open, failed>>

\* Faulty variant: the destructor does not free the chunk
CloseLeaks(c) ==
  /\ ~failed
  /\ c \in open
  /\ open' = open \ {c}
  /\ UNCHANGED <<availBig, availSmall, pending, total, proc, fftQ, mipQ, chunks,
                 currChunk, reserved, failed>>

\* wsEnd, abort and the destructor of MyHandler.
Close(c) ==
  /\ ~failed
  /\ c \in open
  /\ Unreserve(c)
  /\ reserved' = [reserved EXCEPT ![c] = NoChunk]
  /\ open' = open \ {c}
  /\ UNCHANGED <<pending, total, proc, fftQ, mipQ, chunks, currChunk, failed>>

-----------------------------------------------------------------------------
Next ==
  \/ DropBuffer \/ StartProcessing \/ ExhaustPool
  \/ FftDone \/ MipmapDone \/ SpectrumMipmapDone
  \/ \E c \in Clients : Open(c) \/ HandleStart(c) \/ HandleStop(c) \/ Close(c)

Spec == Init /\ [][Next]_vars

\* The three pipes keep completing what they were given and the hardware
\* thread's epoll loop dispatches every interrupt.  Clients promise nothing.
Fairness == WF_vars(RecvDone) /\ WF_vars(FftDone) /\ WF_vars(MipDone)
FairSpec == Spec /\ Fairness

-----------------------------------------------------------------------------
(* Properties.                                                             *)

TypeOK ==
  /\ availBig \in Seq(Big)
  /\ availSmall \in Seq(Small)
  /\ pending \in Seq(Small)
  /\ total \in IntMin .. IntMax
  /\ proc \in [Small -> Chunk]
  /\ fftQ \in Seq(FftJob)
  /\ mipQ \in Seq(MipJob)
  /\ chunks \in [Slots -> Chunk]
  /\ currChunk \in Slots
  /\ open \subseteq Clients
  /\ reserved \in [Clients -> Chunk]
  /\ failed \in BOOLEAN

\* Whoever may hold a buffer.  A ring slot that a client has pinned no longer
\* holds its buffers, the client does.
Holders ==
  {<<"pool", 0>>, <<"recv", 0>>, <<"test", 0>>, <<"fft", 0>>, <<"mip", 0>>}
    \cup {<<"proc", o>> : o \in Small}
    \cup {<<"slot", i>> : i \in Slots}
    \cup {<<"client", c>> : c \in Clients}

HeldBy(h) ==
  CASE h[1] = "pool" -> ToSet(availBig) \cup ToSet(availSmall)
    [] h[1] = "recv" -> ToSet(pending)
    [] h[1] = "test" -> {TestBuffer}
    [] h[1] = "fft"  -> {fftQ[i].scratch : i \in DOMAIN fftQ}
    [] h[1] = "mip"  -> {mipQ[i].dst : i \in DOMAIN mipQ}
    [] h[1] = "proc" -> BuffersOf(proc[h[2]])
    [] h[1] = "slot" -> IF chunks[h[2]].noFree THEN {} ELSE BuffersOf(chunks[h[2]])
    [] h[1] = "client" -> BuffersOf(reserved[h[2]])

PartitionedBy(held) ==
  \A b \in Buffers : \E h \in Holders :
    \A k \in Holders : b \in held[k] <=> k = h

Held == [h \in Holders |-> HeldBy(h)]

\* Every buffer has exactly one holder at any time: freeChunk, the pools, the
\* closures of the pipes and the pins never lose a buffer and never let two
\* of them have the same one.
SingleOwner == PartitionedBy(Held)

\* No buffer is in a pool, or submitted to a pipe, twice: what a put of a
\* buffer that is free already would do.
NoDuplicates ==
  /\ IsInjective(availBig)
  /\ IsInjective(availSmall)
  /\ IsInjective(pending)
  /\ \A i, j \in DOMAIN fftQ : fftQ[i].scratch = fftQ[j].scratch => i = j
  /\ \A i, j \in DOMAIN mipQ : mipQ[i].dst = mipQ[j].dst => i = j

\* What the pipes may be writing to.
DmaTargets ==
  ToSet(pending)
    \cup {fftQ[i].scratch : i \in DOMAIN fftQ}
    \cup {fftQ[i].dst : i \in DOMAIN fftQ}
    \cup {mipQ[i].dst : i \in DOMAIN mipQ}

\* The hardware never writes to a buffer that is free, that a client has
\* pinned or that is in the ring and not given back: a chunk is published only
\* after its last job.
DmaIsolated ==
  \A h \in Holders :
    h[1] \in {"pool", "slot", "client"} => HeldBy(h) \cap DmaTargets = {}

Complete(ch) ==
  Null \notin {ch.original, ch.mipmap, ch.spectrum, ch.spectrumMipmap}

\* A client is shown either no chunk at all or one with all four buffers; the
\* handlers of server.C test only two of the pointers.
PublishedComplete ==
  /\ \A i \in Slots : Complete(chunks[i]) \/ BuffersOf(chunks[i]) = {}
  /\ \A c \in Clients : Complete(reserved[c]) \/ BuffersOf(reserved[c]) = {}

\* What ties the queued jobs to the processors that wait for them: the job of a
\* processor that is alive, whose result is still missing, and only one of it.
JobsMatch ==
  /\ \A i \in DOMAIN mipQ :
       /\ proc[mipQ[i].of].original = mipQ[i].of
       /\ mipQ[i].kind = "mipmap" => proc[mipQ[i].of].mipmap = Null
       /\ mipQ[i].kind = "spectrumMipmap" => proc[mipQ[i].of].spectrumMipmap = Null
  /\ \A i, k \in DOMAIN mipQ :
       mipQ[i].of = mipQ[k].of /\ mipQ[i].kind = mipQ[k].kind => i = k
  /\ \A i \in DOMAIN fftQ :
       /\ proc[fftQ[i].of].original = fftQ[i].of
       /\ proc[fftQ[i].of].spectrum = fftQ[i].dst
       /\ proc[fftQ[i].of].spectrumMipmap = Null
  /\ \A i, k \in DOMAIN fftQ : fftQ[i].of = fftQ[k].of => i = k
  /\ \A i \in DOMAIN fftQ, k \in DOMAIN mipQ :
       mipQ[k].kind = "spectrumMipmap" => mipQ[k].of # fftQ[i].of

DistinctFields(ch) ==
  /\ ch.mipmap # Null => ch.mipmap \notin {ch.spectrum, ch.spectrumMipmap}
  /\ ch.spectrum # Null => ch.spectrum # ch.spectrumMipmap

\* A processor has its own original and a spectrum buffer from the start; no
\* chunk has the same buffer twice.
ChunksSane ==
  /\ \A o \in Small : \/ proc[o] = NoChunk
                       \/ /\ proc[o].original = o
                          /\ proc[o].spectrum # Null
                          /\ ~proc[o].noFree
                          /\ DistinctFields(proc[o])
  /\ \A i \in Slots : DistinctFields(chunks[i])
  /\ \A c \in Clients : DistinctFields(reserved[c])

\* The inductive invariant of HwStreamProofs.
IInv == /\ TypeOK
        /\ SingleOwner
        /\ NoDuplicates
        /\ JobsMatch
        /\ ChunksSane
        /\ PublishedComplete

\* A connection that is gone has left no chunk pinned in memory.
ClosedHoldsNothing ==
  \A c \in Clients \ open : BuffersOf(reserved[c]) = {}

\* BufferPool::get throws in the hardware thread only if the clients have pinned
\* more than the pools hold beside what the pipeline itself can have in flight:
\* three big buffers and a small one for every chunk in the ring or in a
\* processor, the receive queue and the test buffer.  Nothing is lost to a pin
\* that was given back, in whatever order.
OnlyPinsExhaust ==
  LET spareBig == NBig - 3 * (RingSize + MaxProcs)
      spareSmall == NSmall - (1 + TargetPending + RingSize + MaxProcs)
      pins == Cardinality({c \in Clients : HasData(reserved[c])})
  IN failed /\ spareBig >= 0 /\ spareSmall >= 0 =>
       3 * pins > spareBig \/ pins > spareSmall

\* The processors whose last job is still to come, in the order it will come.
SpectrumJobs ==
  LET s == SelectSeq(mipQ, LAMBDA j : j.kind = "spectrumMipmap")
  IN  [i \in 1 .. Len(s) |-> s[i].of] \o [i \in 1 .. Len(fftQ) |-> fftQ[i].of]

\* Chunks reach the ring in the order they were captured: a step publishes only
\* the processor that was started first of those alive, and a new processor
\* is the last in line.
PublishInOrder ==
  [][ /\ \A o \in Small : Live(o) /\ ~Live(o)' => /\ o = Head(SpectrumJobs)
                                                  /\ SpectrumJobs' = Tail(SpectrumJobs)
      /\ \A o \in Small : ~Live(o) /\ Live(o)' => SpectrumJobs' = Append(SpectrumJobs, o)
      /\ LiveProcs = LiveProcs' => SpectrumJobs' = SpectrumJobs ]_vars

\* The pipeline implements the ownership rules: no hand-over but the permitted
\* ones, no buffer of a client touched by the hardware thread or by another
\* client, no part of a chunk left behind.
OwnerIn(held) == [b \in Buffers |-> CHOOSE h \in Holders : b \in held[h]]
Owner == OwnerIn(Held)
Abstract == INSTANCE Ownership WITH owner <- Owner
ImplementsOwnership == Abstract!Spec

\* The display keeps moving: new chunks are published for ever, across the wrap
\* of totalChunksCounter and whatever the clients pin.
DisplayRefreshes == []<><<currChunk' # currChunk>>_vars

\* hw.H, snapshot: only the oldest chunk "may become invalid right away".  The
\* buffers of the latest one are not in a pool.
LatestResident ==
  BuffersOf(chunks[currChunk]) \cap HeldBy(<<"pool", 0>>) = {}
=============================================================================
