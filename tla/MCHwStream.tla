----------------------------- MODULE MCHwStream -----------------------------
(* Instances of HwStream for TLC. *)
EXTENDS HwStream

\* The specification treats the buffers of a pool alike: it compares them and
\* moves them, nothing else.  The view forgets which buffer is which and keeps
\* the pattern of who holds the same buffer as whom: every place that can hold
\* a buffer is listed, and each buffer replaced by the first place it is in.
ChunkCells(ch) == <<ch.original, ch.mipmap, ch.spectrum, ch.spectrumMipmap>>

JobOwners == [i \in DOMAIN fftQ |-> fftQ[i].of] \o [i \in DOMAIN mipQ |-> mipQ[i].of]

BufferCells ==
  availBig \o availSmall \o pending \o JobOwners
    \o [i \in DOMAIN fftQ |-> fftQ[i].dst]
    \o [i \in DOMAIN fftQ |-> fftQ[i].scratch]
    \o [i \in DOMAIN mipQ |-> mipQ[i].dst]
    \o FlattenSeq([i \in DOMAIN JobOwners |-> ChunkCells(proc[JobOwners[i]])])
    \o FlattenSeq([i \in 1 .. RingSize |-> ChunkCells(chunks[i - 1])])
    \o FlattenSeq([i \in 1 .. Cardinality(Clients) |->
                     ChunkCells(reserved[SetToSeq(Clients)[i]])])

BufferPattern ==
  LET cells == BufferCells
      n     == Len(cells)
      first == [b \in ToSet(cells) |-> CHOOSE i \in 1 .. n :
                  /\ cells[i] = b
                  /\ \A j \in 1 .. i - 1 : cells[j] # b]
  IN  [i \in 1 .. n |-> IF cells[i] = Null THEN 0 ELSE first[cells[i]]]

StreamView ==
  << BufferPattern, Len(availBig), Len(availSmall), Len(pending), Len(fftQ),
     [i \in DOMAIN mipQ |-> mipQ[i].kind], Cardinality(LiveProcs),
     [i \in Slots |-> chunks[i].noFree], [c \in Clients |-> reserved[c].noFree],
     total, currChunk, open, failed >>
=============================================================================
