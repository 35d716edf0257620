----------------------------- MODULE MCHwThreads -----------------------------
(* Instances of HwThreads for TLC. *)
EXTENDS HwThreads

\* Buffers are only compared and moved, so the view keeps which places hold the
\* same buffer and forgets which one it is; storage above the size is dead.
ChunkCells(ch) == <<ch.original, ch.mipmap>>
ClientSeq == SetToSeq(Clients)

BufferCells ==
  SubSeq(store, 1, size)
    \o [i \in 1 .. 2 |-> LET k == call[<<"hw", "server">>[i]]
                         IN  IF k = NoCall THEN Null ELSE k.buf]
    \o ChunkCells(chunk["hw"]) \o ChunkCells(chunk["server"])
    \o FlattenSeq([i \in 1 .. RingSize |-> ChunkCells(chunks[i - 1])])
    \o FlattenSeq([i \in 1 .. Len(ClientSeq) |-> ChunkCells(reserved[ClientSeq[i]])])

BufferPattern ==
  LET cells == BufferCells
      n     == Len(cells)
      first == [b \in ToSet(cells) |-> CHOOSE i \in 1 .. n :
                  /\ cells[i] = b
                  /\ \A j \in 1 .. i - 1 : cells[j] # b]
  IN  [i \in 1 .. n |-> IF cells[i] = Null THEN 0 ELSE first[cells[i]]]

ThreadsView ==
  << BufferPattern, size, [t \in Threads |-> IF call[t] = NoCall THEN NoCall
                             ELSE [op |-> call[t].op, at |-> call[t].at]],
     [i \in Slots |-> chunks[i].noFree], [c \in Clients |-> reserved[c].noFree],
     [t \in Threads |-> chunk[t].noFree], currChunk, pc, index,
     IF pc["server"] = "idle" THEN <<>> ELSE client, races >>

\* "pool" and "pin" stay in races, and nothing is said of what follows them.
BeforeRaces == Orderly
=============================================================================
