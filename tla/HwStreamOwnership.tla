-------------------------- MODULE HwStreamOwnership --------------------------
(***************************************************************************)
(* What follows from every buffer having one holder.                       *)
(*                                                                         *)
(* HwStream implements Ownership: every step of the pipeline hands buffers *)
(* over along the permitted edges only, and leaves no part of a chunk      *)
(* behind.  The refinement mapping is Owner, the one holder that IInv says *)
(* every buffer has.                                                       *)
(*                                                                         *)
(* And the buffers can be counted: a pool is empty only when the clients   *)
(* have pinned more than the pipeline leaves.                              *)
(***************************************************************************)
EXTENDS HwStreamProofs, FiniteSetTheorems

-----------------------------------------------------------------------------
(* The mapping.                                                            *)

\* The owner of a buffer is who holds it, before and after a step.
LEMMA OwnerIsHolder ==
  ASSUME NEW held, PartitionedBy(held)
  PROVE  /\ OwnerIn(held) \in [Buffers -> Holders]
         /\ \A b \in Buffers : b \in held[OwnerIn(held)[b]]
         /\ \A b \in Buffers, h \in Holders : b \in held[h] <=> OwnerIn(held)[b] = h
<1>1. \A b \in Buffers : \E h \in Holders : b \in held[h]
  BY DEF PartitionedBy
<1>2. ASSUME NEW b \in Buffers
      PROVE  OwnerIn(held)[b] \in Holders /\ b \in held[OwnerIn(held)[b]]
  <2>1. OwnerIn(held)[b] = CHOOSE h \in Holders : b \in held[h]
    BY DEF OwnerIn
  <2>2. \E h \in Holders : b \in held[h]
    BY <1>1
  <2> QED BY <2>1, <2>2
<1>3. OwnerIn(held) \in [Buffers -> Holders]
  BY <1>2 DEF OwnerIn
<1>4. \A b \in Buffers, h \in Holders : b \in held[h] <=> OwnerIn(held)[b] = h
  BY <1>2 DEF PartitionedBy
<1> QED BY <1>2, <1>3, <1>4

\* The two modules mean the same buffers and holders.
LEMMA SameNames ==
  /\ Abstract!Buffers = Buffers
  /\ \A S : Abstract!Cardinality(S) = Cardinality(S)
  /\ Abstract!Holders = Holders
  /\ Abstract!Pool = PoolH /\ Abstract!Recv = RecvH /\ Abstract!Test = TestH
  /\ Abstract!Fft = FftH /\ Abstract!Mip = MipH
  /\ \A o \in Small : ProcH(o) \in Abstract!Procs
  /\ \A i \in Slots : SlotH(i) \in Abstract!RingSlots
  /\ Abstract!RingSlots = {SlotH(i) : i \in Slots}
  /\ Abstract!ClientHolds = {ClientH(c) : c \in Clients}
BY DEF Abstract!Buffers, Buffers, Abstract!Cardinality, Cardinality, Abstract!Holders, Holders, Abstract!Pool,
   Abstract!Recv, Abstract!Test, Abstract!Fft, Abstract!Mip, Abstract!Procs,
   Abstract!RingSlots, Abstract!ClientHolds, PoolH, RecvH, TestH, FftH, MipH,
   ProcH, SlotH, ClientH

\* The edges a step may use.
LEMMA EdgeFacts ==
  /\ {<<PoolH, RecvH>>, <<RecvH, PoolH>>, <<PoolH, FftH>>, <<PoolH, MipH>>,
      <<FftH, PoolH>>, <<FftH, MipH>>} \subseteq Abstract!HardwareEdges
  /\ \A o \in Small : {<<PoolH, ProcH(o)>>, <<RecvH, ProcH(o)>>, <<MipH, ProcH(o)>>}
                        \subseteq Abstract!HardwareEdges
  /\ \A i \in Slots : {<<MipH, SlotH(i)>>, <<SlotH(i), PoolH>>}
                        \subseteq Abstract!HardwareEdges
  /\ \A o \in Small, i \in Slots : <<ProcH(o), SlotH(i)>> \in Abstract!HardwareEdges
  /\ \A c \in Clients : <<ClientH(c), PoolH>> \in Abstract!ClientEdges(c)
  /\ \A c \in Clients, i \in Slots : <<SlotH(i), ClientH(c)>> \in Abstract!ClientEdges(c)
BY SameNames DEF Abstract!HardwareEdges, Abstract!ClientEdges, ClientH

\* A buffer that passes from h to k.
Passes(b, h, k) == h # k /\ b \in Held[h] /\ b \in Held'[k]

\* It was not with the receiver before and is not with the giver afterwards.
LEMMA PassFacts ==
  ASSUME SingleOwner, SingleOwner', NEW b \in Buffers, NEW h \in Holders,
         NEW k \in Holders, Passes(b, h, k)
  PROVE  b \notin Held[k] /\ b \notin Held'[h]
<1>1. PartitionedBy(Held) /\ PartitionedBy(Held')
  BY DEF SingleOwner
<1> QED BY <1>1 DEF Passes, PartitionedBy

-----------------------------------------------------------------------------
(* What can be shown is a whole chunk.                                     *)

\* Four different buffers, three big and one small.
LEMMA WholeChunk ==
  ASSUME NEW ch \in Chunk, Complete(ch), DistinctFields(ch)
  PROVE  /\ Cardinality(BuffersOf(ch) \cap Big) = 3
         /\ Cardinality(BuffersOf(ch) \cap Small) = 1
<1> DEFINE m == ch.mipmap
           s == ch.spectrum
           t == ch.spectrumMipmap
<1>1. /\ m \in Big /\ s \in Big /\ t \in Big /\ ch.original \in Small
      /\ m # s /\ m # t /\ s # t
  BY DEF Chunk, Complete, DistinctFields
<1>2. BuffersOf(ch) = {m, s, t} \cup {ch.original}
  BY DEF BuffersOf, BigOf, Complete
<1> HIDE DEF m, s, t
<1>3. BuffersOf(ch) \cap Big = {m, s, t} /\ BuffersOf(ch) \cap Small = {ch.original}
  BY <1>1, <1>2, BufferFacts
<1>4. Cardinality({m, s, t}) = 3
  <2>1. IsFiniteSet({}) /\ Cardinality({}) = 0
    BY FS_EmptySet
  <2>2. IsFiniteSet({m}) /\ Cardinality({m}) = 1
    BY FS_Singleton
  <2>3. IsFiniteSet({m} \cup {s}) /\ Cardinality({m} \cup {s}) = 1 + 1
    <3>1. s \notin {m}
      BY <1>1
    <3> QED BY <2>2, <3>1, FS_AddElement
  <2>4. Cardinality(({m} \cup {s}) \cup {t}) = 3
    <3>1. t \notin {m} \cup {s}
      BY <1>1
    <3>2. Cardinality(({m} \cup {s}) \cup {t}) = Cardinality({m} \cup {s}) + 1
      BY <2>3, <3>1, FS_AddElement
    <3> QED BY <2>3, <3>2
  <2>5. {m, s, t} = ({m} \cup {s}) \cup {t}
    OBVIOUS
  <2> QED BY <2>4, <2>5
<1>5. Cardinality({ch.original}) = 1
  BY FS_Singleton
<1> QED BY <1>3, <1>4, <1>5

\* A ring slot and a client hold a whole chunk or nothing.
LEMMA ShownWhole ==
  ASSUME IInv
  PROVE  \A h \in Abstract!RingSlots \cup Abstract!ClientHolds :
           Abstract!HeldWhole(Owner, h)
<1>1. TypeOK /\ SingleOwner /\ ChunksSane /\ PublishedComplete
  BY DEF IInv
<1>2. ASSUME NEW h \in Holders,
             NEW ch \in Chunk, Held[h] = {} \/ Held[h] = BuffersOf(ch),
             Complete(ch) \/ BuffersOf(ch) = {}, DistinctFields(ch)
      PROVE  Abstract!HeldWhole(Owner, h)
  <2> DEFINE held == {b \in Buffers : Owner[b] = h}
  <2>1. held = Held[h] \cap Buffers
    BY <1>1, OwnerIsHolder DEF SingleOwner, Owner
  <2>2. BuffersOf(ch) \subseteq Buffers
    BY <1>1, HeldAreBuffers
  <2>3. held = {} \/ (held = BuffersOf(ch) /\ Complete(ch))
    BY <1>2, <2>1, <2>2
  <2> HIDE DEF held
  <2>4. held = {} \/ (Cardinality(held \cap Big) = 3 /\ Cardinality(held \cap Small) = 1)
    BY <1>2, <2>3, WholeChunk
  <2>5. held = {b \in Abstract!Buffers : Owner[b] = h}
    BY SameNames DEF held
  <2> HIDE DEF held
  <2> QED BY <2>4, <2>5, SameNames DEF Abstract!HeldWhole
<1>3. ASSUME NEW i \in Slots PROVE Abstract!HeldWhole(Owner, SlotH(i))
  <2>1. chunks[i] \in Chunk /\ SlotH(i) \in Holders
    BY <1>1, HolderCases DEF TypeOK
  <2>2. Held[SlotH(i)] = {} \/ Held[SlotH(i)] = BuffersOf(chunks[i])
    BY HeldValues DEF SlotBuffers
  <2> QED BY <1>1, <1>2, <2>1, <2>2 DEF ChunksSane, PublishedComplete
<1>4. ASSUME NEW c \in Clients PROVE Abstract!HeldWhole(Owner, ClientH(c))
  <2>1. reserved[c] \in Chunk /\ ClientH(c) \in Holders
    BY <1>1, HolderCases DEF TypeOK
  <2>2. Held[ClientH(c)] = BuffersOf(reserved[c])
    BY HeldValues
  <2> QED BY <1>1, <1>2, <2>1, <2>2 DEF ChunksSane, PublishedComplete
<1> QED BY <1>3, <1>4, SameNames

-----------------------------------------------------------------------------
(* The edges every action takes.                                           *)

\* A step whose passes all take the edges in E is a step of Ownership.
LEMMA StepAlong ==
  ASSUME IInv, IInv', NEW E,
         \A b \in Buffers, h, k \in Holders : Passes(b, h, k) => <<h, k>> \in E
  PROVE  Abstract!Step(E)
<1>1. PartitionedBy(Held) /\ PartitionedBy(Held')
  BY DEF IInv, SingleOwner
<1>2. Owner' \in [Buffers -> Holders]
  BY <1>1, OwnerIsHolder DEF Owner
<1>3. ASSUME NEW b \in Buffers, Owner'[b] # Owner[b]
      PROVE  <<Owner[b], Owner'[b]>> \in E
  <2>1. Owner[b] \in Holders /\ b \in Held[Owner[b]]
    BY <1>1, OwnerIsHolder DEF Owner
  <2>2. Owner'[b] \in Holders /\ b \in Held'[Owner'[b]]
    BY <1>1, OwnerIsHolder DEF Owner
  <2> QED BY <1>3, <2>1, <2>2 DEF Passes
<1>4. \A h \in Abstract!RingSlots \cup Abstract!ClientHolds :
        Abstract!HeldWhole(Owner', h)
  <2>1. (\A h \in Abstract!RingSlots \cup Abstract!ClientHolds :
           Abstract!HeldWhole(Owner, h))'
    BY ShownWhole, PTL
  <2> QED BY <2>1 DEF Abstract!RingSlots, Abstract!ClientHolds, Abstract!HeldWhole
<1> QED BY <1>2, <1>3, <1>4, SameNames DEF Abstract!Step

\* Nobody's buffers change: no buffer has a new owner.
LEMMA SameOwners ==
  ASSUME IInv, IInv', \A h \in Holders : Held'[h] = Held[h]
  PROVE  UNCHANGED Owner
<1>1. PartitionedBy(Held) /\ PartitionedBy(Held')
  BY DEF IInv, SingleOwner
<1>2. /\ Owner \in [Buffers -> Holders] /\ Owner' \in [Buffers -> Holders]
      /\ \A b \in Buffers : b \in Held[Owner[b]] /\ b \in Held'[Owner'[b]]
  BY <1>1, OwnerIsHolder DEF Owner
<1>3. \A b \in Buffers : Owner'[b] = Owner[b]
  BY <1>1, <1>2 DEF PartitionedBy
<1> QED BY <1>2, <1>3

\* A dropped buffer goes through the pool and back.
LEMMA DropPasses ==
  ASSUME IInv, IInv', DropBuffer
  PROVE  UNCHANGED Owner
<1>1. TypeOK /\ NoDuplicates
  BY DEF IInv
<1>2. Head(pending) \in Small /\ pending \in Seq(Small) /\ pending # <<>>
      /\ IsInjective(pending)
  BY <1>1, TailFacts DEF TypeOK, DropBuffer, NoDuplicates
<1>3. availSmall' = availSmall /\ pending' = Append(Tail(pending), Head(pending))
  BY <1>1, <1>2, PushPop DEF TypeOK, DropBuffer
<1>4. ToSet(pending') = ToSet(pending)
  <2>1. /\ ToSet(Append(Tail(pending), Head(pending)))
             = (ToSet(pending) \ {Head(pending)}) \cup {Head(pending)}
        /\ Head(pending) \in ToSet(pending)
    BY <1>2, RequeueFacts, TailFacts
  <2> QED BY <1>3, <2>1
<1>5. /\ Scratches' = Scratches
      /\ Destinations' = Destinations
      /\ \A i \in Slots : SlotBuffers(i)' = SlotBuffers(i)
      /\ availBig' = availBig /\ proc' = proc /\ reserved' = reserved
  BY DEF DropBuffer, Scratches, Destinations, SlotBuffers
<1>6. ASSUME NEW h \in Holders PROVE Held'[h] = Held[h]
  BY <1>3, <1>4, <1>5, SameHolder
<1> QED BY <1>6, SameOwners

\* The two pipes work on big buffers.
LEMMA QueuesBig == TypeOK => Scratches \subseteq Big /\ Destinations \subseteq Big
BY HeldAreBuffers

\* A processor that starts takes the captured buffer and one from the pool; the
\* two pipes and the receiver take theirs from the pool.
LEMMA StartPasses ==
  ASSUME IInv, IInv', StartProcessing, NEW b \in Buffers, NEW h \in Holders,
         NEW k \in Holders, Passes(b, h, k)
  PROVE  <<h, k>> \in Abstract!HardwareEdges
<1> DEFINE buf == Head(pending)
<1>0. TypeOK /\ NoDuplicates /\ SingleOwner /\ SingleOwner' /\ ChunksSane
  BY DEF IInv
<1>1. b \notin Held[k] /\ b \notin Held'[h] /\ h # k /\ b \in Held[h] /\ b \in Held'[k]
  BY <1>0, PassFacts DEF Passes
<1>2. /\ ToSet(availBig') \subseteq ToSet(availBig)
      /\ ToSet(availSmall') \subseteq ToSet(availSmall)
  <2>1. availSmall \in Seq(Small) /\ availSmall # <<>> /\ availSmall' = Front(availSmall)
    BY <1>0 DEF TypeOK, StartProcessing
  <2> QED BY <1>0, <2>1, TakeThree, PopFacts DEF NoDuplicates
<1>3. Scratches \subseteq Scratches' /\ Destinations \subseteq Destinations'
  <2> DEFINE n == Len(availBig)
             fjob == [of |-> buf, dst |-> availBig[n], scratch |-> availBig[n - 1]]
             mjob == [of |-> buf, kind |-> "mipmap", dst |-> availBig[n - 2]]
  <2>1. /\ n \in Nat /\ n >= 3 /\ \A i \in 1 .. n : availBig[i] \in Big
        /\ buf \in Small
    BY <1>0, StartFacts
  <2>2. fjob \in FftJob /\ mjob \in MipJob
    BY <2>1 DEF FftJob, MipJob
  <2>3. fftQ' = Append(fftQ, fjob) /\ mipQ' = Append(mipQ, mjob)
    BY DEF StartProcessing
  <2> HIDE DEF fjob, mjob
  <2> QED BY <1>0, <2>2, <2>3, FftPush, MipPush DEF TypeOK
<1>4. buf \in Small /\ buf \in ToSet(pending) /\ proc \in [Small -> Chunk]
  BY <1>0, TailFacts DEF TypeOK, StartProcessing
<1>5. Held[ProcH(buf)] = {}
  <2>1. buf \notin BuffersOf(proc[buf])
    <3>1. buf \in Held[RecvH] /\ buf \in Buffers
      BY <1>4, HeldValues, BufferFacts
    <3> QED BY <1>0, <1>4, <3>1, OneHolder, HeldValues, HolderCases, HolderKinds
  <2>2. proc[buf].original = buf => buf \in BuffersOf(proc[buf])
    BY <1>4, BufferFacts DEF BuffersOf
  <2>3. proc[buf] = NoChunk
    BY <1>0, <1>4, <2>1, <2>2 DEF ChunksSane
  <2> QED BY <1>4, <2>3, HeldValues, NoChunkFacts
<1>6. /\ \A o \in Small : o # buf => proc'[o] = proc[o]
      /\ \A i \in Slots : SlotBuffers(i)' = SlotBuffers(i)
      /\ reserved' = reserved
  BY <1>4 DEF StartProcessing, SlotBuffers
<1> HIDE DEF buf
<1>7. k \in {RecvH, FftH, MipH, ProcH(buf)}
  BY <1>1, <1>2, <1>6, HeldValues, HeldValuesNext, HolderCases
<1>8. h \in {PoolH, RecvH}
  BY <1>1, <1>3, <1>5, <1>6, HeldValues, HeldValuesNext, HolderCases
<1>9. h = RecvH => k \notin {FftH, MipH}
  <2>1. Scratches' \subseteq Big /\ Destinations' \subseteq Big
    <3>1. TypeOK'
      BY DEF IInv
    <3>2. (Scratches \subseteq Big /\ Destinations \subseteq Big)'
      BY <3>1, QueuesBig, PTL
    <3> QED BY <3>2 DEF Big
  <2>2. ToSet(pending) \subseteq Small
    BY <1>0, HeldAreBuffers
  <2> QED BY <1>1, <2>1, <2>2, BufferFacts, HeldValues, HeldValuesNext
<1> QED BY <1>1, <1>4, <1>7, <1>8, <1>9, EdgeFacts

\* The scratch buffer of a transform becomes the destination of a reduction.
LEMMA FftPasses ==
  ASSUME IInv, IInv', FftDone, NEW b \in Buffers, NEW h \in Holders,
         NEW k \in Holders, Passes(b, h, k)
  PROVE  <<h, k>> \in Abstract!HardwareEdges
<1>0. TypeOK /\ SingleOwner /\ SingleOwner'
  BY DEF IInv
<1>1. b \notin Held[k] /\ b \notin Held'[h] /\ h # k /\ b \in Held[h] /\ b \in Held'[k]
  BY <1>0, PassFacts DEF Passes
<1>2. /\ availBig' = availBig
      /\ UNCHANGED <<availSmall, pending, proc, chunks, reserved>>
  BY <1>0, FftFacts DEF FftDone
<1>3. \A i \in Slots : SlotBuffers(i)' = SlotBuffers(i)
  BY <1>2 DEF SlotBuffers
<1>4. h \in {FftH, MipH} /\ k \in {FftH, MipH}
  BY <1>1, <1>2, <1>3, HeldValues, HeldValuesNext, HolderCases
<1>5. Destinations \subseteq Destinations'
  <2> DEFINE job == [of |-> Head(fftQ).of, kind |-> "spectrumMipmap",
                     dst |-> Head(fftQ).scratch]
  <2>1. job \in MipJob /\ mipQ' = Append(mipQ, job) /\ mipQ \in Seq(MipJob)
    BY <1>0, FftFacts DEF TypeOK
  <2> HIDE DEF job
  <2> QED BY <2>1, MipPush
<1>6. h # MipH
  BY <1>1, <1>5, HeldValues, HeldValuesNext
<1> QED BY <1>1, <1>4, <1>6, EdgeFacts

\* The result of a reduction goes to the processor.
LEMMA KeepPasses ==
  ASSUME IInv, IInv', mipQ # <<>>, mipQ' = Tail(mipQ), NEW ch, ResultOf(ch),
         KeepWaiting(Head(mipQ).of, ch), UNCHANGED <<pending, fftQ, reserved>>,
         NEW b \in Buffers, NEW h \in Holders, NEW k \in Holders, Passes(b, h, k)
  PROVE  <<h, k>> \in Abstract!HardwareEdges
<1> DEFINE o == Head(mipQ).of
<1>0. TypeOK /\ SingleOwner /\ SingleOwner'
  BY DEF IInv
<1>1. b \notin Held[k] /\ b \notin Held'[h] /\ h # k /\ b \in Held[h] /\ b \in Held'[k]
  BY <1>0, PassFacts DEF Passes
<1>2. /\ o \in Small /\ BuffersOf(ch) = BuffersOf(proc[o]) \cup {Head(mipQ).dst}
      /\ proc' = [proc EXCEPT ![o] = ch]
      /\ UNCHANGED <<availBig, availSmall, chunks>>
  BY ResultFacts DEF KeepWaiting
<1>3. proc'[o] = ch /\ \A p \in Small \ {o} : proc'[p] = proc[p]
  BY <1>0, <1>2 DEF TypeOK
<1>4. /\ \A i \in Slots : SlotBuffers(i)' = SlotBuffers(i)
      /\ Scratches' = Scratches
  BY <1>2 DEF SlotBuffers, Scratches
<1> HIDE DEF o
<1>5. h \in {MipH, ProcH(o)} /\ k \in {MipH, ProcH(o)}
  BY <1>1, <1>2, <1>3, <1>4, HeldValues, HeldValuesNext, HolderCases
<1>6. h # ProcH(o)
  BY <1>1, <1>2, <1>3, HeldValues, HeldValuesNext
<1> QED BY <1>1, <1>2, <1>5, <1>6, EdgeFacts

\* A chunk that is published leaves the processor and the pipe for the ring,
\* and what was in its slot goes to the pool.
LEMMA PublishPasses ==
  ASSUME IInv, IInv', mipQ # <<>>, mipQ' = Tail(mipQ), NEW ch, ResultOf(ch),
         Publish(Head(mipQ).of, ch), UNCHANGED <<pending, fftQ, reserved>>,
         NEW b \in Buffers, NEW h \in Holders, NEW k \in Holders, Passes(b, h, k)
  PROVE  <<h, k>> \in Abstract!HardwareEdges
<1> DEFINE o == Head(mipQ).of
           s == NextSlot
           old == chunks[s]
<1>0. TypeOK /\ SingleOwner /\ SingleOwner' /\ NoDuplicates
  BY DEF IInv
<1>1. b \notin Held[k] /\ b \notin Held'[h] /\ h # k /\ b \in Held[h] /\ b \in Held'[k]
  BY <1>0, PassFacts DEF Passes
<1>2. /\ o \in Small /\ s \in Slots /\ old \in Chunk
      /\ proc' = [proc EXCEPT ![o] = NoChunk]
      /\ chunks' = [chunks EXCEPT ![s] = ch]
      /\ \/ old.noFree /\ UNCHANGED <<availBig, availSmall>>
         \/ /\ ~old.noFree
            /\ availBig' = FreeBig(availBig, old)
            /\ availSmall' = FreeSmall(availSmall, old)
  BY <1>0, ResultFacts, SlotFacts DEF Publish, MayFree, TypeOK
<1>3. /\ proc'[o] = NoChunk /\ \A p \in Small \ {o} : proc'[p] = proc[p]
      /\ \A i \in Slots \ {s} : chunks'[i] = chunks[i]
  BY <1>0, <1>2 DEF TypeOK
<1>4. ToSet(availBig') \cup ToSet(availSmall')
        = ToSet(availBig) \cup ToSet(availSmall) \cup SlotBuffers(s)
  <2>1. SlotBuffers(s) = IF old.noFree THEN {} ELSE BuffersOf(old)
    BY DEF SlotBuffers
  <2>2. ToSet(FreeBig(availBig, old)) \cup ToSet(FreeSmall(availSmall, old))
          = ToSet(availBig) \cup ToSet(availSmall) \cup BuffersOf(old)
    BY <1>0, <1>2, FreeFacts DEF TypeOK
  <2> QED BY <1>2, <2>1, <2>2
<1>5. /\ \A i \in Slots \ {s} : SlotBuffers(i)' = SlotBuffers(i)
      /\ Scratches' = Scratches
      /\ Destinations' \subseteq Destinations
  <2>1. mipQ \in Seq(MipJob) /\ DistinctDst
    BY <1>0 DEF TypeOK, NoDuplicates, DistinctDst
  <2>2. Destinations' \subseteq Destinations
    BY <2>1, MipPull
  <2> QED BY <1>3, <2>2 DEF SlotBuffers, Scratches
<1> HIDE DEF o, s, old
<1>6. k \in {PoolH, SlotH(s)}
  BY <1>1, <1>2, <1>3, <1>5, HeldValues, HeldValuesNext, HolderCases, NoChunkFacts
<1>7. h \in {MipH, ProcH(o), SlotH(s)}
  BY <1>1, <1>2, <1>3, <1>4, <1>5, HeldValues, HeldValuesNext, HolderCases
<1>8. k = PoolH => h = SlotH(s)
  <2> HAVE k = PoolH
  <2>1. b \in Held[SlotH(s)] /\ SlotH(s) \in Holders
    BY <1>1, <1>2, <1>4, HeldValues, HeldValuesNext, HolderCases
  <2> QED BY <1>0, <1>1, <2>1, OneHolder
<1> QED BY <1>1, <1>2, <1>6, <1>7, <1>8, EdgeFacts

\* A client gives what it had to the pool; all it may get is from one slot.
LEMMA ReleasePasses ==
  ASSUME IInv, IInv', NEW c \in Clients, Unreserve(c),
         NEW new, reserved' = [reserved EXCEPT ![c] = new],
         NEW s \in Slots,
         \A i \in Slots \ {s} : chunks'[i] = chunks[i],
         SlotBuffers(s)' \subseteq SlotBuffers(s),
         BuffersOf(new) \subseteq SlotBuffers(s),
         UNCHANGED <<pending, proc, fftQ, mipQ>>,
         NEW b \in Buffers, NEW h \in Holders, NEW k \in Holders, Passes(b, h, k)
  PROVE  <<h, k>> \in Abstract!ClientEdges(c)
<1>0. TypeOK /\ SingleOwner /\ SingleOwner'
  BY DEF IInv
<1>1. b \notin Held[k] /\ b \notin Held'[h] /\ h # k /\ b \in Held[h] /\ b \in Held'[k]
  BY <1>0, PassFacts DEF Passes
<1>2. ToSet(availBig') \cup ToSet(availSmall')
        = ToSet(availBig) \cup ToSet(availSmall) \cup BuffersOf(reserved[c])
  BY UnreserveFacts
<1>3. /\ Scratches' = Scratches /\ Destinations' = Destinations
      /\ \A i \in Slots \ {s} : SlotBuffers(i)' = SlotBuffers(i)
      /\ reserved'[c] = new /\ \A d \in Clients \ {c} : reserved'[d] = reserved[d]
  BY <1>0 DEF Scratches, Destinations, SlotBuffers, TypeOK
<1>4. h \in {ClientH(c), SlotH(s)}
  BY <1>1, <1>2, <1>3, HeldValues, HeldValuesNext, HolderCases
<1>5. k \in {ClientH(c), PoolH}
  BY <1>1, <1>3, HeldValues, HeldValuesNext, HolderCases
<1>6. k = PoolH => h = ClientH(c)
  <2> HAVE k = PoolH
  <2>1. b \in Held[ClientH(c)] /\ ClientH(c) \in Holders
    BY <1>1, <1>2, HeldValues, HeldValuesNext, HolderCases
  <2> QED BY <1>0, <1>1, <2>1, OneHolder
<1> QED BY <1>1, <1>4, <1>5, <1>6, EdgeFacts

\* "start", "stop" and the end of a connection.
LEMMA ClientPasses ==
  ASSUME IInv, IInv', NEW c \in Clients,
         HandleStart(c) \/ HandleStop(c) \/ Close(c),
         NEW b \in Buffers, NEW h \in Holders, NEW k \in Holders, Passes(b, h, k)
  PROVE  <<h, k>> \in Abstract!ClientEdges(c)
<1>0. TypeOK /\ currChunk \in Slots
  BY DEF IInv, TypeOK
<1>1. PICK s \in Slots : s = currChunk
  BY <1>0
<1>2. Unreserve(c) /\ UNCHANGED <<pending, proc, fftQ, mipQ>>
  BY DEF HandleStart, HandleStop, Close
<1>3. CASE reserved' = [reserved EXCEPT ![c] = NoChunk] /\ chunks' = chunks
  <2>1. /\ \A i \in Slots \ {s} : chunks'[i] = chunks[i]
        /\ SlotBuffers(s)' \subseteq SlotBuffers(s)
        /\ BuffersOf(NoChunk) \subseteq SlotBuffers(s)
    BY <1>3, NoChunkFacts DEF SlotBuffers
  <2> QED BY <1>2, <1>3, <2>1, ReleasePasses
<1>4. CASE HandleStop(c) /\ ~chunks[s].noFree
  <2> DEFINE pinned == [chunks[s] EXCEPT !.noFree = TRUE]
             new == IF HasData(pinned) THEN pinned ELSE NoChunk
  <2>1. /\ chunks' = [chunks EXCEPT ![s] = pinned]
        /\ reserved' = [reserved EXCEPT ![c] = new]
    BY <1>1, <1>4 DEF HandleStop
  <2>2. chunks[s] \in Chunk
    BY <1>0 DEF TypeOK
  <2>3. pinned.noFree /\ BuffersOf(pinned) = BuffersOf(chunks[s])
    BY <2>2 DEF Chunk, BuffersOf, BigOf
  <2>4. chunks'[s] = pinned /\ \A i \in Slots \ {s} : chunks'[i] = chunks[i]
    BY <1>0, <2>1 DEF TypeOK
  <2>5. SlotBuffers(s) = BuffersOf(chunks[s]) /\ SlotBuffers(s)' = {}
    BY <1>4, <2>3, <2>4 DEF SlotBuffers
  <2>6. BuffersOf(new) \subseteq SlotBuffers(s)
    BY <2>3, <2>5, NoChunkFacts
  <2> HIDE DEF pinned, new
  <2> QED BY <1>2, <2>1, <2>4, <2>5, <2>6, ReleasePasses
<1> QED BY <1>1, <1>3, <1>4 DEF HandleStart, HandleStop, Close

-----------------------------------------------------------------------------
(* The refinement.                                                         *)

\* The pools, the receiver and hw_init share the buffers at the start.
LEMMA InitMaps == Init => Abstract!Init
<1> SUFFICES ASSUME Init PROVE Abstract!Init
  OBVIOUS
<1>1. IInv
  BY InitInv
<1>2. PartitionedBy(Held)
  BY <1>1 DEF IInv, SingleOwner
<1>3. /\ Owner \in [Buffers -> Holders]
      /\ \A b \in Buffers : b \in Held[Owner[b]]
  BY <1>2, OwnerIsHolder DEF Owner
<1>4. \A h \in Holders \ {PoolH, RecvH, TestH} : Held[h] = {}
  <2>1. Scratches = {} /\ Destinations = {}
    BY DEF Init, Scratches, Destinations
  <2>2. /\ \A o \in Small : BuffersOf(proc[o]) = {}
        /\ \A i \in Slots : SlotBuffers(i) = {}
        /\ \A c \in Clients : BuffersOf(reserved[c]) = {}
    BY NoChunkFacts DEF Init, SlotBuffers
  <2> QED BY <2>1, <2>2, HeldValues, HolderCases
<1>5. \A b \in Buffers : Owner[b] \in {PoolH, RecvH, TestH}
  BY <1>3, <1>4
<1> QED BY <1>3, <1>5, SameNames DEF Abstract!Init

\* Every step of the pipeline is a step of Ownership or moves nothing.
LEMMA StepMaps == IInv /\ IInv' /\ [Next]_vars => [Abstract!Next]_Owner
<1> SUFFICES ASSUME IInv, IInv', [Next]_vars PROVE Abstract!Next \/ UNCHANGED Owner
  OBVIOUS
<1>1. CASE DropBuffer
  BY <1>1, DropPasses
<1>2. CASE StartProcessing
  <2>1. Abstract!Step(Abstract!HardwareEdges)
    BY <1>2, StartPasses, StepAlong
  <2> QED BY <2>1 DEF Abstract!Next
<1>3. CASE FftDone
  <2>1. Abstract!Step(Abstract!HardwareEdges)
    BY <1>3, FftPasses, StepAlong
  <2> QED BY <2>1 DEF Abstract!Next
<1>4. CASE MipmapDone \/ SpectrumMipmapDone
  <2>1. PICK ch : /\ mipQ # <<>> /\ mipQ' = Tail(mipQ) /\ ResultOf(ch)
                  /\ CheckDone(Head(mipQ).of, ch)
                  /\ UNCHANGED <<pending, fftQ, reserved>>
    <3>1. CASE MipmapDone
      BY <3>1 DEF MipmapDone, ResultOf, MipmapResult
    <3>2. CASE SpectrumMipmapDone
      BY <3>2 DEF SpectrumMipmapDone, ResultOf, SpectrumResult
    <3> QED BY <1>4, <3>1, <3>2
  <2>2. Abstract!Step(Abstract!HardwareEdges)
    <3>1. CASE KeepWaiting(Head(mipQ).of, ch)
      BY <2>1, <3>1, KeepPasses, StepAlong
    <3>2. CASE Publish(Head(mipQ).of, ch)
      BY <2>1, <3>2, PublishPasses, StepAlong
    <3> QED BY <2>1, <3>1, <3>2 DEF CheckDone
  <2> QED BY <2>2 DEF Abstract!Next
<1>5. ASSUME NEW c \in Clients, HandleStart(c) \/ HandleStop(c) \/ Close(c)
      PROVE  Abstract!Next
  <2>1. Abstract!Step(Abstract!ClientEdges(c))
    BY <1>5, ClientPasses, StepAlong
  <2> QED BY <2>1 DEF Abstract!Next
<1>6. CASE ExhaustPool \/ UNCHANGED vars \/ \E c \in Clients : Open(c)
  <2>1. UNCHANGED <<availBig, availSmall, pending, proc, fftQ, mipQ, chunks, reserved>>
    BY <1>6 DEF ExhaustPool, Open, vars
  <2>2. /\ Scratches' = Scratches
        /\ Destinations' = Destinations
        /\ \A i \in Slots : SlotBuffers(i)' = SlotBuffers(i)
    BY <2>1 DEF Scratches, Destinations, SlotBuffers
  <2>3. ASSUME NEW h \in Holders PROVE Held'[h] = Held[h]
    BY <2>1, <2>2, SameHolder
  <2> QED BY <2>3, SameOwners
<1> QED BY <1>1, <1>2, <1>3, <1>4, <1>5, <1>6 DEF Next

\* The capture pipeline implements the ownership rules, whatever the sizes of
\* the pools and the ring: the callbacks of the hardware thread and the handlers
\* of server.C hand buffers over along the permitted edges only, one client
\* never gets what another one has, and a chunk is passed on with all its parts.
THEOREM PipelineImplementsOwnership == Spec => ImplementsOwnership
<1>1. IInv /\ IInv' /\ [Next]_vars => [Abstract!Next]_Owner
  BY StepMaps
<1>2. Spec => Abstract!Spec
  BY <1>1, InitMaps, InvariantHolds, PTL DEF Spec, Abstract!Spec
<1> QED BY <1>2 DEF ImplementsOwnership

-----------------------------------------------------------------------------
(* Counting the buffers.                                                   *)

\* As many places as things that are found in them, at least.
LEMMA Counting ==
  ASSUME NEW P, IsFiniteSet(P), NEW S, NEW at, \A b \in S : \E p \in P : at[p] = b
  PROVE  IsFiniteSet(S) /\ Cardinality(S) <= Cardinality(P)
<1> DEFINE f == [b \in S |-> CHOOSE p \in P : at[p] = b]
<1>1. \A b \in S : f[b] \in P /\ at[f[b]] = b
  OBVIOUS
<1>2. f \in [S -> P]
  BY <1>1
<1> HIDE DEF f
<1>3. f \in Injection(S, P)
  BY <1>1, <1>2 DEF Injection, IsInjective
<1> QED BY <1>3, FS_Injection

\* Every chunk has place for three big buffers.
LEMMA ThreeEach ==
  ASSUME NEW I, IsFiniteSet(I), NEW S, NEW chs,
         \A b \in S : \E i \in I :
            b \in {chs[i].mipmap, chs[i].spectrum, chs[i].spectrumMipmap}
  PROVE  IsFiniteSet(S) /\ Cardinality(S) <= 3 * Cardinality(I)
<1> DEFINE three == 3
           P == I \X (1 .. three)
           at == [p \in P |-> IF p[2] = 1 THEN chs[p[1]].mipmap
                              ELSE IF p[2] = 2 THEN chs[p[1]].spectrum
                              ELSE chs[p[1]].spectrumMipmap]
<1>1. IsFiniteSet(1 .. three) /\ Cardinality(1 .. three) = three
  <2>1. three \in Int /\ three >= 1
    OBVIOUS
  <2> HIDE DEF three
  <2> QED BY <2>1, FS_Interval
<1>2. IsFiniteSet(P) /\ Cardinality(P) = Cardinality(I) * three
  BY <1>1, FS_Product
<1>3. ASSUME NEW b \in S PROVE \E p \in P : at[p] = b
  <2>1. PICK i \in I : b \in {chs[i].mipmap, chs[i].spectrum, chs[i].spectrumMipmap}
    OBVIOUS
  <2>2. /\ <<i, 1>> \in P /\ at[<<i, 1>>] = chs[i].mipmap
        /\ <<i, 2>> \in P /\ at[<<i, 2>>] = chs[i].spectrum
        /\ <<i, 3>> \in P /\ at[<<i, 3>>] = chs[i].spectrumMipmap
    OBVIOUS
  <2> HIDE DEF P, at
  <2> QED BY <2>1, <2>2
<1> HIDE DEF P, at
<1>4. IsFiniteSet(S) /\ Cardinality(S) <= Cardinality(P)
  BY <1>2, <1>3, Counting
<1>5. Cardinality(I) \in Nat
  BY FS_CardinalityType
<1> QED BY <1>2, <1>4, <1>5

\* A queue has no more elements than its length.
LEMMA QueueBound ==
  ASSUME NEW T, NEW s \in Seq(T)
  PROVE  IsFiniteSet(ToSet(s)) /\ Cardinality(ToSet(s)) <= Len(s) /\ Len(s) \in Nat
<1> DEFINE n == Len(s)
           P == 1 .. n
<1>1. n \in Nat /\ DOMAIN s = P
  OBVIOUS
<1>2. \A b \in ToSet(s) : \E p \in P : s[p] = b
  BY <1>1 DEF ToSet
<1> HIDE DEF n
<1>3. IsFiniteSet(P) /\ Cardinality(P) = n
  BY <1>1, FS_Interval
<1> HIDE DEF P
<1>4. IsFiniteSet(ToSet(s)) /\ Cardinality(ToSet(s)) <= Cardinality(P)
  BY <1>2, <1>3, Counting
<1> QED BY <1>1, <1>3, <1>4 DEF n

\* A union has at most the sum of the elements.
LEMMA UnionBound ==
  ASSUME NEW S, IsFiniteSet(S), NEW T, IsFiniteSet(T), NEW m \in Nat, NEW n \in Nat,
         Cardinality(S) <= m, Cardinality(T) <= n
  PROVE  IsFiniteSet(S \cup T) /\ Cardinality(S \cup T) <= m + n
<1>1. /\ IsFiniteSet(S \cup T)
      /\ Cardinality(S \cup T) = Cardinality(S) + Cardinality(T) - Cardinality(S \cap T)
  BY FS_Union
<1>2. IsFiniteSet(S \cap T)
  BY FS_Subset
<1>3. Cardinality(S) \in Nat /\ Cardinality(T) \in Nat /\ Cardinality(S \cap T) \in Nat
  BY <1>2, FS_CardinalityType
<1> QED BY <1>1, <1>3

Pinned == {c \in Clients : HasData(reserved[c])}

\* There are finitely many processors, slots and pins: each has an original.
LEMMA FiniteHolders ==
  ASSUME IInv
  PROVE  /\ IsFiniteSet(Small) /\ Cardinality(Small) = NSmall
         /\ IsFiniteSet(Big) /\ Cardinality(Big) = NBig
         /\ IsFiniteSet(Slots) /\ Cardinality(Slots) = RingSize
         /\ IsFiniteSet(LiveProcs) /\ Cardinality(LiveProcs) \in Nat
         /\ IsFiniteSet(Pinned) /\ Cardinality(Pinned) \in Nat
<1>0. TypeOK /\ SingleOwner /\ PublishedComplete
  BY DEF IInv
<1>1. IsFiniteSet(Small) /\ Cardinality(Small) = NSmall
  BY HwStreamAssumption, FS_Interval DEF Small
<1>2. IsFiniteSet(Big) /\ Cardinality(Big) = NBig
  BY HwStreamAssumption, FS_Interval DEF Big
<1>3. IsFiniteSet(Slots) /\ Cardinality(Slots) = RingSize
  BY HwStreamAssumption, FS_Interval DEF Slots
<1>4. IsFiniteSet(LiveProcs)
  BY <1>1, FS_Subset DEF LiveProcs
<1>5. IsFiniteSet(Pinned)
  <2> DEFINE f == [c \in Pinned |-> reserved[c].original]
  <2>1. ASSUME NEW c \in Pinned
        PROVE  /\ reserved[c].original \in Small
               /\ reserved[c].original \in Held[ClientH(c)]
    <3>1. c \in Clients /\ HasData(reserved[c]) /\ reserved[c] \in Chunk
      BY <1>0 DEF Pinned, TypeOK
    <3>2. Complete(reserved[c])
      BY <1>0, <3>1 DEF PublishedComplete, BuffersOf, BigOf, HasData
    <3>3. reserved[c].original \in Small /\ reserved[c].original \in BuffersOf(reserved[c])
      BY <3>1, <3>2 DEF Complete, Chunk, BuffersOf
    <3> QED BY <3>1, <3>3, HeldValues
  <2>2. ASSUME NEW c \in Pinned, NEW d \in Pinned, f[c] = f[d] PROVE c = d
    <3>1. ClientH(c) \in Holders /\ ClientH(d) \in Holders
      BY HolderCases DEF Pinned
    <3>2. ClientH(c) = ClientH(d)
      BY <1>0, <2>1, <2>2, <3>1, OneHolder, BufferFacts
    <3> QED BY <3>2, HolderKinds
  <2>3. f \in [Pinned -> Small]
    BY <2>1
  <2> HIDE DEF f
  <2>4. f \in Injection(Pinned, Small)
    BY <2>2, <2>3 DEF Injection, IsInjective
  <2> QED BY <1>1, <2>4, FS_Injection
<1> QED BY <1>1, <1>2, <1>3, <1>4, <1>5, FS_CardinalityType

\* The buffers with the processors and with the pipes that work for them.
AtWork == Scratches \cup Destinations
            \cup UNION {BuffersOf(proc[o]) \cap Big : o \in Small}

\* A processor that is alive answers for three big buffers: its spectrum, its
\* mipmap or the one being made, and its spectrum mipmap or the buffer that the
\* transform uses and the last reduction will fill.
LEMMA WorkBound ==
  ASSUME IInv
  PROVE  IsFiniteSet(AtWork) /\ Cardinality(AtWork) <= 3 * Cardinality(LiveProcs)
<1> DEFINE Job(o, kind) == {i \in DOMAIN mipQ : mipQ[i].of = o /\ mipQ[i].kind = kind}
           mip(o) == IF proc[o].mipmap # Null THEN proc[o].mipmap
                     ELSE mipQ[CHOOSE i \in Job(o, "mipmap") : TRUE].dst
           last(o) == IF proc[o].spectrumMipmap # Null THEN proc[o].spectrumMipmap
                      ELSE IF Job(o, "spectrumMipmap") # {}
                        THEN mipQ[CHOOSE i \in Job(o, "spectrumMipmap") : TRUE].dst
                        ELSE fftQ[CHOOSE i \in DOMAIN fftQ : fftQ[i].of = o].scratch
           chs == [o \in LiveProcs |-> [mipmap |-> mip(o), spectrum |-> proc[o].spectrum,
                                        spectrumMipmap |-> last(o)]]
           Parts(o) == {chs[o].mipmap, chs[o].spectrum, chs[o].spectrumMipmap}
<1>0. TypeOK /\ JobsMatch /\ ChunksSane
  BY DEF IInv
<1>1. \A o \in LiveProcs : Parts(o) = {mip(o), proc[o].spectrum, last(o)}
  OBVIOUS
<1>2. \A o \in Small : proc[o].original = o => o \in LiveProcs
  BY BufferFacts DEF LiveProcs, Live
<1> HIDE DEF Parts, chs
<1>3. ASSUME NEW i \in DOMAIN mipQ
      PROVE  mipQ[i].of \in LiveProcs /\ mipQ[i].dst \in Parts(mipQ[i].of)
  <2> DEFINE o == mipQ[i].of
  <2>1. mipQ[i] \in MipJob
    BY <1>0 DEF TypeOK
  <2>2. o \in Small /\ mipQ[i].kind \in {"mipmap", "spectrumMipmap"} /\ proc[o].original = o
    BY <1>0, <2>1 DEF MipJob, JobsMatch
  <2>3. \A k \in Job(o, mipQ[i].kind) : k = i
    BY <1>0 DEF JobsMatch
  <2>4. i \in Job(o, mipQ[i].kind)
    OBVIOUS
  <2>5. (CHOOSE k \in Job(o, mipQ[i].kind) : TRUE) = i
    BY <2>3, <2>4
  <2>6. mipQ[i].kind = "mipmap" => mip(o) = mipQ[i].dst
    BY <1>0, <2>5 DEF JobsMatch
  <2>7. mipQ[i].kind = "spectrumMipmap" => last(o) = mipQ[i].dst
    BY <1>0, <2>4, <2>5 DEF JobsMatch
  <2> QED BY <1>1, <1>2, <2>2, <2>6, <2>7
<1>4. ASSUME NEW i \in DOMAIN fftQ
      PROVE  fftQ[i].of \in LiveProcs /\ fftQ[i].scratch \in Parts(fftQ[i].of)
  <2> DEFINE o == fftQ[i].of
  <2>1. o \in Small /\ proc[o].original = o /\ proc[o].spectrumMipmap = Null
    BY <1>0, JobTypes DEF JobsMatch
  <2>2. Job(o, "spectrumMipmap") = {}
    BY <1>0 DEF JobsMatch
  <2>3. (CHOOSE k \in DOMAIN fftQ : fftQ[k].of = o) = i
    BY <1>0 DEF JobsMatch
  <2>4. last(o) = fftQ[i].scratch
    BY <2>1, <2>2, <2>3
  <2> QED BY <1>1, <1>2, <2>1, <2>4
<1>5. ASSUME NEW o \in Small, NEW b \in BuffersOf(proc[o]) \cap Big
      PROVE  o \in LiveProcs /\ b \in Parts(o)
  <2>1. o \in LiveProcs
    BY <1>0, <1>2, NoChunkFacts DEF ChunksSane
  <2>2. proc[o] \in Chunk
    BY <1>0 DEF TypeOK
  <2>3. b \in {proc[o].mipmap, proc[o].spectrum, proc[o].spectrumMipmap} /\ b # Null
    BY <2>2, BufferFacts DEF BuffersOf, BigOf, Chunk
  <2> QED BY <1>1, <2>1, <2>3
<1>6. \A b \in AtWork : \E o \in LiveProcs : b \in Parts(o)
  BY <1>3, <1>4, <1>5 DEF AtWork, Scratches, Destinations
<1> QED BY <1>6, FiniteHolders, ThreeEach DEF Parts

\* Where the big buffers are, counted.
LEMMA BigBound ==
  ASSUME IInv
  PROVE  NBig <= Len(availBig) + 3 * Cardinality(LiveProcs) + 3 * RingSize
                   + 3 * Cardinality(Pinned)
<1> DEFINE A == ToSet(availBig)
           C == UNION {BuffersOf(chunks[i]) \cap Big : i \in Slots}
           D == UNION {BuffersOf(reserved[c]) \cap Big : c \in Clients}
<1>0. TypeOK /\ SingleOwner /\ PublishedComplete
  BY DEF IInv
<1>1. IsFiniteSet(A) /\ Cardinality(A) <= Len(availBig) /\ Len(availBig) \in Nat
  BY <1>0, QueueBound DEF TypeOK
<1>2. \A ch \in Chunk : BuffersOf(ch) \cap Big \subseteq {ch.mipmap, ch.spectrum, ch.spectrumMipmap}
  BY BufferFacts DEF BuffersOf, BigOf, Chunk
<1>3. IsFiniteSet(C) /\ Cardinality(C) <= 3 * RingSize
  <2>1. \A b \in C : \E i \in Slots :
          b \in {chunks[i].mipmap, chunks[i].spectrum, chunks[i].spectrumMipmap}
    BY <1>0, <1>2 DEF TypeOK
  <2> HIDE DEF C
  <2>2. IsFiniteSet(C) /\ Cardinality(C) <= 3 * Cardinality(Slots)
    BY <2>1, FiniteHolders, ThreeEach
  <2> QED BY <2>2, FiniteHolders
<1>4. IsFiniteSet(D) /\ Cardinality(D) <= 3 * Cardinality(Pinned)
  <2>1. ASSUME NEW b \in D
        PROVE  \E c \in Pinned :
          b \in {reserved[c].mipmap, reserved[c].spectrum, reserved[c].spectrumMipmap}
    <3>1. PICK c \in Clients : b \in BuffersOf(reserved[c]) \cap Big
      OBVIOUS
    <3>2. c \in Pinned
      BY <1>0, <3>1 DEF Pinned, PublishedComplete, Complete, HasData
    <3> QED BY <1>0, <1>2, <3>1, <3>2 DEF TypeOK
  <2> HIDE DEF D
  <2> QED BY <2>1, FiniteHolders, ThreeEach
<1>5. Big \subseteq ((A \cup AtWork) \cup C) \cup D
  <2> SUFFICES ASSUME NEW b \in Big, b \notin A, b \notin AtWork
               PROVE  b \in C \/ b \in D
    OBVIOUS
  <2>1. b \in Buffers
    BY BufferFacts
  <2>2. PICK h \in Holders : b \in Held[h]
    BY <1>0, <2>1 DEF SingleOwner, PartitionedBy
  <2>3. ToSet(availSmall) \subseteq Small /\ ToSet(pending) \subseteq Small
    BY <1>0, HeldAreBuffers
  <2>4. h \notin {PoolH, RecvH, TestH, FftH, MipH}
    BY <2>2, <2>3, HeldValues, BufferFacts DEF AtWork
  <2>5. \A o \in Small : h # ProcH(o)
    BY <2>2, HeldValues DEF AtWork
  <2>6. CASE \E i \in Slots : h = SlotH(i)
    BY <2>2, <2>6, HeldValues DEF SlotBuffers
  <2>7. CASE \E c \in Clients : h = ClientH(c)
    BY <2>2, <2>7, HeldValues
  <2> QED BY <2>4, <2>5, <2>6, <2>7, HolderCases
<1> HIDE DEF A, C, D
<1> DEFINE a == Len(availBig)
           w == 3 * Cardinality(LiveProcs)
           r == 3 * RingSize
           p == 3 * Cardinality(Pinned)
<1>6. a \in Nat /\ w \in Nat /\ r \in Nat /\ p \in Nat
  BY <1>1, FiniteHolders, HwStreamAssumption
<1>7. IsFiniteSet(AtWork) /\ Cardinality(AtWork) <= w
  BY WorkBound
<1>8. Cardinality(A) <= a /\ Cardinality(C) <= r /\ Cardinality(D) <= p
  BY <1>1, <1>3, <1>4
<1> HIDE DEF a, w, r, p
<1>s. a + w \in Nat /\ a + w + r \in Nat
  BY <1>6
<1>9. IsFiniteSet(A \cup AtWork) /\ Cardinality(A \cup AtWork) <= a + w
  BY <1>1, <1>6, <1>7, <1>8, UnionBound
<1>10. IsFiniteSet((A \cup AtWork) \cup C) /\ Cardinality((A \cup AtWork) \cup C) <= a + w + r
  BY <1>3, <1>6, <1>8, <1>9, <1>s, UnionBound
<1>11. /\ IsFiniteSet(((A \cup AtWork) \cup C) \cup D)
       /\ Cardinality(((A \cup AtWork) \cup C) \cup D) <= a + w + r + p
  BY <1>4, <1>6, <1>8, <1>10, <1>s, UnionBound
<1>12. NBig <= a + w + r + p
  <2>1. Cardinality(Big) <= Cardinality(((A \cup AtWork) \cup C) \cup D)
    BY <1>5, <1>11, FS_Subset
  <2>2. Cardinality(((A \cup AtWork) \cup C) \cup D) \in Nat
    BY <1>11, FS_CardinalityType
  <2> QED BY <1>6, <1>11, <2>1, <2>2, FiniteHolders, HwStreamAssumption
<1> QED BY <1>12 DEF a, w, r, p

\* Where the small buffers are, counted: a processor, a slot and a pin have one.
LEMMA SmallBound ==
  ASSUME IInv
  PROVE  NSmall <= Len(availSmall) + Len(pending) + 1 + Cardinality(LiveProcs) + RingSize
                     + Cardinality(Pinned)
<1> DEFINE A == ToSet(availSmall)
           R == ToSet(pending)
           T == {TestBuffer}
           C == UNION {BuffersOf(chunks[i]) \cap Small : i \in Slots}
           D == UNION {BuffersOf(reserved[c]) \cap Small : c \in Clients}
<1>0. TypeOK /\ SingleOwner /\ PublishedComplete /\ ChunksSane
  BY DEF IInv
<1>1. /\ IsFiniteSet(A) /\ Cardinality(A) <= Len(availSmall) /\ Len(availSmall) \in Nat
      /\ IsFiniteSet(R) /\ Cardinality(R) <= Len(pending) /\ Len(pending) \in Nat
  BY <1>0, QueueBound DEF TypeOK
<1>2. IsFiniteSet(T) /\ Cardinality(T) <= 1
  <2>1. IsFiniteSet(T) /\ Cardinality(T) = 1
    BY FS_Singleton
  <2> QED BY <2>1
<1>3. \A ch \in Chunk : \A b \in BuffersOf(ch) \cap Small : b = ch.original
  BY BufferFacts DEF BuffersOf, BigOf, Chunk
<1>4. IsFiniteSet(C) /\ Cardinality(C) <= RingSize
  <2> DEFINE at == [i \in Slots |-> chunks[i].original]
  <2>1. \A b \in C : \E i \in Slots : at[i] = b
    BY <1>0, <1>3 DEF TypeOK
  <2> HIDE DEF C, at
  <2>2. IsFiniteSet(C) /\ Cardinality(C) <= Cardinality(Slots)
    BY <2>1, FiniteHolders, Counting
  <2> QED BY <2>2, FiniteHolders
<1>5. IsFiniteSet(D) /\ Cardinality(D) <= Cardinality(Pinned)
  <2> DEFINE at == [c \in Pinned |-> reserved[c].original]
  <2>1. ASSUME NEW b \in D PROVE \E c \in Pinned : at[c] = b
    <3>1. PICK c \in Clients : b \in BuffersOf(reserved[c]) \cap Small
      OBVIOUS
    <3>2. c \in Pinned
      BY <1>0, <3>1 DEF Pinned, PublishedComplete, Complete, HasData
    <3> QED BY <1>0, <1>3, <3>1, <3>2 DEF TypeOK
  <2> HIDE DEF D, at
  <2> QED BY <2>1, FiniteHolders, Counting
<1>6. Small \subseteq ((((A \cup R) \cup T) \cup LiveProcs) \cup C) \cup D
  <2> SUFFICES ASSUME NEW b \in Small, b \notin A, b \notin R, b \notin T, b \notin LiveProcs
               PROVE  b \in C \/ b \in D
    OBVIOUS
  <2>1. PICK h \in Holders : b \in Held[h]
    BY <1>0, BufferFacts DEF SingleOwner, PartitionedBy
  <2>2. ToSet(availBig) \subseteq Big /\ Scratches \subseteq Big /\ Destinations \subseteq Big
    BY <1>0, HeldAreBuffers
  <2>3. h \notin {PoolH, RecvH, TestH, FftH, MipH}
    BY <2>1, <2>2, HeldValues, BufferFacts
  <2>4. ASSUME NEW o \in Small PROVE h # ProcH(o)
    <3>1. SUFFICES ASSUME b \in BuffersOf(proc[o]) PROVE FALSE
      BY <2>1, HeldValues
    <3>2. b = proc[o].original /\ proc[o] \in Chunk
      BY <1>0, <1>3, <3>1 DEF TypeOK
    <3>3. proc[o].original = o
      BY <1>0, <3>1, NoChunkFacts DEF ChunksSane
    <3> QED BY <3>2, <3>3, BufferFacts DEF LiveProcs, Live
  <2>5. CASE \E i \in Slots : h = SlotH(i)
    BY <2>1, <2>5, HeldValues DEF SlotBuffers
  <2>6. CASE \E c \in Clients : h = ClientH(c)
    BY <2>1, <2>6, HeldValues
  <2> QED BY <2>3, <2>4, <2>5, <2>6, HolderCases
<1> HIDE DEF A, R, T, C, D
<1> DEFINE a == Len(availSmall)
           q == Len(pending)
           w == Cardinality(LiveProcs)
           p == Cardinality(Pinned)
<1>7. /\ a \in Nat /\ q \in Nat /\ w \in Nat /\ RingSize \in Nat /\ p \in Nat /\ 1 \in Nat
      /\ IsFiniteSet(LiveProcs) /\ Cardinality(LiveProcs) <= w
  BY <1>1, FiniteHolders, HwStreamAssumption
<1>8. Cardinality(A) <= a /\ Cardinality(R) <= q /\ Cardinality(D) <= p
  BY <1>1, <1>5
<1> HIDE DEF a, q, w, p
<1>s. a + q \in Nat /\ a + q + 1 \in Nat /\ a + q + 1 + w \in Nat /\ a + q + 1 + w + RingSize \in Nat
  BY <1>7
<1>9. IsFiniteSet(A \cup R) /\ Cardinality(A \cup R) <= a + q
  BY <1>1, <1>7, <1>8, UnionBound
<1>10. IsFiniteSet((A \cup R) \cup T) /\ Cardinality((A \cup R) \cup T) <= a + q + 1
  BY <1>2, <1>7, <1>9, <1>s, UnionBound
<1>11. /\ IsFiniteSet(((A \cup R) \cup T) \cup LiveProcs)
       /\ Cardinality(((A \cup R) \cup T) \cup LiveProcs) <= a + q + 1 + w
  BY <1>7, <1>10, <1>s, UnionBound
<1>12. /\ IsFiniteSet((((A \cup R) \cup T) \cup LiveProcs) \cup C)
       /\ Cardinality((((A \cup R) \cup T) \cup LiveProcs) \cup C) <= a + q + 1 + w + RingSize
  BY <1>4, <1>7, <1>11, <1>s, UnionBound
<1> DEFINE all == ((((A \cup R) \cup T) \cup LiveProcs) \cup C) \cup D
<1>13. IsFiniteSet(all) /\ Cardinality(all) <= a + q + 1 + w + RingSize + p
  BY <1>5, <1>7, <1>8, <1>12, <1>s, UnionBound
<1>14. NSmall <= a + q + 1 + w + RingSize + p
  <2>1. Small \subseteq all
    BY <1>6
  <2> HIDE DEF all
  <2>2. Cardinality(Small) <= Cardinality(all) /\ Cardinality(all) \in Nat
    BY <1>13, <2>1, FS_Subset, FS_CardinalityType
  <2> QED BY <1>7, <1>13, <2>2, FiniteHolders, HwStreamAssumption
<1> QED BY <1>14 DEF a, q, w, p

\* The receiver always has its share of buffers: one comes back for each that
\* goes.
ShareOfPipe == Len(pending) = TargetPending

\* The count of buffers holds at the start.
LEMMA ShareInit == Init => ShareOfPipe
BY HwStreamAssumption DEF Init, ShareOfPipe

\* Every handler keeps the count.
LEMMA ShareNext == TypeOK /\ ShareOfPipe /\ [Next]_vars => ShareOfPipe'
<1> SUFFICES ASSUME TypeOK, ShareOfPipe, [Next]_vars PROVE ShareOfPipe'
  OBVIOUS
<1>1. ASSUME NEW e, pending # <<>>, pending' = Append(Tail(pending), e)
      PROVE  Len(pending') = Len(pending)
  BY <1>1 DEF TypeOK
<1>2. CASE DropBuffer \/ StartProcessing
  BY <1>1, <1>2 DEF DropBuffer, StartProcessing, ShareOfPipe
<1>3. CASE pending' = pending
  BY <1>3 DEF ShareOfPipe
<1> QED BY <1>2, <1>3 DEF Next, ExhaustPool, FftDone, MipmapDone, SpectrumMipmapDone,
           Open, HandleStart, HandleStop, Close, vars

\* What a pool that runs empty says about the pins.
LEMMA EmptyPool ==
  ASSUME IInv, ShareOfPipe, RoomForProc, Len(availBig) < 3 \/ availSmall = <<>>,
         NBig - 3 * (RingSize + MaxProcs) >= 0,
         NSmall - (1 + TargetPending + RingSize + MaxProcs) >= 0
  PROVE  \/ 3 * Cardinality(Pinned) > NBig - 3 * (RingSize + MaxProcs)
         \/ Cardinality(Pinned) > NSmall - (1 + TargetPending + RingSize + MaxProcs)
<1> DEFINE w == Cardinality(LiveProcs)
           p == Cardinality(Pinned)
           n == Len(availBig)
<1>1. w \in Nat /\ p \in Nat /\ n \in Nat
  BY FiniteHolders DEF IInv, TypeOK
<1>2. w < MaxProcs
  BY DEF RoomForProc
<1>3. NBig <= n + 3 * w + 3 * RingSize + 3 * p
  BY BigBound
<1>4. NSmall <= Len(availSmall) + TargetPending + 1 + w + RingSize + p
  BY SmallBound DEF ShareOfPipe
<1> HIDE DEF w, p, n
<1>5. CASE n < 3
  BY <1>1, <1>2, <1>3, <1>5, HwStreamAssumption DEF p
<1>6. CASE availSmall = <<>>
  <2>1. Len(availSmall) = 0
    BY <1>6
  <2> QED BY <1>1, <1>2, <1>4, <2>1, HwStreamAssumption DEF p
<1> QED BY <1>5, <1>6 DEF n

\* BufferPool::get throws in the hardware thread only if the clients have pinned
\* more chunks than the pools hold beside what the pipeline can have in flight,
\* for every size of the pools, the ring and the receive queue: no order of
\* captures, completions, pins and releases loses a buffer on the way.
THEOREM OnlyPinsExhaustHolds == Spec => []OnlyPinsExhaust
<1>1. Init => OnlyPinsExhaust
  BY DEF Init, OnlyPinsExhaust
<1>2. IInv /\ ShareOfPipe /\ OnlyPinsExhaust /\ [Next]_vars => OnlyPinsExhaust'
  <2> SUFFICES ASSUME IInv, ShareOfPipe, OnlyPinsExhaust, [Next]_vars
               PROVE  OnlyPinsExhaust'
    OBVIOUS
  <2>1. CASE ExhaustPool
    <3>1. \/ 3 * Cardinality(Pinned) > NBig - 3 * (RingSize + MaxProcs)
          \/ Cardinality(Pinned) > NSmall - (1 + TargetPending + RingSize + MaxProcs)
          \/ ~(NBig - 3 * (RingSize + MaxProcs) >= 0)
          \/ ~(NSmall - (1 + TargetPending + RingSize + MaxProcs) >= 0)
      BY <2>1, EmptyPool DEF ExhaustPool
    <3>2. reserved' = reserved
      BY <2>1 DEF ExhaustPool
    <3> QED BY <3>1, <3>2 DEF OnlyPinsExhaust, Pinned
  <2>2. CASE UNCHANGED vars
    BY <2>2 DEF vars, OnlyPinsExhaust
  <2>3. CASE ~failed'
    BY <2>3 DEF OnlyPinsExhaust
  <2> QED BY <2>1, <2>2, <2>3 DEF Next, DropBuffer, StartProcessing, FftDone, MipmapDone,
             SpectrumMipmapDone, Open, HandleStart, HandleStop, Close
<1>3. Spec => []ShareOfPipe
  BY ShareInit, ShareNext, TypeCorrect, PTL DEF Spec
<1> QED BY <1>1, <1>2, <1>3, InvariantHolds, PTL DEF Spec
=============================================================================
