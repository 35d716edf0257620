--------------------------- MODULE HwStreamProofs ---------------------------
(***************************************************************************)
(* The inductive invariant of HwStream, for every number of buffers,       *)
(* clients, ring slots and processors in flight.                           *)
(***************************************************************************)
EXTENDS HwStream, SequencesExt, TLAPS

-----------------------------------------------------------------------------
(* Sequences used as stacks and queues.                                    *)

\* Pushing adds one element, and keeps the stack free of duplicates when the
\* element was not there (BufferPool::put).
LEMMA PushFacts ==
  ASSUME NEW S, NEW s \in Seq(S), NEW e \in S
  PROVE  /\ Append(s, e) \in Seq(S)
         /\ ToSet(Append(s, e)) = ToSet(s) \cup {e}
         /\ IsInjective(s) /\ e \notin ToSet(s) => IsInjective(Append(s, e))
<1>1. /\ Append(s, e) \in Seq(S)
      /\ Len(Append(s, e)) = Len(s) + 1
      /\ \A i \in 1 .. Len(s) : Append(s, e)[i] = s[i]
      /\ Append(s, e)[Len(s) + 1] = e
  OBVIOUS
<1>2. Len(s) \in Nat /\ DOMAIN s = 1 .. Len(s)
  OBVIOUS
<1>3. DOMAIN Append(s, e) = 1 .. Len(s) + 1
  OBVIOUS
<1>4. ToSet(Append(s, e)) = ToSet(s) \cup {e}
  <2>1. ToSet(Append(s, e)) \subseteq ToSet(s) \cup {e}
    BY <1>1, <1>2, <1>3 DEF ToSet
  <2>2. \A x \in ToSet(s) : x \in ToSet(Append(s, e))
    <3>1. SUFFICES ASSUME NEW i \in DOMAIN s
                   PROVE  s[i] \in ToSet(Append(s, e))
      BY DEF ToSet
    <3>2. i \in DOMAIN Append(s, e) /\ Append(s, e)[i] = s[i]
      BY <1>1, <1>2, <1>3
    <3> QED BY <3>2 DEF ToSet
  <2>3. e \in ToSet(Append(s, e))
    <3>1. Len(s) + 1 \in DOMAIN Append(s, e)
      BY <1>2, <1>3
    <3> QED BY <3>1, <1>1 DEF ToSet
  <2> QED BY <2>1, <2>2, <2>3
<1>5. ASSUME IsInjective(s), e \notin ToSet(s)
      PROVE  IsInjective(Append(s, e))
  BY <1>1, <1>2, <1>3, <1>5 DEF IsInjective, ToSet
<1> QED BY <1>1, <1>4, <1>5

\* Popping removes the top and nothing else (BufferPool::get).
LEMMA PopFacts ==
  ASSUME NEW S, NEW s \in Seq(S), s # <<>>
  PROVE  /\ Front(s) \in Seq(S)
         /\ Len(Front(s)) = Len(s) - 1
         /\ Last(s) \in S
         /\ Last(s) \in ToSet(s)
         /\ IsInjective(s) => /\ IsInjective(Front(s))
                           /\ ToSet(Front(s)) = ToSet(s) \ {Last(s)}
<1> DEFINE n == Len(s)
<1>1. n \in Nat /\ n >= 1 /\ DOMAIN s = 1 .. n /\ \A i \in 1 .. n : s[i] \in S
  OBVIOUS
<1>2. /\ Front(s) \in Seq(S)
      /\ Len(Front(s)) = n - 1
      /\ DOMAIN Front(s) = 1 .. n - 1
      /\ \A i \in 1 .. n - 1 : Front(s)[i] = s[i]
  BY <1>1 DEF Front
<1>3. Last(s) \in S /\ Last(s) \in ToSet(s)
  BY <1>1 DEF Last, ToSet
<1>4. ASSUME IsInjective(s)
      PROVE  IsInjective(Front(s)) /\ ToSet(Front(s)) = ToSet(s) \ {Last(s)}
  <2>1. IsInjective(Front(s))
    BY <1>1, <1>2, <1>4 DEF IsInjective
  <2>2. ToSet(Front(s)) \subseteq ToSet(s) \ {Last(s)}
    BY <1>1, <1>2, <1>4 DEF IsInjective, ToSet, Last
  <2>3. ASSUME NEW x \in ToSet(s), x # Last(s)
        PROVE  x \in ToSet(Front(s))
    <3>1. PICK i \in DOMAIN s : s[i] = x
      BY DEF ToSet
    <3>2. i \in 1 .. n - 1
      BY <1>1, <2>3, <3>1 DEF Last
    <3> QED BY <1>2, <3>1, <3>2 DEF ToSet
  <2> QED BY <2>1, <2>2, <2>3
<1> QED BY <1>2, <1>3, <1>4

\* What is pushed last is popped first.
LEMMA PushPop ==
  ASSUME NEW S, NEW s \in Seq(S), NEW e \in S
  PROVE  Last(Append(s, e)) = e /\ Front(Append(s, e)) = s
BY DEF Last, Front

\* Taking the oldest element of a queue removes that element alone.
LEMMA TailFacts ==
  ASSUME NEW S, NEW s \in Seq(S), s # <<>>
  PROVE  /\ Tail(s) \in Seq(S)
         /\ Head(s) \in S
         /\ Head(s) \in ToSet(s)
         /\ IsInjective(s) => /\ IsInjective(Tail(s))
                           /\ ToSet(Tail(s)) = ToSet(s) \ {Head(s)}
<1> DEFINE n == Len(s)
<1>1. n \in Nat /\ n >= 1 /\ DOMAIN s = 1 .. n /\ \A i \in 1 .. n : s[i] \in S
  OBVIOUS
<1>2. /\ Tail(s) \in Seq(S)
      /\ DOMAIN Tail(s) = 1 .. n - 1
      /\ \A i \in 1 .. n - 1 : Tail(s)[i] = s[i + 1]
  BY <1>1
<1>3. Head(s) = s[1] /\ Head(s) \in S /\ Head(s) \in ToSet(s)
  BY <1>1 DEF ToSet
<1>4. ASSUME IsInjective(s)
      PROVE  IsInjective(Tail(s)) /\ ToSet(Tail(s)) = ToSet(s) \ {Head(s)}
  <2>1. IsInjective(Tail(s))
    BY <1>1, <1>2, <1>4 DEF IsInjective
  <2>2. ToSet(Tail(s)) \subseteq ToSet(s) \ {Head(s)}
    BY <1>1, <1>2, <1>3, <1>4 DEF IsInjective, ToSet
  <2>3. ASSUME NEW x \in ToSet(s), x # Head(s)
        PROVE  x \in ToSet(Tail(s))
    <3>1. PICK i \in DOMAIN s : s[i] = x
      BY DEF ToSet
    <3>2. i - 1 \in 1 .. n - 1 /\ Tail(s)[i - 1] = s[i]
      BY <1>1, <1>2, <1>3, <2>3, <3>1
    <3> QED BY <1>2, <3>1, <3>2 DEF ToSet
  <2> QED BY <2>1, <2>2, <2>3
<1> QED BY <1>2, <1>3, <1>4

\* The places of a queue after one more element, and after the oldest is gone.
LEMMA AppendPlaces ==
  ASSUME NEW S, NEW s \in Seq(S), NEW e \in S
  PROVE  /\ Len(s) \in Nat
         /\ DOMAIN s = 1 .. Len(s)
         /\ DOMAIN Append(s, e) = 1 .. Len(s) + 1
         /\ \A i \in 1 .. Len(s) : Append(s, e)[i] = s[i]
         /\ Append(s, e)[Len(s) + 1] = e
OBVIOUS

\* The places of a queue without its head.
LEMMA TailPlaces ==
  ASSUME NEW S, NEW s \in Seq(S), s # <<>>
  PROVE  /\ Len(s) \in Nat /\ Len(s) >= 1
         /\ DOMAIN s = 1 .. Len(s)
         /\ Head(s) = s[1]
         /\ DOMAIN Tail(s) = 1 .. Len(s) - 1
         /\ \A i \in 1 .. Len(s) - 1 : Tail(s)[i] = s[i + 1]
OBVIOUS

\* The oldest element of a queue goes to its end and another takes no part.
LEMMA RequeueFacts ==
  ASSUME NEW S, NEW s \in Seq(S), s # <<>>, IsInjective(s),
         NEW e \in S, e \notin ToSet(s) \/ e = Head(s)
  PROVE  /\ Append(Tail(s), e) \in Seq(S)
         /\ ToSet(Append(Tail(s), e)) = (ToSet(s) \ {Head(s)}) \cup {e}
         /\ IsInjective(Append(Tail(s), e))
<1> DEFINE t == Tail(s)
           h == Head(s)
<1>1. t \in Seq(S) /\ h \in ToSet(s) /\ IsInjective(t) /\ ToSet(t) = ToSet(s) \ {h}
  BY TailFacts
<1> HIDE DEF t, h
<1>2. e \notin ToSet(t)
  BY <1>1 DEF h
<1>3. /\ Append(t, e) \in Seq(S)
      /\ ToSet(Append(t, e)) = ToSet(t) \cup {e}
      /\ IsInjective(Append(t, e))
  BY <1>1, <1>2, PushFacts
<1> QED BY <1>1, <1>3 DEF t, h

-----------------------------------------------------------------------------
(* Numbers and pools.                                                      *)

\* Big and small buffers are apart, and no number of a buffer is the null pointer.
LEMMA BufferFacts ==
  /\ Null \notin Big
  /\ Null \notin Small
  /\ Big \cap Small = {}
  /\ Big \subseteq Buffers
  /\ Small \subseteq Buffers
  /\ TestBuffer \in Small
BY HwStreamAssumption DEF Null, Big, Small, Buffers, TestBuffer

\* An empty chunk owns nothing.
LEMMA NoChunkFacts == NoChunk \in Chunk /\ BuffersOf(NoChunk) = {}
BY DEF NoChunk, Chunk, BuffersOf, BigOf, Null

\* The next slot of the ring is a slot.
LEMMA SlotFacts ==
  ASSUME TypeOK
  PROVE  NextSlot \in Slots
BY HwStreamAssumption DEF TypeOK, NextSlot, Slots

\* The count of captures stays an int, at the wrap too.
LEMMA CounterFacts ==
  ASSUME TypeOK
  PROVE  NextTotal \in IntMin .. IntMax
BY HwStreamAssumption DEF TypeOK, NextTotal, Wrap, IntMin

\* put of one pointer of a chunk.
LEMMA PutFacts ==
  ASSUME NEW S, NEW s \in Seq(S), NEW b \in S \cup {Null}, Null \notin S
  PROVE  /\ PutUnlessNull(s, b) \in Seq(S)
         /\ ToSet(PutUnlessNull(s, b)) = ToSet(s) \cup ({b} \ {Null})
         /\ IsInjective(s) /\ b \notin ToSet(s) => IsInjective(PutUnlessNull(s, b))
<1>1. CASE b = Null
  BY <1>1 DEF PutUnlessNull
<1>2. CASE b # Null
  BY <1>2, PushFacts DEF PutUnlessNull
<1> QED BY <1>1, <1>2

\* freeChunk puts back what the chunk has, and no buffer twice.
LEMMA FreeFacts ==
  ASSUME NEW s \in Seq(Big), NEW t \in Seq(Small), NEW ch \in Chunk
  PROVE  /\ FreeBig(s, ch) \in Seq(Big)
         /\ FreeSmall(t, ch) \in Seq(Small)
         /\ ToSet(FreeBig(s, ch)) \cup ToSet(FreeSmall(t, ch))
              = ToSet(s) \cup ToSet(t) \cup BuffersOf(ch)
         /\ IsInjective(s) /\ BuffersOf(ch) \cap ToSet(s) = {} /\ DistinctFields(ch)
              => IsInjective(FreeBig(s, ch))
         /\ IsInjective(t) /\ BuffersOf(ch) \cap ToSet(t) = {}
              => IsInjective(FreeSmall(t, ch))
<1> DEFINE s1 == PutUnlessNull(s, ch.mipmap)
           s2 == PutUnlessNull(s1, ch.spectrum)
           s3 == PutUnlessNull(s2, ch.spectrumMipmap)
<1>1. /\ ch.mipmap \in Big \cup {Null}
      /\ ch.spectrum \in Big \cup {Null}
      /\ ch.spectrumMipmap \in Big \cup {Null}
      /\ ch.original \in Small \cup {Null}
  BY DEF Chunk
<1>2. /\ s1 \in Seq(Big)
      /\ ToSet(s1) = ToSet(s) \cup ({ch.mipmap} \ {Null})
      /\ IsInjective(s) /\ ch.mipmap \notin ToSet(s) => IsInjective(s1)
  BY <1>1, PutFacts, BufferFacts
<1>3. /\ s2 \in Seq(Big)
      /\ ToSet(s2) = ToSet(s1) \cup ({ch.spectrum} \ {Null})
      /\ IsInjective(s1) /\ ch.spectrum \notin ToSet(s1) => IsInjective(s2)
  <2> HIDE DEF s1
  <2> QED BY <1>1, <1>2, PutFacts, BufferFacts
<1>4. /\ s3 \in Seq(Big)
      /\ ToSet(s3) = ToSet(s2) \cup ({ch.spectrumMipmap} \ {Null})
      /\ IsInjective(s2) /\ ch.spectrumMipmap \notin ToSet(s2) => IsInjective(s3)
  <2> HIDE DEF s2
  <2> QED BY <1>1, <1>3, PutFacts, BufferFacts
<1>5. /\ FreeSmall(t, ch) \in Seq(Small)
      /\ ToSet(FreeSmall(t, ch)) = ToSet(t) \cup ({ch.original} \ {Null})
      /\ IsInjective(t) /\ ch.original \notin ToSet(t) => IsInjective(FreeSmall(t, ch))
  BY <1>1, PutFacts, BufferFacts DEF FreeSmall
<1>6. FreeBig(s, ch) = s3
  BY DEF FreeBig
<1>7. ToSet(s) \subseteq Big /\ ToSet(t) \subseteq Small
  BY DEF ToSet
<1> HIDE DEF s1, s2, s3
<1>8. ASSUME IsInjective(s), BuffersOf(ch) \cap ToSet(s) = {}, DistinctFields(ch)
      PROVE  IsInjective(s3)
  <2>1. IsInjective(s1) \/ ch.mipmap = Null
    BY <1>2, <1>8 DEF BuffersOf, BigOf
  <2>2. IsInjective(s1)
    BY <1>2, <1>7, <1>8, BufferFacts, <2>1
  <2>3. ch.spectrum \notin ToSet(s1)
    BY <1>2, <1>7, <1>8, BufferFacts DEF BuffersOf, BigOf, DistinctFields
  <2>4. ch.spectrumMipmap \notin ToSet(s2)
    BY <1>2, <1>3, <1>7, <1>8, BufferFacts DEF BuffersOf, BigOf, DistinctFields
  <2> QED BY <1>3, <1>4, <2>2, <2>3, <2>4
<1>9. ASSUME IsInjective(t), BuffersOf(ch) \cap ToSet(t) = {}
      PROVE  IsInjective(FreeSmall(t, ch))
  BY <1>5, <1>7, <1>9, BufferFacts DEF BuffersOf
<1> QED BY <1>2, <1>3, <1>4, <1>5, <1>6, <1>8, <1>9 DEF BuffersOf, BigOf

-----------------------------------------------------------------------------
(* Type correctness.                                                       *)

\* freeChunk keeps the types of the pools.
LEMMA FreedType ==
  ASSUME TypeOK, NEW ch \in Chunk
  PROVE  FreeBig(availBig, ch) \in Seq(Big) /\ FreeSmall(availSmall, ch) \in Seq(Small)
BY FreeFacts DEF TypeOK

\* The types hold after the constructor.
LEMMA InitType == Init => TypeOK
<1> SUFFICES ASSUME Init PROVE TypeOK
  OBVIOUS
<1>1. availBig \in Seq(Big)
  BY HwStreamAssumption DEF Init, Big
<1>2. availSmall \in Seq(Small)
  BY HwStreamAssumption DEF Init, Small
<1>3. pending \in Seq(Small)
  BY HwStreamAssumption DEF Init, Small, TestBuffer
<1>4. total \in IntMin .. IntMax
  BY HwStreamAssumption DEF Init, IntMin
<1>5. proc \in [Small -> Chunk] /\ reserved \in [Clients -> Chunk]
      /\ chunks \in [Slots -> Chunk]
  BY NoChunkFacts DEF Init
<1>6. currChunk \in Slots
  BY HwStreamAssumption DEF Init, Slots
<1>7. fftQ \in Seq(FftJob) /\ mipQ \in Seq(MipJob)
  BY DEF Init
<1> QED BY <1>1, <1>2, <1>3, <1>4, <1>5, <1>6, <1>7 DEF Init, TypeOK

\* ... after a capture that is dropped for want of big buffers,
LEMMA DropType == TypeOK /\ DropBuffer => TypeOK'
<1> SUFFICES ASSUME TypeOK, DropBuffer PROVE TypeOK'
  OBVIOUS
<1>1. /\ Head(pending) \in Small
      /\ Tail(pending) \in Seq(Small)
  BY TailFacts DEF TypeOK, DropBuffer
<1>2. availSmall' = availSmall /\ pending' = Append(Tail(pending), Head(pending))
  BY <1>1, PushPop DEF TypeOK, DropBuffer
<1>3. pending' \in Seq(Small)
  BY <1>1, <1>2, PushFacts
<1>4. total' \in IntMin .. IntMax
  BY CounterFacts DEF DropBuffer
<1> QED BY <1>2, <1>3, <1>4 DEF TypeOK, DropBuffer

\* The buffers that a new processor gets, and what is left.
LEMMA StartFacts ==
  ASSUME TypeOK, StartProcessing
  PROVE  LET n == Len(availBig) IN
         /\ n \in Nat /\ n >= 3
         /\ DOMAIN availBig = 1 .. n
         /\ \A i \in 1 .. n : availBig[i] \in Big
         /\ Head(pending) \in Small
         /\ Tail(pending) \in Seq(Small)
         /\ Last(availSmall) \in Small
         /\ availBig' \in Seq(Big)
         /\ DOMAIN availBig' = 1 .. n - 3
         /\ \A i \in 1 .. n - 3 : availBig'[i] = availBig[i]
         /\ availSmall' \in Seq(Small)
         /\ pending' \in Seq(Small)
<1> DEFINE n == Len(availBig)
<1>1. /\ n \in Nat /\ n >= 3
      /\ DOMAIN availBig = 1 .. n
      /\ \A i \in 1 .. n : availBig[i] \in Big
  BY DEF TypeOK, StartProcessing
<1>2. Head(pending) \in Small /\ Tail(pending) \in Seq(Small)
  BY TailFacts DEF TypeOK, StartProcessing
<1>3. Last(availSmall) \in Small /\ Front(availSmall) \in Seq(Small)
  BY PopFacts DEF TypeOK, StartProcessing
<1>4. availBig' = SubSeq(availBig, 1, n - 3)
  BY DEF StartProcessing
<1>5. /\ availBig' \in Seq(Big)
      /\ DOMAIN availBig' = 1 .. n - 3
      /\ \A i \in 1 .. n - 3 : availBig'[i] = availBig[i]
  BY <1>1, <1>4 DEF TypeOK
<1>6. pending' \in Seq(Small) /\ availSmall' \in Seq(Small)
  BY <1>2, <1>3, PushFacts DEF StartProcessing
<1> QED BY <1>1, <1>2, <1>3, <1>5, <1>6

\* ... after a capture that starts a processor,
LEMMA StartType == TypeOK /\ StartProcessing => TypeOK'
<1> SUFFICES ASSUME TypeOK, StartProcessing PROVE TypeOK'
  OBVIOUS
<1> DEFINE n == Len(availBig)
           buf == Head(pending)
<1>1. /\ n \in Nat /\ n >= 3
      /\ availBig[n] \in Big /\ availBig[n - 1] \in Big /\ availBig[n - 2] \in Big
      /\ buf \in Small
      /\ availBig' \in Seq(Big) /\ availSmall' \in Seq(Small) /\ pending' \in Seq(Small)
  BY StartFacts
<1>2. [NoChunk EXCEPT !.original = buf, !.spectrum = availBig[n]] \in Chunk
  BY <1>1 DEF NoChunk, Chunk
<1>3. proc' \in [Small -> Chunk]
  BY <1>2 DEF TypeOK, StartProcessing
<1>4. [of |-> buf, dst |-> availBig[n], scratch |-> availBig[n - 1]] \in FftJob
  BY <1>1 DEF FftJob
<1>5. [of |-> buf, kind |-> "mipmap", dst |-> availBig[n - 2]] \in MipJob
  BY <1>1 DEF MipJob
<1>6. fftQ' \in Seq(FftJob)
  BY <1>4, PushFacts DEF TypeOK, StartProcessing
<1>7. mipQ' \in Seq(MipJob)
  BY <1>5, PushFacts DEF TypeOK, StartProcessing
<1>8. total' \in IntMin .. IntMax
  BY CounterFacts DEF StartProcessing
<1> QED BY <1>1, <1>3, <1>6, <1>7, <1>8 DEF TypeOK, StartProcessing

\* The scratch buffer that FftDone puts back is the one computeFFTMipmap gets.
LEMMA FftFacts ==
  ASSUME TypeOK, FftDone
  PROVE  /\ Head(fftQ) \in FftJob
         /\ Tail(fftQ) \in Seq(FftJob)
         /\ availBig' = availBig
         /\ [of |-> Head(fftQ).of, kind |-> "spectrumMipmap",
             dst |-> Head(fftQ).scratch] \in MipJob
         /\ mipQ' = Append(mipQ, [of |-> Head(fftQ).of, kind |-> "spectrumMipmap",
                                  dst |-> Head(fftQ).scratch])
<1>1. Head(fftQ) \in FftJob /\ Tail(fftQ) \in Seq(FftJob)
  BY TailFacts DEF TypeOK, FftDone
<1>2. Head(fftQ).of \in Small /\ Head(fftQ).scratch \in Big
  BY <1>1 DEF FftJob
<1>3. /\ Last(Append(availBig, Head(fftQ).scratch)) = Head(fftQ).scratch
      /\ Front(Append(availBig, Head(fftQ).scratch)) = availBig
  BY <1>2, PushPop DEF TypeOK
<1> QED BY <1>1, <1>2, <1>3 DEF FftDone, MipJob

\* ... after a transform,
LEMMA FftType == TypeOK /\ FftDone => TypeOK'
<1> SUFFICES ASSUME TypeOK, FftDone PROVE TypeOK'
  OBVIOUS
<1> DEFINE job == [of |-> Head(fftQ).of, kind |-> "spectrumMipmap",
                   dst |-> Head(fftQ).scratch]
<1>0. job \in MipJob /\ mipQ' = Append(mipQ, job) /\ mipQ \in Seq(MipJob)
  BY FftFacts DEF TypeOK
<1> HIDE DEF job
<1>1. mipQ' \in Seq(MipJob)
  BY <1>0, PushFacts
<1> QED BY <1>1, FftFacts DEF TypeOK, FftDone

\* ... after checkDone, whether it publishes or keeps waiting,
LEMMA CheckDoneType ==
  ASSUME TypeOK, NEW o \in Small, NEW ch \in Chunk, CheckDone(o, ch)
  PROVE  /\ availBig' \in Seq(Big)
         /\ availSmall' \in Seq(Small)
         /\ proc' \in [Small -> Chunk]
         /\ chunks' \in [Slots -> Chunk]
         /\ currChunk' \in Slots
<1>1. CASE KeepWaiting(o, ch)
  BY <1>1 DEF KeepWaiting, TypeOK
<1>2. CASE Publish(o, ch)
  <2>1. chunks[NextSlot] \in Chunk /\ NextSlot \in Slots
    BY SlotFacts DEF TypeOK
  <2>2. availBig' \in Seq(Big) /\ availSmall' \in Seq(Small)
    BY <1>2, <2>1, FreedType DEF Publish, TypeOK
  <2> QED BY <1>2, <2>1, <2>2, NoChunkFacts DEF Publish, TypeOK
<1> QED BY <1>1, <1>2 DEF CheckDone

\* The chunk that a finished reduction leaves in its processor.
MipmapResult   == [proc[Head(mipQ).of] EXCEPT !.mipmap = Head(mipQ).dst]
SpectrumResult == [proc[Head(mipQ).of] EXCEPT !.spectrumMipmap = Head(mipQ).dst]

\* The job of the mipmap pipe and the chunk with its result are well typed.
LEMMA MipFacts ==
  ASSUME TypeOK, mipQ # <<>>
  PROVE  /\ Head(mipQ) \in MipJob
         /\ Head(mipQ).of \in Small
         /\ Head(mipQ).dst \in Big
         /\ Tail(mipQ) \in Seq(MipJob)
         /\ MipmapResult \in Chunk
         /\ SpectrumResult \in Chunk
<1>1. Head(mipQ) \in MipJob /\ Tail(mipQ) \in Seq(MipJob)
  BY TailFacts DEF TypeOK
<1>2. Head(mipQ).of \in Small /\ Head(mipQ).dst \in Big
  BY <1>1 DEF MipJob
<1>3. proc[Head(mipQ).of] \in Chunk
  BY <1>2 DEF TypeOK
<1> QED BY <1>1, <1>2, <1>3 DEF MipmapResult, SpectrumResult, Chunk

\* The types hold after a reduction,
LEMMA MipType == TypeOK /\ MipDone => TypeOK'
<1>1. ASSUME TypeOK, MipmapDone PROVE TypeOK'
  <2>1. CheckDone(Head(mipQ).of, MipmapResult) /\ mipQ # <<>>
    BY <1>1 DEF MipmapDone, MipmapResult
  <2> QED BY <1>1, <2>1, MipFacts, CheckDoneType DEF MipmapDone, TypeOK
<1>2. ASSUME TypeOK, SpectrumMipmapDone PROVE TypeOK'
  <2>1. CheckDone(Head(mipQ).of, SpectrumResult) /\ mipQ # <<>>
    BY <1>2 DEF SpectrumMipmapDone, SpectrumResult
  <2> QED BY <1>2, <2>1, MipFacts, CheckDoneType DEF SpectrumMipmapDone, TypeOK
<1> QED BY <1>1, <1>2 DEF MipDone

\* A client that gives its chunk back keeps the types of the pools.
LEMMA UnreserveType ==
  ASSUME TypeOK, NEW c \in Clients, Unreserve(c)
  PROVE  availBig' \in Seq(Big) /\ availSmall' \in Seq(Small)
BY FreedType DEF TypeOK, Unreserve

\* The types hold after what a client does,
LEMMA ClientType ==
  ASSUME TypeOK, NEW c \in Clients,
         Open(c) \/ HandleStart(c) \/ HandleStop(c) \/ Close(c)
  PROVE  TypeOK'
<1>1. CASE Open(c)
  BY <1>1 DEF Open, TypeOK
<1>2. CASE HandleStart(c)
  BY <1>2, UnreserveType, NoChunkFacts DEF HandleStart, TypeOK
<1>3. CASE HandleStop(c)
  <2> DEFINE pinned == [chunks[currChunk] EXCEPT !.noFree = TRUE]
  <2>1. pinned \in Chunk
    BY DEF TypeOK, Chunk
  <2>2. reserved' \in [Clients -> Chunk] /\ chunks' \in [Slots -> Chunk]
    BY <1>3, <2>1, NoChunkFacts DEF HandleStop, TypeOK
  <2> QED BY <1>3, <2>2, UnreserveType DEF HandleStop, TypeOK
<1>4. CASE Close(c)
  BY <1>4, UnreserveType, NoChunkFacts DEF Close, TypeOK
<1> QED BY <1>1, <1>2, <1>3, <1>4

\* ... and so after every step.
LEMMA NextType == TypeOK /\ [Next]_vars => TypeOK'
<1> SUFFICES ASSUME TypeOK, [Next]_vars PROVE TypeOK'
  OBVIOUS
<1>1. CASE DropBuffer
  BY <1>1, DropType
<1>2. CASE StartProcessing
  BY <1>2, StartType
<1>3. CASE ExhaustPool
  BY <1>3 DEF ExhaustPool, TypeOK
<1>4. CASE FftDone
  BY <1>4, FftType
<1>5. CASE MipDone
  BY <1>5, MipType
<1>6. CASE \E c \in Clients : Open(c) \/ HandleStart(c) \/ HandleStop(c) \/ Close(c)
  BY <1>6, ClientType
<1>7. CASE UNCHANGED vars
  BY <1>7 DEF vars, TypeOK
<1> QED BY <1>1, <1>2, <1>3, <1>4, <1>5, <1>6, <1>7 DEF Next, MipDone

\* Every pointer, queue and index of the pipeline keeps its type: small buffers
\* are only ever captured into, big ones only hold results.
THEOREM TypeCorrect == Spec => []TypeOK
BY InitType, NextType, PTL DEF Spec

-----------------------------------------------------------------------------
(* Who holds what.                                                         *)

PoolH == <<"pool", 0>>
RecvH == <<"recv", 0>>
TestH == <<"test", 0>>
FftH  == <<"fft", 0>>
MipH  == <<"mip", 0>>
ProcH(o)   == <<"proc", o>>
SlotH(i)   == <<"slot", i>>
ClientH(c) == <<"client", c>>

Scratches    == {fftQ[i].scratch : i \in DOMAIN fftQ}
Destinations == {mipQ[i].dst : i \in DOMAIN mipQ}

\* The buffers the ring slot i answers for.
SlotBuffers(i) == IF chunks[i].noFree THEN {} ELSE BuffersOf(chunks[i])

\* A holder is the pools, a pipe, the test buffer, a processor, a slot or a client.
LEMMA HolderCases ==
  /\ \A h \in Holders : \/ h \in {PoolH, RecvH, TestH, FftH, MipH}
                        \/ \E o \in Small : h = ProcH(o)
                        \/ \E i \in Slots : h = SlotH(i)
                        \/ \E c \in Clients : h = ClientH(c)
  /\ {PoolH, RecvH, TestH, FftH, MipH} \subseteq Holders
  /\ \A o \in Small : ProcH(o) \in Holders
  /\ \A i \in Slots : SlotH(i) \in Holders
  /\ \A c \in Clients : ClientH(c) \in Holders
BY DEF Holders, PoolH, RecvH, TestH, FftH, MipH, ProcH, SlotH, ClientH

\* Holders of different kinds, or with different indices, are different.
LEMMA HolderKinds ==
  /\ \A i : SlotH(i) \notin {PoolH, RecvH, TestH, FftH, MipH}
  /\ \A o : ProcH(o) \notin {PoolH, RecvH, TestH, FftH, MipH}
  /\ \A c : ClientH(c) \notin {PoolH, RecvH, TestH, FftH, MipH}
  /\ PoolH # RecvH /\ PoolH # TestH /\ PoolH # FftH /\ PoolH # MipH
  /\ RecvH # TestH /\ RecvH # FftH /\ RecvH # MipH
  /\ TestH # FftH /\ TestH # MipH /\ FftH # MipH
  /\ \A i, o : SlotH(i) # ProcH(o)
  /\ \A i, c : SlotH(i) # ClientH(c)
  /\ \A o, c : ProcH(o) # ClientH(c)
  /\ \A i, j : SlotH(i) = SlotH(j) => i = j
  /\ \A i, j : ProcH(i) = ProcH(j) => i = j
  /\ \A i, j : ClientH(i) = ClientH(j) => i = j
BY DEF PoolH, RecvH, TestH, FftH, MipH, ProcH, SlotH, ClientH

\* What each holder holds.
LEMMA HeldValues ==
  /\ Held[PoolH] = ToSet(availBig) \cup ToSet(availSmall)
  /\ Held[RecvH] = ToSet(pending)
  /\ Held[TestH] = {TestBuffer}
  /\ Held[FftH] = Scratches
  /\ Held[MipH] = Destinations
  /\ \A o \in Small : Held[ProcH(o)] = BuffersOf(proc[o])
  /\ \A i \in Slots : Held[SlotH(i)] = SlotBuffers(i)
  /\ \A c \in Clients : Held[ClientH(c)] = BuffersOf(reserved[c])
BY HolderCases DEF Held, HeldBy, PoolH, RecvH, TestH, FftH, MipH, ProcH, SlotH,
   ClientH, Scratches, Destinations, SlotBuffers

\* ... and after the step.
LEMMA HeldValuesNext ==
  /\ Held'[PoolH] = ToSet(availBig') \cup ToSet(availSmall')
  /\ Held'[RecvH] = ToSet(pending')
  /\ Held'[TestH] = {TestBuffer}
  /\ Held'[FftH] = Scratches'
  /\ Held'[MipH] = Destinations'
  /\ \A o \in Small : Held'[ProcH(o)] = BuffersOf(proc'[o])
  /\ \A i \in Slots : Held'[SlotH(i)] = SlotBuffers(i)'
  /\ \A c \in Clients : Held'[ClientH(c)] = BuffersOf(reserved'[c])
BY HolderCases DEF Held, HeldBy, PoolH, RecvH, TestH, FftH, MipH, ProcH, SlotH,
   ClientH, Scratches, Destinations, SlotBuffers

\* A holder whose own places are unchanged holds what it held.
LEMMA SameHolder ==
  ASSUME NEW h \in Holders,
         h = PoolH => ToSet(availBig') \cup ToSet(availSmall')
                        = ToSet(availBig) \cup ToSet(availSmall),
         h = RecvH => ToSet(pending') = ToSet(pending),
         h = FftH => Scratches' = Scratches,
         h = MipH => Destinations' = Destinations,
         \A o \in Small : h = ProcH(o) => BuffersOf(proc'[o]) = BuffersOf(proc[o]),
         \A i \in Slots : h = SlotH(i) => SlotBuffers(i)' = SlotBuffers(i),
         \A c \in Clients : h = ClientH(c) =>
            BuffersOf(reserved'[c]) = BuffersOf(reserved[c])
  PROVE  Held'[h] = Held[h]
<1>1. CASE h \in {PoolH, RecvH, TestH, FftH, MipH}
  BY <1>1, HeldValues, HeldValuesNext
<1>2. ASSUME NEW o \in Small, h = ProcH(o) PROVE Held'[h] = Held[h]
  BY <1>2, HeldValues, HeldValuesNext
<1>3. ASSUME NEW i \in Slots, h = SlotH(i) PROVE Held'[h] = Held[h]
  BY <1>3, HeldValues, HeldValuesNext
<1>4. ASSUME NEW c \in Clients, h = ClientH(c) PROVE Held'[h] = Held[h]
  BY <1>4, HeldValues, HeldValuesNext
<1> QED BY <1>1, <1>2, <1>3, <1>4, HolderCases

\* Two holders with a buffer in common are the same.
LEMMA OneHolder ==
  ASSUME SingleOwner, NEW h \in Holders, NEW k \in Holders, NEW b \in Buffers,
         b \in Held[h], b \in Held[k]
  PROVE  h = k
BY DEF SingleOwner, PartitionedBy

\* Being held once depends on what each holder holds alone.
LEMMA SameHeld ==
  ASSUME NEW f, NEW g, PartitionedBy(f), \A h \in Holders : g[h] = f[h]
  PROVE  PartitionedBy(g)
BY DEF PartitionedBy

\* The buffers in S go to the holders r says and the others stay.
LEMMA Reassign ==
  ASSUME NEW f, NEW g, PartitionedBy(f),
         NEW S, NEW r \in [S -> Holders],
         \A h \in Holders : \A b \in Buffers :
            b \in g[h] <=> IF b \in S THEN r[b] = h ELSE b \in f[h]
  PROVE  PartitionedBy(g)
<1> SUFFICES ASSUME NEW b \in Buffers
             PROVE  \E h \in Holders : \A k \in Holders : b \in g[k] <=> k = h
  BY DEF PartitionedBy
<1>1. CASE b \in S
  BY <1>1
<1>2. CASE b \notin S
  <2>1. PICK h \in Holders : \A k \in Holders : b \in f[k] <=> k = h
    BY DEF PartitionedBy
  <2> QED BY <1>2, <2>1
<1> QED BY <1>1, <1>2

\* Whatever is held is a buffer.
LEMMA HeldAreBuffers ==
  ASSUME TypeOK
  PROVE  /\ ToSet(availBig) \subseteq Big
         /\ ToSet(availSmall) \subseteq Small
         /\ ToSet(pending) \subseteq Small
         /\ Scratches \subseteq Big
         /\ Destinations \subseteq Big
         /\ \A ch \in Chunk : BuffersOf(ch) \subseteq Buffers
<1>1. /\ ToSet(availBig) \subseteq Big
      /\ ToSet(availSmall) \subseteq Small
      /\ ToSet(pending) \subseteq Small
  BY DEF TypeOK, ToSet
<1>2. \A i \in DOMAIN fftQ : fftQ[i] \in FftJob
  BY DEF TypeOK
<1>3. \A i \in DOMAIN mipQ : mipQ[i] \in MipJob
  BY DEF TypeOK
<1>4. \A ch \in Chunk : BuffersOf(ch) \subseteq Buffers
  BY DEF Chunk, BuffersOf, BigOf, Buffers
<1> QED BY <1>1, <1>2, <1>3, <1>4 DEF Scratches, Destinations, FftJob, MipJob

-----------------------------------------------------------------------------
(* The initial state.                                                      *)

\* The constructor puts every buffer in the pools or under a capture.
LEMMA InitQueues ==
  ASSUME Init
  PROVE  /\ ToSet(availBig) = Big
         /\ ToSet(availSmall) = TestBuffer + TargetPending + 1 .. NBig + NSmall
         /\ ToSet(pending) = TestBuffer + 1 .. TestBuffer + TargetPending
         /\ IsInjective(availBig) /\ IsInjective(availSmall) /\ IsInjective(pending)
<1>1. ToSet(availBig) = Big
  <2>1. ASSUME NEW b \in Big
        PROVE  NBig + 1 - b \in 1 .. NBig /\ NBig + 1 - (NBig + 1 - b) = b
    BY HwStreamAssumption DEF Big
  <2>2. availBig = [i \in 1 .. NBig |-> NBig + 1 - i]
    BY DEF Init
  <2>3. \A b \in Big : b \in ToSet(availBig)
    BY <2>1, <2>2 DEF ToSet
  <2>4. \A b \in ToSet(availBig) : b \in Big
    BY <2>2, HwStreamAssumption DEF ToSet, Big
  <2> QED BY <2>3, <2>4
<1>2. ToSet(availSmall) = TestBuffer + TargetPending + 1 .. NBig + NSmall
  <2> DEFINE R == TestBuffer + TargetPending + 1 .. NBig + NSmall
             K == NSmall - 1 - TargetPending
  <2>1. availSmall = [i \in 1 .. K |-> NBig + NSmall + 1 - i]
    BY DEF Init
  <2>2. ASSUME NEW b \in R
        PROVE  /\ NBig + NSmall + 1 - b \in 1 .. K
               /\ NBig + NSmall + 1 - (NBig + NSmall + 1 - b) = b
    BY HwStreamAssumption DEF TestBuffer
  <2>3. \A b \in R : b \in ToSet(availSmall)
    BY <2>1, <2>2 DEF ToSet
  <2>4. \A b \in ToSet(availSmall) : b \in R
    BY <2>1, HwStreamAssumption DEF ToSet, TestBuffer
  <2> QED BY <2>3, <2>4
<1>3. ToSet(pending) = TestBuffer + 1 .. TestBuffer + TargetPending
  <2> DEFINE R == TestBuffer + 1 .. TestBuffer + TargetPending
  <2>1. pending = [i \in 1 .. TargetPending |-> TestBuffer + i]
    BY DEF Init
  <2>2. ASSUME NEW b \in R
        PROVE  b - TestBuffer \in 1 .. TargetPending /\ TestBuffer + (b - TestBuffer) = b
    BY HwStreamAssumption DEF TestBuffer
  <2>3. \A b \in R : b \in ToSet(pending)
    BY <2>1, <2>2 DEF ToSet
  <2>4. \A b \in ToSet(pending) : b \in R
    BY <2>1, HwStreamAssumption DEF ToSet, TestBuffer
  <2> QED BY <2>3, <2>4
<1>4. IsInjective(availBig) /\ IsInjective(availSmall) /\ IsInjective(pending)
  BY HwStreamAssumption DEF Init, IsInjective, TestBuffer
<1> QED BY <1>1, <1>2, <1>3, <1>4

\* The invariant holds after the constructor.
LEMMA InitInv == Init => IInv
<1> SUFFICES ASSUME Init PROVE IInv
  OBVIOUS
<1>1. TypeOK
  BY InitType
<1>2. SingleOwner
  <2>1. /\ Held[PoolH] = Big \cup (TestBuffer + TargetPending + 1 .. NBig + NSmall)
        /\ Held[RecvH] = TestBuffer + 1 .. TestBuffer + TargetPending
        /\ Held[TestH] = {TestBuffer}
        /\ Held[FftH] = {}
        /\ Held[MipH] = {}
        /\ \A o \in Small : Held[ProcH(o)] = {}
        /\ \A i \in Slots : Held[SlotH(i)] = {}
        /\ \A c \in Clients : Held[ClientH(c)] = {}
    <3>1. Scratches = {} /\ Destinations = {}
      BY DEF Init, Scratches, Destinations
    <3>2. /\ \A o \in Small : BuffersOf(proc[o]) = {}
          /\ \A i \in Slots : SlotBuffers(i) = {}
          /\ \A c \in Clients : BuffersOf(reserved[c]) = {}
      BY NoChunkFacts DEF Init, SlotBuffers
    <3> QED BY <3>1, <3>2, HeldValues, InitQueues
  <2>2. \A h \in Holders : h \notin {PoolH, RecvH, TestH} => Held[h] = {}
    BY <2>1, HolderCases
  <2>3. ASSUME NEW b \in Buffers, NEW h \in {PoolH, RecvH, TestH}, b \in Held[h],
               \A k \in {PoolH, RecvH, TestH} : b \in Held[k] => k = h
        PROVE  \E g \in Holders : \A k \in Holders : b \in Held[k] <=> k = g
    BY <2>2, <2>3, HolderCases
  <2>4. ASSUME NEW b \in Buffers
        PROVE  \E h \in {PoolH, RecvH, TestH} :
                 b \in Held[h] /\ \A k \in {PoolH, RecvH, TestH} : b \in Held[k] => k = h
    <3>1. CASE b \in Held[PoolH]
      <4>1. b \notin Held[RecvH] /\ b \notin Held[TestH]
        BY <2>1, <3>1, HwStreamAssumption DEF Big, TestBuffer
      <4> QED BY <3>1, <4>1
    <3>2. CASE b \in Held[RecvH]
      <4>1. b \notin Held[PoolH] /\ b \notin Held[TestH]
        BY <2>1, <3>2, HwStreamAssumption DEF Big, TestBuffer
      <4> QED BY <3>2, <4>1
    <3>3. CASE b \in Held[TestH]
      <4>1. b \notin Held[PoolH] /\ b \notin Held[RecvH]
        BY <2>1, <3>3, HwStreamAssumption DEF Big, TestBuffer
      <4> QED BY <3>3, <4>1
    <3>4. b \in Held[PoolH] \/ b \in Held[RecvH] \/ b \in Held[TestH]
      BY <2>1, HwStreamAssumption DEF Buffers, Big, Small, TestBuffer
    <3> QED BY <3>1, <3>2, <3>3, <3>4
  <2> QED BY <2>3, <2>4 DEF SingleOwner, PartitionedBy
<1>3. NoDuplicates
  <2>1. fftQ = <<>> /\ mipQ = <<>>
    BY DEF Init
  <2> QED BY <2>1, InitQueues DEF NoDuplicates
<1>4. JobsMatch
  BY DEF Init, JobsMatch
<1>5. DistinctFields(NoChunk)
  BY DEF DistinctFields, NoChunk
<1>6. ChunksSane /\ PublishedComplete
  BY <1>5, NoChunkFacts DEF Init, ChunksSane, PublishedComplete
<1> QED BY <1>1, <1>2, <1>3, <1>4, <1>6 DEF IInv

-----------------------------------------------------------------------------
(* A dropped buffer: put and get of the same one.                          *)

\* A dropped capture puts its buffer back and captures into it again.
LEMMA DropInv == IInv /\ DropBuffer => IInv'
<1> SUFFICES ASSUME IInv, DropBuffer PROVE IInv'
  OBVIOUS
<1>0. /\ TypeOK /\ SingleOwner /\ NoDuplicates /\ JobsMatch /\ ChunksSane
      /\ PublishedComplete
  BY DEF IInv
<1> USE <1>0
<1>1. Head(pending) \in Small /\ Head(pending) \in ToSet(pending)
  BY TailFacts DEF TypeOK, DropBuffer
<1>2. availSmall' = availSmall /\ pending' = Append(Tail(pending), Head(pending))
  BY <1>1, PushPop DEF TypeOK, DropBuffer
<1>3. ToSet(pending') = ToSet(pending) /\ IsInjective(pending')
  <2>1. pending \in Seq(Small) /\ pending # <<>> /\ IsInjective(pending)
    BY DEF TypeOK, DropBuffer, NoDuplicates
  <2>2. /\ ToSet(Append(Tail(pending), Head(pending)))
             = (ToSet(pending) \ {Head(pending)}) \cup {Head(pending)}
        /\ IsInjective(Append(Tail(pending), Head(pending)))
    BY <1>1, <2>1, RequeueFacts
  <2> QED BY <1>1, <1>2, <2>2
<1>4. SingleOwner'
  <2>1. /\ Scratches' = Scratches
        /\ Destinations' = Destinations
        /\ \A i \in Slots : SlotBuffers(i)' = SlotBuffers(i)
        /\ availBig' = availBig /\ proc' = proc /\ reserved' = reserved
    BY DEF DropBuffer, Scratches, Destinations, SlotBuffers
  <2>2. ASSUME NEW h \in Holders PROVE Held'[h] = Held[h]
    BY <1>2, <1>3, <2>1, SameHolder
  <2> QED BY <2>2, SameHeld DEF SingleOwner
<1>5. NoDuplicates'
  BY <1>2, <1>3 DEF DropBuffer, NoDuplicates
<1>6. (JobsMatch /\ ChunksSane /\ PublishedComplete)'
  BY DEF DropBuffer, JobsMatch, ChunksSane, PublishedComplete
<1>7. TypeOK'
  BY DropType
<1> QED BY <1>4, <1>5, <1>6, <1>7 DEF IInv

-----------------------------------------------------------------------------
(* Jobs entering and leaving the queues of the pipes.                      *)

DistinctScratch == \A i, j \in DOMAIN fftQ : fftQ[i].scratch = fftQ[j].scratch => i = j
DistinctDst == \A i, j \in DOMAIN mipQ : mipQ[i].dst = mipQ[j].dst => i = j

\* A transform that is queued brings its scratch buffer.
LEMMA FftPush ==
  ASSUME fftQ \in Seq(FftJob), NEW job \in FftJob, fftQ' = Append(fftQ, job)
  PROVE  /\ Scratches' = Scratches \cup {job.scratch}
         /\ DistinctScratch /\ job.scratch \notin Scratches => DistinctScratch'
<1>1. /\ Len(fftQ) \in Nat
      /\ DOMAIN fftQ = 1 .. Len(fftQ)
      /\ DOMAIN fftQ' = 1 .. Len(fftQ) + 1
      /\ \A i \in 1 .. Len(fftQ) : fftQ'[i] = fftQ[i]
      /\ fftQ'[Len(fftQ) + 1] = job
  BY AppendPlaces
<1>2. Scratches' \subseteq Scratches \cup {job.scratch}
  BY <1>1 DEF Scratches
<1>3. Scratches \subseteq Scratches'
  <2>1. ASSUME NEW i \in DOMAIN fftQ PROVE fftQ[i].scratch \in Scratches'
    <3>1. i \in DOMAIN fftQ' /\ fftQ'[i].scratch = fftQ[i].scratch
      BY <1>1
    <3> QED BY <3>1 DEF Scratches
  <2> QED BY <2>1 DEF Scratches
<1>4. job.scratch \in Scratches'
  <2>1. Len(fftQ) + 1 \in DOMAIN fftQ'
    BY <1>1
  <2> QED BY <1>1, <2>1 DEF Scratches
<1>5. DistinctScratch /\ job.scratch \notin Scratches => DistinctScratch'
  BY <1>1 DEF DistinctScratch, Scratches
<1> QED BY <1>2, <1>3, <1>4, <1>5

\* A reduction that is queued brings its destination.
LEMMA MipPush ==
  ASSUME mipQ \in Seq(MipJob), NEW job \in MipJob, mipQ' = Append(mipQ, job)
  PROVE  /\ Destinations' = Destinations \cup {job.dst}
         /\ DistinctDst /\ job.dst \notin Destinations => DistinctDst'
<1>1. /\ Len(mipQ) \in Nat
      /\ DOMAIN mipQ = 1 .. Len(mipQ)
      /\ DOMAIN mipQ' = 1 .. Len(mipQ) + 1
      /\ \A i \in 1 .. Len(mipQ) : mipQ'[i] = mipQ[i]
      /\ mipQ'[Len(mipQ) + 1] = job
  BY AppendPlaces
<1>2. Destinations' \subseteq Destinations \cup {job.dst}
  BY <1>1 DEF Destinations
<1>3. Destinations \subseteq Destinations'
  <2>1. ASSUME NEW i \in DOMAIN mipQ PROVE mipQ[i].dst \in Destinations'
    <3>1. i \in DOMAIN mipQ' /\ mipQ'[i].dst = mipQ[i].dst
      BY <1>1
    <3> QED BY <3>1 DEF Destinations
  <2> QED BY <2>1 DEF Destinations
<1>4. job.dst \in Destinations'
  <2>1. Len(mipQ) + 1 \in DOMAIN mipQ'
    BY <1>1
  <2> QED BY <1>1, <2>1 DEF Destinations
<1>5. DistinctDst /\ job.dst \notin Destinations => DistinctDst'
  BY <1>1 DEF DistinctDst, Destinations
<1> QED BY <1>2, <1>3, <1>4, <1>5

\* A transform that is done takes its scratch buffer out.
LEMMA FftPull ==
  ASSUME fftQ \in Seq(FftJob), fftQ # <<>>, fftQ' = Tail(fftQ), DistinctScratch
  PROVE  /\ Head(fftQ).scratch \in Scratches
         /\ Scratches' = Scratches \ {Head(fftQ).scratch}
         /\ DistinctScratch'
<1>1. /\ Len(fftQ) \in Nat /\ Len(fftQ) >= 1
      /\ DOMAIN fftQ = 1 .. Len(fftQ)
      /\ Head(fftQ) = fftQ[1]
      /\ DOMAIN fftQ' = 1 .. Len(fftQ) - 1
      /\ \A i \in 1 .. Len(fftQ) - 1 : fftQ'[i] = fftQ[i + 1]
  BY TailPlaces
<1>2. Head(fftQ).scratch \in Scratches
  BY <1>1 DEF Scratches
<1>3. Scratches' \subseteq Scratches \ {Head(fftQ).scratch}
  BY <1>1 DEF Scratches, DistinctScratch
<1>4. ASSUME NEW i \in DOMAIN fftQ, i # 1
      PROVE  fftQ[i].scratch \in Scratches'
  <2>1. i - 1 \in DOMAIN fftQ' /\ fftQ'[i - 1] = fftQ[i]
    BY <1>1, <1>4
  <2> QED BY <2>1 DEF Scratches
<1>5. Scratches \ {Head(fftQ).scratch} \subseteq Scratches'
  BY <1>1, <1>4 DEF Scratches
<1>6. DistinctScratch'
  BY <1>1 DEF DistinctScratch
<1> QED BY <1>2, <1>3, <1>5, <1>6

\* A reduction that is done takes its destination out.
LEMMA MipPull ==
  ASSUME mipQ \in Seq(MipJob), mipQ # <<>>, mipQ' = Tail(mipQ), DistinctDst
  PROVE  /\ Head(mipQ).dst \in Destinations
         /\ Destinations' = Destinations \ {Head(mipQ).dst}
         /\ DistinctDst'
<1>1. /\ Len(mipQ) \in Nat /\ Len(mipQ) >= 1
      /\ DOMAIN mipQ = 1 .. Len(mipQ)
      /\ Head(mipQ) = mipQ[1]
      /\ DOMAIN mipQ' = 1 .. Len(mipQ) - 1
      /\ \A i \in 1 .. Len(mipQ) - 1 : mipQ'[i] = mipQ[i + 1]
  BY TailPlaces
<1>2. Head(mipQ).dst \in Destinations
  BY <1>1 DEF Destinations
<1>3. Destinations' \subseteq Destinations \ {Head(mipQ).dst}
  BY <1>1 DEF Destinations, DistinctDst
<1>4. ASSUME NEW i \in DOMAIN mipQ, i # 1
      PROVE  mipQ[i].dst \in Destinations'
  <2>1. i - 1 \in DOMAIN mipQ' /\ mipQ'[i - 1] = mipQ[i]
    BY <1>1, <1>4
  <2> QED BY <2>1 DEF Destinations
<1>5. Destinations \ {Head(mipQ).dst} \subseteq Destinations'
  BY <1>1, <1>4 DEF Destinations
<1>6. DistinctDst'
  BY <1>1 DEF DistinctDst
<1> QED BY <1>2, <1>3, <1>5, <1>6

\* A queued job names a processor, and a transform a big destination.
LEMMA JobTypes ==
  ASSUME TypeOK
  PROVE  /\ \A i \in DOMAIN fftQ : fftQ[i].of \in Small /\ fftQ[i].dst \in Big
         /\ \A i \in DOMAIN mipQ : mipQ[i].of \in Small
<1>1. /\ \A i \in DOMAIN fftQ : fftQ[i] \in FftJob
      /\ \A i \in DOMAIN mipQ : mipQ[i] \in MipJob
  BY DEF TypeOK
<1> QED BY <1>1 DEF FftJob, MipJob

-----------------------------------------------------------------------------
(* A processor starts.                                                     *)

\* The big buffers that are taken are three different ones, and leave the pool.
LEMMA TakeThree ==
  ASSUME TypeOK, NoDuplicates, StartProcessing
  PROVE  LET n == Len(availBig)
             taken == {availBig[n], availBig[n - 1], availBig[n - 2]}
         IN  /\ taken \subseteq ToSet(availBig)
             /\ availBig[n] # availBig[n - 1]
             /\ availBig[n] # availBig[n - 2]
             /\ availBig[n - 1] # availBig[n - 2]
             /\ ToSet(availBig') = ToSet(availBig) \ taken
             /\ IsInjective(availBig')
<1> DEFINE n == Len(availBig)
           taken == {availBig[n], availBig[n - 1], availBig[n - 2]}
<1>1. /\ n \in Nat /\ n >= 3
      /\ DOMAIN availBig = 1 .. n
      /\ DOMAIN availBig' = 1 .. n - 3
      /\ \A i \in 1 .. n - 3 : availBig'[i] = availBig[i]
  BY StartFacts
<1>2. \A i, j \in 1 .. n : availBig[i] = availBig[j] => i = j
  BY <1>1 DEF NoDuplicates, IsInjective
<1>3. n \in 1 .. n /\ n - 1 \in 1 .. n /\ n - 2 \in 1 .. n
  BY <1>1
<1>4. /\ availBig[n] # availBig[n - 1]
      /\ availBig[n] # availBig[n - 2]
      /\ availBig[n - 1] # availBig[n - 2]
  BY <1>1, <1>2, <1>3
<1>5. taken \subseteq ToSet(availBig)
  BY <1>1, <1>3 DEF ToSet
<1>6. \A x \in ToSet(availBig') : x \in ToSet(availBig) /\ x \notin taken
  <2>1. ASSUME NEW i \in 1 .. n - 3
        PROVE  availBig[i] \in ToSet(availBig) /\ availBig[i] \notin taken
    <3> HIDE DEF n
    <3>1. i \in 1 .. n /\ i # n /\ i # n - 1 /\ i # n - 2
      BY <1>1
    <3>2. availBig[i] \in ToSet(availBig)
      BY <1>1, <3>1 DEF ToSet
    <3> QED BY <1>2, <1>3, <3>1, <3>2
  <2> QED BY <1>1, <2>1 DEF ToSet
<1>7. ASSUME NEW x \in ToSet(availBig), x \notin taken
      PROVE  x \in ToSet(availBig')
  <2>1. PICK i \in 1 .. n : availBig[i] = x
    BY <1>1 DEF ToSet
  <2>2. i \in 1 .. n - 3
    BY <1>1, <1>7, <2>1
  <2> QED BY <1>1, <2>1, <2>2 DEF ToSet
<1>8. IsInjective(availBig')
  BY <1>1, <1>2 DEF IsInjective
<1> QED BY <1>4, <1>5, <1>6, <1>7, <1>8

\* A processor that starts has one buffer captured and three taken.
LEMMA StartInv == IInv /\ StartProcessing => IInv'
<1> SUFFICES ASSUME IInv, StartProcessing PROVE IInv'
  OBVIOUS
<1>0. /\ TypeOK /\ SingleOwner /\ NoDuplicates /\ JobsMatch /\ ChunksSane
      /\ PublishedComplete
  BY DEF IInv
<1> DEFINE n    == Len(availBig)
           buf  == Head(pending)
           spec == availBig[n]
           scr  == availBig[n - 1]
           dst  == availBig[n - 2]
           sm   == Last(availSmall)
           fjob == [of |-> buf, dst |-> spec, scratch |-> scr]
           mjob == [of |-> buf, kind |-> "mipmap", dst |-> dst]
           new  == [NoChunk EXCEPT !.original = buf, !.spectrum = spec]
<1>1. /\ proc' = [proc EXCEPT ![buf] = new]
      /\ fftQ' = Append(fftQ, fjob)
      /\ mipQ' = Append(mipQ, mjob)
      /\ availSmall # <<>> /\ availSmall' = Front(availSmall)
      /\ pending # <<>> /\ pending' = Append(Tail(pending), sm)
      /\ UNCHANGED <<chunks, currChunk, open, reserved, failed>>
  BY DEF StartProcessing
<1>2. /\ spec \in Big /\ scr \in Big /\ dst \in Big
      /\ buf \in Small /\ sm \in Small
  <2>1. n \in Nat /\ n >= 3 /\ \A i \in 1 .. n : availBig[i] \in Big
    BY <1>0, StartFacts
  <2>2. buf \in Small /\ sm \in Small
    BY <1>0, StartFacts
  <2> QED BY <2>1, <2>2
<1>3. /\ {spec, scr, dst} \subseteq ToSet(availBig)
      /\ spec # scr /\ spec # dst /\ scr # dst
      /\ ToSet(availBig') = ToSet(availBig) \ {spec, scr, dst}
      /\ IsInjective(availBig')
  BY <1>0, TakeThree
<1>4. /\ fjob \in FftJob /\ mjob \in MipJob
      /\ fjob.of = buf /\ fjob.dst = spec /\ fjob.scratch = scr
      /\ mjob.of = buf /\ mjob.dst = dst /\ mjob.kind = "mipmap"
      /\ new.original = buf /\ new.spectrum = spec /\ new.mipmap = Null
      /\ new.spectrumMipmap = Null /\ ~new.noFree
      /\ BuffersOf(new) = {buf, spec}
      /\ DistinctFields(new)
  BY <1>2, BufferFacts DEF FftJob, MipJob, NoChunk, BuffersOf, BigOf, DistinctFields
<1> HIDE DEF n, buf, spec, scr, dst, sm, fjob, mjob, new
<1>5. /\ availSmall \in Seq(Small) /\ pending \in Seq(Small)
      /\ fftQ \in Seq(FftJob) /\ mipQ \in Seq(MipJob)
      /\ proc \in [Small -> Chunk]
      /\ IsInjective(availSmall) /\ IsInjective(pending)
      /\ DistinctScratch /\ DistinctDst
  BY <1>0 DEF TypeOK, NoDuplicates, DistinctScratch, DistinctDst
<1>6. /\ sm \in ToSet(availSmall)
      /\ ToSet(availSmall') = ToSet(availSmall) \ {sm}
      /\ IsInjective(availSmall')
  BY <1>1, <1>5, PopFacts DEF sm
<1>7. /\ buf \in ToSet(pending) /\ buf = Head(pending)
  BY <1>1, <1>5, TailFacts DEF buf
<1>8. {spec, scr, dst, sm, buf} \subseteq Buffers
  BY <1>2, BufferFacts
<1>9. /\ spec \in Held[PoolH] /\ scr \in Held[PoolH] /\ dst \in Held[PoolH]
      /\ sm \in Held[PoolH] /\ buf \in Held[RecvH]
  BY <1>3, <1>6, <1>7, HeldValues
\* What is taken from the pool, or arrives, is in no other hands.
<1>10. /\ \A h \in Holders \ {PoolH} : \A b \in {spec, scr, dst, sm} : b \notin Held[h]
       /\ \A h \in Holders \ {RecvH} : buf \notin Held[h]
  BY <1>0, <1>8, <1>9, OneHolder, HolderCases
<1>11. sm \notin ToSet(pending) /\ scr \notin Scratches /\ dst \notin Destinations
  BY <1>10, HeldValues, HolderCases, HolderKinds
<1>12. ToSet(pending') = (ToSet(pending) \ {buf}) \cup {sm} /\ IsInjective(pending')
  BY <1>1, <1>2, <1>5, <1>7, <1>11, RequeueFacts
<1>13. Scratches' = Scratches \cup {scr} /\ DistinctScratch'
  BY <1>1, <1>4, <1>5, <1>11, FftPush
<1>14. Destinations' = Destinations \cup {dst} /\ DistinctDst'
  BY <1>1, <1>4, <1>5, <1>11, MipPush
<1>15. proc[buf] = NoChunk
  <2>1. buf \notin BuffersOf(proc[buf])
    BY <1>2, <1>10, HeldValues, HolderCases, HolderKinds
  <2>2. proc[buf].original = buf => buf \in BuffersOf(proc[buf])
    BY <1>2, BufferFacts DEF BuffersOf
  <2> QED BY <1>0, <1>2, <2>1, <2>2 DEF ChunksSane
<1>16. /\ proc'[buf] = new
       /\ \A o \in Small \ {buf} : proc'[o] = proc[o]
  BY <1>1, <1>2, <1>5
<1>17. SingleOwner'
  <2> DEFINE S == {spec, scr, dst, sm, buf}
             r == [b \in S |-> IF b = scr THEN FftH
                               ELSE IF b = dst THEN MipH
                               ELSE IF b = sm THEN RecvH ELSE ProcH(buf)]
  <2>1. /\ sm # spec /\ sm # scr /\ sm # dst
        /\ buf # spec /\ buf # scr /\ buf # dst /\ buf # sm
    BY <1>2, <1>7, <1>11, BufferFacts
  <2>2. r \in [S -> Holders]
    BY <1>2, HolderCases
  <2>3. /\ r[scr] = FftH /\ r[dst] = MipH /\ r[sm] = RecvH
        /\ r[spec] = ProcH(buf) /\ r[buf] = ProcH(buf)
    BY <1>3, <2>1
  <2> HIDE DEF r
  <2>4. ASSUME NEW h \in Holders, NEW b \in Buffers
        PROVE  b \in Held'[h] <=> IF b \in S THEN r[b] = h ELSE b \in Held[h]
    <3>1. CASE h = PoolH
      <4>1. \A x \in S : r[x] # h
        BY <2>3, <3>1, HolderKinds
      <4>2. ToSet(availBig) \subseteq Big /\ ToSet(availSmall) \subseteq Small
        BY <1>0, HeldAreBuffers
      <4>3. buf \notin Held[PoolH]
        BY <1>10, HolderCases, HolderKinds
      <4> QED BY <1>2, <1>3, <1>6, <3>1, <4>1, <4>2, <4>3, BufferFacts, HeldValues,
                 HeldValuesNext
    <3>2. CASE h = RecvH
      <4>1. \A x \in S : r[x] = h <=> x = sm
        BY <2>1, <2>3, <3>2, HolderKinds
      <4>2. \A x \in {spec, scr, dst} : x \notin ToSet(pending)
        BY <1>10, HeldValues, HolderCases, HolderKinds
      <4> QED BY <1>12, <2>1, <3>2, <4>1, <4>2, HeldValues, HeldValuesNext
    <3>3. CASE h = FftH
      <4>1. \A x \in S : r[x] = h <=> x = scr
        BY <1>3, <2>1, <2>3, <3>3, HolderKinds
      <4>2. \A x \in S : x \notin Held[FftH]
        BY <1>10, HolderCases, HolderKinds
      <4> QED BY <1>13, <3>3, <4>1, <4>2, HeldValues, HeldValuesNext
    <3>4. CASE h = MipH
      <4>1. \A x \in S : r[x] = h <=> x = dst
        BY <1>3, <2>1, <2>3, <3>4, HolderKinds
      <4>2. \A x \in S : x \notin Held[MipH]
        BY <1>10, HolderCases, HolderKinds
      <4> QED BY <1>14, <3>4, <4>1, <4>2, HeldValues, HeldValuesNext
    <3>5. CASE h = ProcH(buf)
      <4>1. \A x \in S : r[x] = h <=> x \in {buf, spec}
        BY <1>3, <2>1, <2>3, <3>5, HolderKinds
      <4>2. Held[h] = {}
        BY <1>2, <1>15, <3>5, HeldValues, NoChunkFacts
      <4>3. Held'[h] = {buf, spec}
        BY <1>2, <1>4, <1>16, <3>5, HeldValuesNext
      <4> QED BY <4>1, <4>2, <4>3
    <3>6. CASE h \notin {PoolH, RecvH, FftH, MipH, ProcH(buf)}
      <4>1. \A x \in S : r[x] # h
        BY <2>3, <3>6
      <4>2. \A x \in S : x \notin Held[h]
        BY <1>10, <3>6
      <4>3. /\ \A i \in Slots : SlotBuffers(i)' = SlotBuffers(i)
            /\ reserved' = reserved
        BY <1>1 DEF SlotBuffers
      <4>4. Held'[h] = Held[h]
        BY <1>16, <3>6, <4>3, SameHolder
      <4> QED BY <4>1, <4>2, <4>4
    <3> QED BY <3>1, <3>2, <3>3, <3>4, <3>5, <3>6
  <2>5. PartitionedBy(Held')
    BY <1>0, <2>2, <2>4, Reassign DEF SingleOwner
  <2> QED BY <2>5 DEF SingleOwner
<1>18. NoDuplicates'
  BY <1>3, <1>6, <1>12, <1>13, <1>14 DEF NoDuplicates, DistinctScratch, DistinctDst
<1>19. JobsMatch'
  <2>1. /\ \A i \in DOMAIN fftQ : fftQ[i].of \in Small \ {buf}
        /\ \A i \in DOMAIN mipQ : mipQ[i].of \in Small \ {buf}
    <3>1. proc[buf].original # buf
      BY <1>2, <1>15, BufferFacts DEF NoChunk
    <3> QED BY <1>0, <3>1, JobTypes DEF JobsMatch
  <2>2. /\ Len(fftQ) \in Nat
        /\ DOMAIN fftQ = 1 .. Len(fftQ)
        /\ DOMAIN fftQ' = 1 .. Len(fftQ) + 1
        /\ \A i \in DOMAIN fftQ : fftQ'[i] = fftQ[i]
        /\ fftQ'[Len(fftQ) + 1] = fjob
    BY <1>1, <1>4, <1>5, AppendPlaces
  <2>3. /\ Len(mipQ) \in Nat
        /\ DOMAIN mipQ = 1 .. Len(mipQ)
        /\ DOMAIN mipQ' = 1 .. Len(mipQ) + 1
        /\ \A i \in DOMAIN mipQ : mipQ'[i] = mipQ[i]
        /\ mipQ'[Len(mipQ) + 1] = mjob
    BY <1>1, <1>4, <1>5, AppendPlaces
  <2>4. /\ \A i \in DOMAIN fftQ' : \/ i \in DOMAIN fftQ
                                  \/ (fftQ'[i] = fjob /\ i = Len(fftQ) + 1)
        /\ \A i \in DOMAIN mipQ' : \/ i \in DOMAIN mipQ
                                  \/ (mipQ'[i] = mjob /\ i = Len(mipQ) + 1)
    BY <2>2, <2>3
  <2>5. \A i \in DOMAIN mipQ' :
          /\ proc'[mipQ'[i].of].original = mipQ'[i].of
          /\ mipQ'[i].kind = "mipmap" => proc'[mipQ'[i].of].mipmap = Null
          /\ mipQ'[i].kind = "spectrumMipmap" => proc'[mipQ'[i].of].spectrumMipmap = Null
    BY <1>0, <1>4, <1>16, <2>1, <2>3, <2>4 DEF JobsMatch
  <2>6. \A i, k \in DOMAIN mipQ' :
          mipQ'[i].of = mipQ'[k].of /\ mipQ'[i].kind = mipQ'[k].kind => i = k
    BY <1>0, <1>4, <2>1, <2>3, <2>4 DEF JobsMatch
  <2>7. \A i \in DOMAIN fftQ' :
          /\ proc'[fftQ'[i].of].original = fftQ'[i].of
          /\ proc'[fftQ'[i].of].spectrum = fftQ'[i].dst
          /\ proc'[fftQ'[i].of].spectrumMipmap = Null
    BY <1>0, <1>4, <1>16, <2>1, <2>2, <2>4 DEF JobsMatch
  <2>8. \A i, k \in DOMAIN fftQ' : fftQ'[i].of = fftQ'[k].of => i = k
    BY <1>0, <1>4, <2>1, <2>2, <2>4 DEF JobsMatch
  <2>9. \A i \in DOMAIN fftQ', k \in DOMAIN mipQ' :
          mipQ'[k].kind = "spectrumMipmap" => mipQ'[k].of # fftQ'[i].of
    BY <1>0, <1>4, <2>1, <2>2, <2>3, <2>4 DEF JobsMatch
  <2> QED BY <2>5, <2>6, <2>7, <2>8, <2>9 DEF JobsMatch
<1>20. ChunksSane'
  <2>1. \A o \in Small : \/ proc'[o] = NoChunk
                         \/ /\ proc'[o].original = o
                            /\ proc'[o].spectrum # Null
                            /\ ~proc'[o].noFree
                            /\ DistinctFields(proc'[o])
    BY <1>0, <1>2, <1>4, <1>16, BufferFacts DEF ChunksSane
  <2> QED BY <1>0, <1>1, <2>1 DEF ChunksSane
<1>21. PublishedComplete'
  BY <1>0, <1>1 DEF PublishedComplete
<1>22. TypeOK'
  BY <1>0, StartType
<1> QED BY <1>17, <1>18, <1>19, <1>20, <1>21, <1>22 DEF IInv

-----------------------------------------------------------------------------
(* A transform is complete: its scratch buffer becomes a destination.      *)

\* The scratch buffer of a transform becomes the destination of a reduction.
LEMMA FftInv == IInv /\ FftDone => IInv'
<1> SUFFICES ASSUME IInv, FftDone PROVE IInv'
  OBVIOUS
<1>0. /\ TypeOK /\ SingleOwner /\ NoDuplicates /\ JobsMatch /\ ChunksSane
      /\ PublishedComplete
  BY DEF IInv
<1> DEFINE o   == Head(fftQ).of
           scr == Head(fftQ).scratch
           job == [of |-> o, kind |-> "spectrumMipmap", dst |-> scr]
<1>1. /\ fftQ # <<>> /\ fftQ' = Tail(fftQ)
      /\ availBig' = availBig
      /\ mipQ' = Append(mipQ, job) /\ job \in MipJob
      /\ UNCHANGED <<availSmall, pending, total, proc, chunks, currChunk, open,
                     reserved, failed>>
  BY <1>0, FftFacts DEF FftDone
<1>2. /\ fftQ \in Seq(FftJob) /\ mipQ \in Seq(MipJob)
      /\ DistinctScratch /\ DistinctDst
  BY <1>0 DEF TypeOK, NoDuplicates, DistinctScratch, DistinctDst
<1>3. job.of = o /\ job.dst = scr /\ job.kind = "spectrumMipmap"
  OBVIOUS
<1> HIDE DEF o, scr, job
<1>4. scr \in Scratches /\ Scratches' = Scratches \ {scr} /\ DistinctScratch'
  BY <1>1, <1>2, FftPull DEF scr
<1>5. scr \in Buffers /\ scr \in Held[FftH]
  BY <1>0, <1>4, HeldAreBuffers, BufferFacts, HeldValues
<1>6. \A h \in Holders \ {FftH} : scr \notin Held[h]
  BY <1>0, <1>5, OneHolder, HolderCases
<1>7. scr \notin Destinations
  BY <1>6, HeldValues, HolderCases, HolderKinds
<1>8. Destinations' = Destinations \cup {scr} /\ DistinctDst'
  BY <1>1, <1>2, <1>3, <1>7, MipPush
<1>9. SingleOwner'
  <2> DEFINE r == [b \in {scr} |-> MipH]
  <2>1. r \in [{scr} -> Holders] /\ r[scr] = MipH
    BY HolderCases
  <2> HIDE DEF r
  <2>2. ASSUME NEW h \in Holders, NEW b \in Buffers
        PROVE  b \in Held'[h] <=> IF b \in {scr} THEN r[b] = h ELSE b \in Held[h]
    <3>1. CASE h = FftH
      BY <1>4, <2>1, <3>1, HeldValues, HeldValuesNext, HolderKinds
    <3>2. CASE h = MipH
      BY <1>8, <2>1, <3>2, HeldValues, HeldValuesNext
    <3>3. CASE h \notin {FftH, MipH}
      <4>1. /\ \A i \in Slots : SlotBuffers(i)' = SlotBuffers(i)
            /\ reserved' = reserved /\ proc' = proc /\ pending' = pending
            /\ availSmall' = availSmall
        BY <1>1 DEF SlotBuffers
      <4>2. Held'[h] = Held[h]
        BY <1>1, <3>3, <4>1, SameHolder
      <4> QED BY <1>6, <2>1, <3>3, <4>2
    <3> QED BY <3>1, <3>2, <3>3
  <2>3. PartitionedBy(Held')
    BY <1>0, <2>1, <2>2, Reassign DEF SingleOwner
  <2> QED BY <2>3 DEF SingleOwner
<1>10. NoDuplicates'
  BY <1>0, <1>1, <1>4, <1>8 DEF NoDuplicates, DistinctScratch, DistinctDst
<1>11. JobsMatch'
  <2>1. /\ Len(fftQ) \in Nat /\ Len(fftQ) >= 1
        /\ DOMAIN fftQ = 1 .. Len(fftQ)
        /\ fftQ[1].of = o
        /\ DOMAIN fftQ' = 1 .. Len(fftQ) - 1
        /\ \A i \in DOMAIN fftQ' : fftQ'[i] = fftQ[i + 1]
    BY <1>1, <1>2, TailPlaces DEF o
  <2>2. /\ Len(mipQ) \in Nat
        /\ DOMAIN mipQ = 1 .. Len(mipQ)
        /\ DOMAIN mipQ' = 1 .. Len(mipQ) + 1
        /\ \A i \in DOMAIN mipQ : mipQ'[i] = mipQ[i]
        /\ mipQ'[Len(mipQ) + 1] = job
    BY <1>1, <1>2, AppendPlaces
  <2>3. \A i \in DOMAIN mipQ' : \/ i \in DOMAIN mipQ
                                \/ (mipQ'[i] = job /\ i = Len(mipQ) + 1)
    BY <2>2
  <2>4. \A i \in DOMAIN fftQ' : i + 1 \in DOMAIN fftQ /\ i + 1 # 1
    BY <2>1
  <2>5. 1 \in DOMAIN fftQ
    BY <2>1
  <2>6. /\ proc[o].original = o /\ proc[o].spectrumMipmap = Null
        /\ \A k \in DOMAIN mipQ : mipQ[k].kind = "spectrumMipmap" => mipQ[k].of # o
        /\ \A i \in DOMAIN fftQ' : fftQ'[i].of # o
    BY <1>0, <2>1, <2>4, <2>5 DEF JobsMatch
  <2>7. \A i \in DOMAIN mipQ' :
          /\ proc'[mipQ'[i].of].original = mipQ'[i].of
          /\ mipQ'[i].kind = "mipmap" => proc'[mipQ'[i].of].mipmap = Null
          /\ mipQ'[i].kind = "spectrumMipmap" => proc'[mipQ'[i].of].spectrumMipmap = Null
    BY <1>0, <1>1, <1>3, <2>2, <2>3, <2>6 DEF JobsMatch
  <2>8. \A i, k \in DOMAIN mipQ' :
          mipQ'[i].of = mipQ'[k].of /\ mipQ'[i].kind = mipQ'[k].kind => i = k
    BY <1>0, <1>3, <2>2, <2>3, <2>6 DEF JobsMatch
  <2>9. \A i \in DOMAIN fftQ' :
          /\ proc'[fftQ'[i].of].original = fftQ'[i].of
          /\ proc'[fftQ'[i].of].spectrum = fftQ'[i].dst
          /\ proc'[fftQ'[i].of].spectrumMipmap = Null
    BY <1>0, <1>1, <2>1, <2>4 DEF JobsMatch
  <2>10. \A i, k \in DOMAIN fftQ' : fftQ'[i].of = fftQ'[k].of => i = k
    <3>1. ASSUME NEW i \in DOMAIN fftQ', NEW k \in DOMAIN fftQ',
                 fftQ'[i].of = fftQ'[k].of
          PROVE  i = k
      <4>1. i + 1 = k + 1
        BY <1>0, <2>1, <2>4, <3>1 DEF JobsMatch
      <4> QED BY <2>1, <4>1
    <3> QED BY <3>1
  <2>11. \A i \in DOMAIN fftQ', k \in DOMAIN mipQ' :
           mipQ'[k].kind = "spectrumMipmap" => mipQ'[k].of # fftQ'[i].of
    BY <1>0, <1>3, <2>1, <2>2, <2>3, <2>4, <2>6 DEF JobsMatch
  <2> QED BY <2>7, <2>8, <2>9, <2>10, <2>11 DEF JobsMatch
<1>12. ChunksSane' /\ PublishedComplete'
  BY <1>0, <1>1 DEF ChunksSane, PublishedComplete
<1>13. TypeOK'
  BY <1>0, FftType
<1> QED BY <1>9, <1>10, <1>11, <1>12, <1>13 DEF IInv

-----------------------------------------------------------------------------
(* A reduction is complete: its destination joins the chunk, and with both *)
(* results the chunk goes to the ring.                                     *)

\* The chunk after the result of the oldest job has been stored.
ResultOf(ch) ==
  \/ Head(mipQ).kind = "mipmap" /\ ch = MipmapResult
  \/ Head(mipQ).kind = "spectrumMipmap" /\ ch = SpectrumResult

\* The result of a reduction completes a chunk of a processor that waits for it.
LEMMA ResultFacts ==
  ASSUME IInv, mipQ # <<>>, NEW ch, ResultOf(ch)
  PROVE  LET o == Head(mipQ).of
             dst == Head(mipQ).dst
             kind == Head(mipQ).kind
         IN  /\ o \in Small /\ dst \in Big /\ ch \in Chunk
             /\ Live(o)
             /\ ch.original = o /\ ch.spectrum # Null /\ ~ch.noFree
             /\ ch.spectrum = proc[o].spectrum
             /\ kind # "mipmap" => ch.mipmap = proc[o].mipmap
             /\ kind # "spectrumMipmap" => ch.spectrumMipmap = proc[o].spectrumMipmap
             /\ kind \in {"mipmap", "spectrumMipmap"}
             /\ BuffersOf(ch) = BuffersOf(proc[o]) \cup {dst}
             /\ dst \notin BuffersOf(proc[o])
             /\ DistinctFields(ch)
<1> DEFINE o == Head(mipQ).of
           dst == Head(mipQ).dst
           kind == Head(mipQ).kind
<1>0. /\ TypeOK /\ SingleOwner /\ JobsMatch /\ ChunksSane
  BY DEF IInv
<1>1. o \in Small /\ dst \in Big /\ ch \in Chunk /\ kind \in {"mipmap", "spectrumMipmap"}
  BY <1>0, MipFacts DEF ResultOf, MipJob
<1>2. /\ Len(mipQ) \in Nat /\ Len(mipQ) >= 1
      /\ DOMAIN mipQ = 1 .. Len(mipQ)
      /\ Head(mipQ) = mipQ[1]
  BY <1>0, TailPlaces DEF TypeOK
<1>3. 1 \in DOMAIN mipQ
  BY <1>2
<1>4. /\ proc[o].original = o
      /\ kind = "mipmap" => proc[o].mipmap = Null
      /\ kind = "spectrumMipmap" => proc[o].spectrumMipmap = Null
  BY <1>0, <1>2, <1>3 DEF JobsMatch
<1>5. o # Null /\ dst # Null /\ dst \in Buffers
  BY <1>1, BufferFacts
<1>6. /\ proc[o].spectrum # Null /\ ~proc[o].noFree /\ DistinctFields(proc[o])
  BY <1>0, <1>1, <1>4, <1>5 DEF ChunksSane, NoChunk
<1>7. dst \notin BuffersOf(proc[o])
  <2>1. dst \in Destinations
    BY <1>2, <1>3 DEF Destinations
  <2>2. MipH \in Holders /\ ProcH(o) \in Holders /\ MipH # ProcH(o)
    BY <1>1, HolderCases, HolderKinds
  <2>3. Held[MipH] = Destinations /\ Held[ProcH(o)] = BuffersOf(proc[o])
    BY <1>1, HeldValues
  <2> QED BY <1>0, <1>5, <2>1, <2>2, <2>3, OneHolder
<1>8. proc[o] \in Chunk
  BY <1>0, <1>1 DEF TypeOK
<1>9. CASE kind = "mipmap" /\ ch = MipmapResult
  <2>1. /\ ch.original = o /\ ch.spectrum = proc[o].spectrum /\ ~ch.noFree
        /\ ch.mipmap = dst /\ ch.spectrumMipmap = proc[o].spectrumMipmap
    BY <1>4, <1>6, <1>8, <1>9 DEF MipmapResult, Chunk
  <2> DEFINE was == proc[o]
  <2>a. /\ was.original = ch.original /\ was.spectrum = ch.spectrum
        /\ was.mipmap = Null /\ ch.mipmap = dst /\ dst # Null
        /\ ch.spectrumMipmap = was.spectrumMipmap
    BY <1>4, <1>5, <1>9, <2>1
  <2> HIDE DEF was, dst
  <2>b. \A x : x \in BuffersOf(ch) <=> x \in BuffersOf(was) \/ x = dst
    BY <2>a DEF BuffersOf, BigOf
  <2>2. BuffersOf(ch) = BuffersOf(proc[o]) \cup {dst}
    BY <2>b DEF was
  <2> USE DEF was, dst
  <2>3. DistinctFields(ch)
    BY <1>5, <1>6, <1>7, <2>1 DEF DistinctFields, BuffersOf, BigOf
  <2> QED BY <1>1, <1>4, <1>5, <1>6, <1>7, <1>9, <2>1, <2>2, <2>3 DEF Live
<1>10. CASE kind = "spectrumMipmap" /\ ch = SpectrumResult
  <2>1. /\ ch.original = o /\ ch.spectrum = proc[o].spectrum /\ ~ch.noFree
        /\ ch.spectrumMipmap = dst /\ ch.mipmap = proc[o].mipmap
    BY <1>4, <1>6, <1>8, <1>10 DEF SpectrumResult, Chunk
  <2> DEFINE was == proc[o]
  <2>a. /\ was.original = ch.original /\ was.spectrum = ch.spectrum
        /\ was.spectrumMipmap = Null /\ ch.spectrumMipmap = dst /\ dst # Null
        /\ ch.mipmap = was.mipmap
    BY <1>4, <1>5, <1>10, <2>1
  <2> HIDE DEF was, dst
  <2>b. \A x : x \in BuffersOf(ch) <=> x \in BuffersOf(was) \/ x = dst
    BY <2>a DEF BuffersOf, BigOf
  <2>2. BuffersOf(ch) = BuffersOf(proc[o]) \cup {dst}
    BY <2>b DEF was
  <2> USE DEF was, dst
  <2>3. DistinctFields(ch)
    BY <1>5, <1>6, <1>7, <2>1 DEF DistinctFields, BuffersOf, BigOf
  <2> QED BY <1>1, <1>4, <1>5, <1>6, <1>7, <1>10, <2>1, <2>2, <2>3 DEF Live
<1> QED BY <1>9, <1>10 DEF ResultOf

\* The jobs that are left, of this processor and of the others.
LEMMA JobsLeft ==
  ASSUME IInv, mipQ # <<>>, mipQ' = Tail(mipQ)
  PROVE  /\ Len(mipQ) \in Nat /\ Len(mipQ) >= 1
         /\ \A i \in DOMAIN mipQ' : i + 1 \in DOMAIN mipQ /\ mipQ'[i] = mipQ[i + 1]
         /\ DOMAIN mipQ' \subseteq Nat
         /\ \A i \in DOMAIN mipQ' :
              mipQ'[i].of = Head(mipQ).of => mipQ'[i].kind # Head(mipQ).kind
         /\ Head(mipQ).kind = "spectrumMipmap" =>
              \A i \in DOMAIN fftQ : fftQ[i].of # Head(mipQ).of
<1>0. TypeOK /\ JobsMatch
  BY DEF IInv
<1>1. /\ Len(mipQ) \in Nat /\ Len(mipQ) >= 1
      /\ DOMAIN mipQ = 1 .. Len(mipQ)
      /\ Head(mipQ) = mipQ[1]
      /\ DOMAIN mipQ' = 1 .. Len(mipQ) - 1
      /\ \A i \in 1 .. Len(mipQ) - 1 : mipQ'[i] = mipQ[i + 1]
  BY <1>0, TailPlaces DEF TypeOK
<1>2. /\ 1 \in DOMAIN mipQ
      /\ \A i \in DOMAIN mipQ' : i + 1 \in DOMAIN mipQ /\ i + 1 # 1 /\ mipQ'[i] = mipQ[i + 1]
      /\ DOMAIN mipQ' \subseteq Nat
  BY <1>1
<1>3. \A i \in DOMAIN mipQ' :
        mipQ'[i].of = Head(mipQ).of => mipQ'[i].kind # Head(mipQ).kind
  BY <1>0, <1>1, <1>2 DEF JobsMatch
<1>4. Head(mipQ).kind = "spectrumMipmap" =>
        \A i \in DOMAIN fftQ : fftQ[i].of # Head(mipQ).of
  BY <1>0, <1>1, <1>2 DEF JobsMatch
<1> QED BY <1>1, <1>2, <1>3, <1>4

\* What a queue loses leaves the rest of JobsMatch as it was, as long as the
\* processors the remaining jobs belong to keep the fields they wait for.
LEMMA JobsStillMatch ==
  ASSUME IInv, mipQ # <<>>, mipQ' = Tail(mipQ), fftQ' = fftQ,
         \A i \in DOMAIN mipQ' :
            LET o == mipQ'[i].of IN
            /\ proc'[o].original = proc[o].original
            /\ mipQ'[i].kind = "mipmap" => proc'[o].mipmap = proc[o].mipmap
            /\ mipQ'[i].kind = "spectrumMipmap" =>
                 proc'[o].spectrumMipmap = proc[o].spectrumMipmap,
         \A i \in DOMAIN fftQ :
            LET o == fftQ[i].of IN
            /\ proc'[o].original = proc[o].original
            /\ proc'[o].spectrum = proc[o].spectrum
            /\ proc'[o].spectrumMipmap = proc[o].spectrumMipmap
  PROVE  JobsMatch'
<1>0. JobsMatch
  BY DEF IInv
<1>1. /\ \A i \in DOMAIN mipQ' : i + 1 \in DOMAIN mipQ /\ mipQ'[i] = mipQ[i + 1]
      /\ DOMAIN mipQ' \subseteq Nat
  BY JobsLeft
<1>2. \A i \in DOMAIN mipQ' :
        /\ proc'[mipQ'[i].of].original = mipQ'[i].of
        /\ mipQ'[i].kind = "mipmap" => proc'[mipQ'[i].of].mipmap = Null
        /\ mipQ'[i].kind = "spectrumMipmap" => proc'[mipQ'[i].of].spectrumMipmap = Null
  <2>1. \A i \in DOMAIN mipQ' :
          /\ proc[mipQ'[i].of].original = mipQ'[i].of
          /\ mipQ'[i].kind = "mipmap" => proc[mipQ'[i].of].mipmap = Null
          /\ mipQ'[i].kind = "spectrumMipmap" => proc[mipQ'[i].of].spectrumMipmap = Null
    BY <1>0, <1>1 DEF JobsMatch
  <2> QED BY <2>1
<1>3. ASSUME NEW i \in DOMAIN mipQ', NEW k \in DOMAIN mipQ',
             mipQ'[i].of = mipQ'[k].of, mipQ'[i].kind = mipQ'[k].kind
      PROVE  i = k
  <2>1. i + 1 = k + 1
    BY <1>0, <1>1, <1>3 DEF JobsMatch
  <2>2. i \in Nat /\ k \in Nat
    BY <1>1
  <2> QED BY <2>1, <2>2
<1>4. \A i \in DOMAIN fftQ' :
        /\ proc'[fftQ'[i].of].original = fftQ'[i].of
        /\ proc'[fftQ'[i].of].spectrum = fftQ'[i].dst
        /\ proc'[fftQ'[i].of].spectrumMipmap = Null
  BY <1>0 DEF JobsMatch
<1>5. \A i, k \in DOMAIN fftQ' : fftQ'[i].of = fftQ'[k].of => i = k
  BY <1>0 DEF JobsMatch
<1>6. \A i \in DOMAIN fftQ', k \in DOMAIN mipQ' :
        mipQ'[k].kind = "spectrumMipmap" => mipQ'[k].of # fftQ'[i].of
  BY <1>0, <1>1 DEF JobsMatch
<1> QED BY <1>2, <1>3, <1>4, <1>5, <1>6 DEF JobsMatch

\* A processor that still waits for its other reduction keeps its buffers.
LEMMA KeepWaitingInv ==
  ASSUME IInv, mipQ # <<>>, mipQ' = Tail(mipQ), NEW ch, ResultOf(ch),
         KeepWaiting(Head(mipQ).of, ch),
         UNCHANGED <<pending, total, fftQ, open, reserved, failed>>
  PROVE  (SingleOwner /\ NoDuplicates /\ JobsMatch /\ ChunksSane /\ PublishedComplete)'
<1> DEFINE o == Head(mipQ).of
           dst == Head(mipQ).dst
<1>0. /\ TypeOK /\ SingleOwner /\ NoDuplicates /\ JobsMatch /\ ChunksSane
      /\ PublishedComplete
  BY DEF IInv
<1>1. /\ o \in Small /\ dst \in Big
      /\ ch.original = o /\ ch.spectrum # Null /\ ~ch.noFree
      /\ proc[o].original = o
      /\ ch.spectrum = proc[o].spectrum
      /\ BuffersOf(ch) = BuffersOf(proc[o]) \cup {dst}
      /\ DistinctFields(ch)
  <2>1. /\ o \in Small /\ dst \in Big
        /\ ch.original = o /\ ch.spectrum # Null /\ ~ch.noFree
        /\ Live(o) /\ ch.spectrum = proc[o].spectrum
        /\ BuffersOf(ch) = BuffersOf(proc[o]) \cup {dst}
        /\ DistinctFields(ch)
    BY ResultFacts
  <2>2. proc[o].original = o
    BY <1>0, <2>1 DEF ChunksSane, Live, NoChunk
  <2> QED BY <2>1, <2>2
<1>2. /\ proc' = [proc EXCEPT ![o] = ch]
      /\ UNCHANGED <<availBig, availSmall, chunks, currChunk>>
  BY DEF KeepWaiting
<1>3. /\ proc'[o] = ch /\ \A p \in Small \ {o} : proc'[p] = proc[p]
  BY <1>0, <1>1, <1>2 DEF TypeOK
<1>4. /\ mipQ \in Seq(MipJob) /\ DistinctDst
  BY <1>0 DEF TypeOK, NoDuplicates, DistinctDst
<1>5. dst \in Destinations /\ Destinations' = Destinations \ {dst} /\ DistinctDst'
  BY <1>4, MipPull
<1>6. SingleOwner'
  <2> DEFINE r == [b \in {dst} |-> ProcH(o)]
  <2>1. r \in [{dst} -> Holders] /\ r[dst] = ProcH(o)
    BY <1>1, HolderCases
  <2> HIDE DEF r
  <2>2. dst \in Buffers /\ dst \in Held[MipH]
    BY <1>1, <1>5, BufferFacts, HeldValues
  <2>3. \A h \in Holders \ {MipH} : dst \notin Held[h]
    BY <1>0, <2>2, OneHolder, HolderCases
  <2> HIDE DEF o, dst
  <2>4. ASSUME NEW h \in Holders, NEW b \in Buffers
        PROVE  b \in Held'[h] <=> IF b \in {dst} THEN r[b] = h ELSE b \in Held[h]
    <3>1. CASE h = MipH
      BY <1>5, <2>1, <3>1, HeldValues, HeldValuesNext, HolderKinds
    <3>2. CASE h = ProcH(o)
      BY <1>1, <1>3, <2>1, <3>2, HeldValues, HeldValuesNext
    <3>3. CASE h \notin {MipH, ProcH(o)}
      <4>1. /\ \A i \in Slots : SlotBuffers(i)' = SlotBuffers(i)
            /\ Scratches' = Scratches
        BY <1>2 DEF SlotBuffers, Scratches
      <4>2. Held'[h] = Held[h]
        BY <1>2, <1>3, <3>3, <4>1, SameHolder
      <4> QED BY <2>1, <2>3, <3>3, <4>2
    <3> QED BY <3>1, <3>2, <3>3
  <2>5. PartitionedBy(Held')
    BY <1>0, <2>1, <2>4, Reassign DEF SingleOwner
  <2> QED BY <2>5 DEF SingleOwner
<1>7. NoDuplicates'
  BY <1>0, <1>2, <1>5 DEF NoDuplicates, DistinctDst
<1>8. JobsMatch'
  <2>1. /\ \A i \in DOMAIN mipQ' : i + 1 \in DOMAIN mipQ /\ mipQ'[i] = mipQ[i + 1]
        /\ \A i \in DOMAIN mipQ' : mipQ'[i].of = o => mipQ'[i].kind # Head(mipQ).kind
        /\ Head(mipQ).kind = "spectrumMipmap" => \A i \in DOMAIN fftQ : fftQ[i].of # o
    BY JobsLeft
  <2>2. /\ Head(mipQ).kind # "mipmap" => ch.mipmap = proc[o].mipmap
        /\ Head(mipQ).kind # "spectrumMipmap" => ch.spectrumMipmap = proc[o].spectrumMipmap
        /\ Head(mipQ).kind \in {"mipmap", "spectrumMipmap"}
    BY ResultFacts
  <2>3. /\ \A i \in DOMAIN fftQ : fftQ[i].of \in Small
        /\ \A i \in DOMAIN mipQ' : mipQ'[i].of \in Small
    BY <1>0, <2>1, JobTypes
  <2> HIDE DEF o, dst
  <2>4. ASSUME NEW i \in DOMAIN mipQ'
        PROVE  /\ proc'[mipQ'[i].of].original = proc[mipQ'[i].of].original
               /\ mipQ'[i].kind = "mipmap" =>
                    proc'[mipQ'[i].of].mipmap = proc[mipQ'[i].of].mipmap
               /\ mipQ'[i].kind = "spectrumMipmap" =>
                    proc'[mipQ'[i].of].spectrumMipmap = proc[mipQ'[i].of].spectrumMipmap
    <3>1. CASE mipQ'[i].of = o
      BY <1>1, <1>3, <2>1, <2>2, <3>1
    <3>2. CASE mipQ'[i].of # o
      BY <1>3, <2>3, <3>2
    <3> QED BY <3>1, <3>2
  <2>5. ASSUME NEW i \in DOMAIN fftQ
        PROVE  /\ proc'[fftQ[i].of].original = proc[fftQ[i].of].original
               /\ proc'[fftQ[i].of].spectrum = proc[fftQ[i].of].spectrum
               /\ proc'[fftQ[i].of].spectrumMipmap = proc[fftQ[i].of].spectrumMipmap
    <3>1. CASE fftQ[i].of = o
      BY <1>1, <1>3, <2>1, <2>2, <3>1
    <3>2. CASE fftQ[i].of # o
      BY <1>3, <2>3, <3>2
    <3> QED BY <3>1, <3>2
  <2> QED BY <2>4, <2>5, JobsStillMatch
<1>9. ChunksSane'
  BY <1>0, <1>1, <1>2, <1>3 DEF ChunksSane
<1>10. PublishedComplete'
  BY <1>0, <1>2 DEF PublishedComplete
<1> QED BY <1>6, <1>7, <1>8, <1>9, <1>10

\* A chunk that is complete goes to the next slot, whose old chunk is freed.
LEMMA PublishInv ==
  ASSUME IInv, mipQ # <<>>, mipQ' = Tail(mipQ), NEW ch, ResultOf(ch),
         Publish(Head(mipQ).of, ch),
         UNCHANGED <<pending, total, fftQ, open, reserved, failed>>
  PROVE  (SingleOwner /\ NoDuplicates /\ JobsMatch /\ ChunksSane /\ PublishedComplete)'
<1> DEFINE o == Head(mipQ).of
           dst == Head(mipQ).dst
           k == NextSlot
           old == chunks[k]
<1>0. /\ TypeOK /\ SingleOwner /\ NoDuplicates /\ JobsMatch /\ ChunksSane
      /\ PublishedComplete
  BY DEF IInv
<1>1. /\ o \in Small /\ dst \in Big
      /\ ch.original = o /\ ch.spectrum # Null /\ ~ch.noFree
      /\ ch.mipmap # Null /\ ch.spectrumMipmap # Null
      /\ BuffersOf(ch) = BuffersOf(proc[o]) \cup {dst}
      /\ DistinctFields(ch)
  <2>1. /\ o \in Small /\ dst \in Big
        /\ ch.original = o /\ ch.spectrum # Null /\ ~ch.noFree
        /\ BuffersOf(ch) = BuffersOf(proc[o]) \cup {dst}
        /\ DistinctFields(ch)
    BY ResultFacts
  <2> QED BY <2>1 DEF Publish, BothResults
<1>2. k \in Slots /\ old \in Chunk
  BY <1>0, SlotFacts DEF TypeOK
<1>3. /\ chunks' = [chunks EXCEPT ![k] = ch]
      /\ proc' = [proc EXCEPT ![o] = NoChunk]
      /\ \/ old.noFree /\ UNCHANGED <<availBig, availSmall>>
         \/ /\ ~old.noFree
            /\ availBig' = FreeBig(availBig, old)
            /\ availSmall' = FreeSmall(availSmall, old)
  BY DEF Publish, MayFree
<1>4. /\ proc'[o] = NoChunk /\ \A p \in Small \ {o} : proc'[p] = proc[p]
      /\ chunks'[k] = ch /\ \A i \in Slots \ {k} : chunks'[i] = chunks[i]
  BY <1>0, <1>1, <1>2, <1>3 DEF TypeOK
<1>5. /\ mipQ \in Seq(MipJob) /\ DistinctDst
      /\ availBig \in Seq(Big) /\ availSmall \in Seq(Small)
      /\ IsInjective(availBig) /\ IsInjective(availSmall)
  BY <1>0 DEF TypeOK, NoDuplicates, DistinctDst
<1>6. dst \in Destinations /\ Destinations' = Destinations \ {dst} /\ DistinctDst'
  BY <1>5, MipPull
<1> HIDE DEF o, dst, k, old
<1>7. SlotBuffers(k) = IF old.noFree THEN {} ELSE BuffersOf(old)
  BY DEF SlotBuffers, old
<1>8. \A b \in SlotBuffers(k) : b \notin ToSet(availBig) /\ b \notin ToSet(availSmall)
  <2>1. SlotBuffers(k) \subseteq Buffers
    BY <1>0, <1>2, <1>7, HeldAreBuffers
  <2>2. Held[SlotH(k)] = SlotBuffers(k) /\ SlotH(k) \in Holders /\ SlotH(k) # PoolH
        /\ PoolH \in Holders
    BY <1>2, HeldValues, HolderCases, HolderKinds
  <2>3. \A b \in SlotBuffers(k) : b \notin Held[PoolH]
    BY <1>0, <2>1, <2>2, OneHolder
  <2> QED BY <2>3, HeldValues
\* The pools get what the overwritten slot held.
<1>9. /\ ToSet(availBig') \cup ToSet(availSmall')
           = ToSet(availBig) \cup ToSet(availSmall) \cup SlotBuffers(k)
      /\ IsInjective(availBig') /\ IsInjective(availSmall')
  <2>1. CASE old.noFree
    BY <1>3, <1>5, <1>7, <2>1
  <2>2. CASE ~old.noFree
    <3>1. BuffersOf(old) \cap ToSet(availBig) = {} /\ BuffersOf(old) \cap ToSet(availSmall) = {}
      BY <1>7, <1>8, <2>2
    <3>2. DistinctFields(old)
      BY <1>0, <1>2 DEF ChunksSane, old
    <3>3. /\ ToSet(FreeBig(availBig, old)) \cup ToSet(FreeSmall(availSmall, old))
               = ToSet(availBig) \cup ToSet(availSmall) \cup BuffersOf(old)
          /\ IsInjective(FreeBig(availBig, old))
          /\ IsInjective(FreeSmall(availSmall, old))
      BY <1>2, <1>5, <3>1, <3>2, FreeFacts
    <3> QED BY <1>3, <1>7, <2>2, <3>3
  <2> QED BY <2>1, <2>2
<1>10. SingleOwner'
  <2> DEFINE freed == SlotBuffers(k)
             S == BuffersOf(ch) \cup freed
             r == [b \in S |-> IF b \in freed THEN PoolH ELSE SlotH(k)]
  <2>1. /\ r \in [S -> Holders]
        /\ \A b \in S : r[b] = IF b \in freed THEN PoolH ELSE SlotH(k)
    BY <1>2, HolderCases
  <2> HIDE DEF r
  <2>2. /\ SlotH(k) \in Holders /\ ProcH(o) \in Holders /\ MipH \in Holders /\ PoolH \in Holders
        /\ SlotH(k) # ProcH(o) /\ SlotH(k) # MipH /\ SlotH(k) # PoolH
        /\ ProcH(o) # MipH /\ ProcH(o) # PoolH /\ MipH # PoolH
        /\ Held[SlotH(k)] = freed
        /\ Held[ProcH(o)] = BuffersOf(proc[o])
        /\ Held[MipH] = Destinations
    BY <1>1, <1>2, HeldValues, HolderCases, HolderKinds
  <2>3. proc[o] \in Chunk /\ freed \subseteq Buffers /\ BuffersOf(proc[o]) \subseteq Buffers
        /\ dst \in Buffers
    BY <1>0, <1>1, <1>2, <1>7, HeldAreBuffers, BufferFacts DEF TypeOK
  \* Where each moved buffer was before.
  <2>4. \A h \in Holders :
          /\ \A b \in freed : b \in Held[h] <=> h = SlotH(k)
          /\ \A b \in BuffersOf(proc[o]) : b \in Held[h] <=> h = ProcH(o)
          /\ dst \in Held[h] <=> h = MipH
    BY <1>0, <1>6, <2>2, <2>3, OneHolder
  <2>5. BuffersOf(ch) \cap freed = {}
    BY <1>1, <2>2, <2>4
  <2> HIDE DEF freed
  <2>6. ASSUME NEW h \in Holders, NEW b \in Buffers
        PROVE  b \in Held'[h] <=> IF b \in S THEN r[b] = h ELSE b \in Held[h]
    <3>1. CASE h = PoolH
      <4>1. Held'[h] = Held[h] \cup freed
        BY <1>9, <3>1, HeldValues, HeldValuesNext DEF freed
      <4>2. \A x \in S : r[x] = h <=> x \in freed
        BY <2>1, <2>2, <3>1
      <4>3. \A x \in S : x \notin Held[h]
        BY <1>1, <2>2, <2>4, <3>1
      <4> QED BY <4>1, <4>2, <4>3
    <3>2. CASE h = SlotH(k)
      <4>1. Held'[h] = BuffersOf(ch)
        BY <1>1, <1>2, <1>4, <3>2, HeldValuesNext DEF SlotBuffers
      <4>2. Held[h] = freed
        BY <2>2, <3>2
      <4>3. \A x \in S : r[x] = h <=> x \in BuffersOf(ch)
        BY <2>1, <2>2, <2>5, <3>2
      <4> QED BY <4>1, <4>2, <4>3
    <3>3. CASE h = ProcH(o)
      <4>1. Held'[h] = {}
        BY <1>1, <1>4, <3>3, HeldValuesNext, NoChunkFacts
      <4>2. \A x \in S : r[x] # h
        BY <2>1, <2>2, <3>3
      <4>3. Held[h] \subseteq S
        BY <1>1, <2>2, <3>3
      <4> QED BY <4>1, <4>2, <4>3
    <3>4. CASE h = MipH
      <4>1. Held'[h] = Held[h] \ {dst}
        BY <1>6, <3>4, HeldValues, HeldValuesNext
      <4>2. \A x \in S : r[x] # h
        BY <2>1, <2>2, <3>4
      <4>3. \A x \in S : x \in Held[h] => x = dst
        BY <1>1, <2>2, <2>4, <3>4
      <4>4. dst \in S
        BY <1>1
      <4> QED BY <4>1, <4>2, <4>3, <4>4
    <3>5. CASE h \notin {PoolH, SlotH(k), ProcH(o), MipH}
      <4>1. \A i \in Slots : i # k => SlotBuffers(i)' = SlotBuffers(i)
        BY <1>4 DEF SlotBuffers
      <4>2. Scratches' = Scratches
        BY DEF Scratches
      <4>3. Held'[h] = Held[h]
        BY <1>4, <3>5, <4>1, <4>2, SameHolder
      <4>4. \A x \in S : r[x] # h /\ x \notin Held[h]
        BY <1>1, <2>1, <2>4, <3>5
      <4> QED BY <4>3, <4>4
    <3> QED BY <3>1, <3>2, <3>3, <3>4, <3>5
  <2>7. PartitionedBy(Held')
    BY <1>0, <2>1, <2>6, Reassign DEF SingleOwner
  <2> QED BY <2>7 DEF SingleOwner
<1>11. NoDuplicates'
  BY <1>0, <1>6, <1>9 DEF NoDuplicates, DistinctDst
<1>12. JobsMatch'
  <2>1. /\ \A i \in DOMAIN mipQ' : i + 1 \in DOMAIN mipQ /\ mipQ'[i] = mipQ[i + 1]
        /\ \A i \in DOMAIN mipQ' : mipQ'[i].of = o => mipQ'[i].kind # Head(mipQ).kind
        /\ Head(mipQ).kind = "spectrumMipmap" => \A i \in DOMAIN fftQ : fftQ[i].of # o
    BY JobsLeft DEF o
  <2>2. /\ Head(mipQ).kind # "mipmap" => ch.mipmap = proc[o].mipmap
        /\ Head(mipQ).kind # "spectrumMipmap" => ch.spectrumMipmap = proc[o].spectrumMipmap
        /\ Head(mipQ).kind \in {"mipmap", "spectrumMipmap"}
    BY ResultFacts DEF o
  <2>3. /\ \A i \in DOMAIN fftQ : fftQ[i].of \in Small
        /\ \A i \in DOMAIN mipQ' : mipQ'[i].of \in Small /\ mipQ'[i].kind \in
             {"mipmap", "spectrumMipmap"}
    <3>1. \A i \in DOMAIN mipQ : mipQ[i] \in MipJob
      BY <1>5
    <3>2. \A i \in DOMAIN mipQ : mipQ[i].of \in Small
                              /\ mipQ[i].kind \in {"mipmap", "spectrumMipmap"}
      BY <3>1 DEF MipJob
    <3> QED BY <1>0, <2>1, <3>2, JobTypes
  <2>4. \A i \in DOMAIN mipQ' : mipQ'[i].of # o
    BY <1>0, <1>1, <2>1, <2>2, <2>3 DEF JobsMatch
  <2>5. \A i \in DOMAIN fftQ : fftQ[i].of # o
    BY <1>0, <1>1, <2>1, <2>2 DEF JobsMatch
  <2>6. /\ \A i \in DOMAIN mipQ' : proc'[mipQ'[i].of] = proc[mipQ'[i].of]
        /\ \A i \in DOMAIN fftQ : proc'[fftQ[i].of] = proc[fftQ[i].of]
    BY <1>4, <2>3, <2>4, <2>5
  <2> QED BY <2>6, JobsStillMatch
<1>13. ChunksSane'
  BY <1>0, <1>1, <1>4 DEF ChunksSane
<1>14. PublishedComplete'
  <2>1. Complete(ch)
    BY <1>1, BufferFacts DEF Complete
  <2> QED BY <1>0, <1>4, <2>1 DEF PublishedComplete
<1> QED BY <1>10, <1>11, <1>12, <1>13, <1>14

\* A reduction ends in one or the other.
LEMMA MipInv == IInv /\ MipDone => IInv'
<1> SUFFICES ASSUME IInv, MipDone PROVE IInv'
  OBVIOUS
<1>1. PICK ch : /\ mipQ # <<>> /\ mipQ' = Tail(mipQ) /\ ResultOf(ch)
                /\ CheckDone(Head(mipQ).of, ch)
                /\ UNCHANGED <<pending, total, fftQ, open, reserved, failed>>
  <2>1. CASE MipmapDone
    BY <2>1 DEF MipmapDone, ResultOf, MipmapResult
  <2>2. CASE SpectrumMipmapDone
    BY <2>2 DEF SpectrumMipmapDone, ResultOf, SpectrumResult
  <2> QED BY <2>1, <2>2 DEF MipDone
<1>2. (SingleOwner /\ NoDuplicates /\ JobsMatch /\ ChunksSane /\ PublishedComplete)'
  BY <1>1, KeepWaitingInv, PublishInv DEF CheckDone
<1>3. TypeOK'
  BY MipType DEF IInv
<1> QED BY <1>2, <1>3 DEF IInv

-----------------------------------------------------------------------------
(* The commands of the clients.                                            *)

\* What a client had goes to the pools, whole and once.
LEMMA UnreserveFacts ==
  ASSUME IInv, NEW c \in Clients, Unreserve(c)
  PROVE  /\ ToSet(availBig') \cup ToSet(availSmall')
              = ToSet(availBig) \cup ToSet(availSmall) \cup BuffersOf(reserved[c])
         /\ IsInjective(availBig') /\ IsInjective(availSmall')
<1> DEFINE old == reserved[c]
<1>1. /\ TypeOK /\ SingleOwner /\ NoDuplicates /\ ChunksSane /\ PublishedComplete
  BY DEF IInv
<1>2. /\ old \in Chunk
      /\ DistinctFields(old)
      /\ availBig \in Seq(Big) /\ availSmall \in Seq(Small)
      /\ IsInjective(availBig) /\ IsInjective(availSmall)
  BY <1>1 DEF TypeOK, NoDuplicates, ChunksSane
<1>3. Complete(old) \/ BuffersOf(old) = {}
  BY <1>1 DEF PublishedComplete
<1>4. \/ HasData(old) /\ availBig' = FreeBig(availBig, old)
                      /\ availSmall' = FreeSmall(availSmall, old)
      \/ ~HasData(old) /\ UNCHANGED <<availBig, availSmall>>
  BY DEF Unreserve
<1>5. /\ Held[ClientH(c)] = BuffersOf(old)
      /\ ClientH(c) \in Holders /\ PoolH \in Holders /\ ClientH(c) # PoolH
  BY HeldValues, HolderCases, HolderKinds
<1> HIDE DEF old
<1>6. BuffersOf(old) \subseteq Buffers
  BY <1>1, <1>2, HeldAreBuffers
<1>7. \A b \in BuffersOf(old) : b \notin Held[PoolH]
  BY <1>1, <1>5, <1>6, OneHolder
<1>8. BuffersOf(old) \cap ToSet(availBig) = {} /\ BuffersOf(old) \cap ToSet(availSmall) = {}
  BY <1>7, HeldValues
<1>9. CASE HasData(old)
  <2>1. /\ ToSet(FreeBig(availBig, old)) \cup ToSet(FreeSmall(availSmall, old))
             = ToSet(availBig) \cup ToSet(availSmall) \cup BuffersOf(old)
        /\ IsInjective(FreeBig(availBig, old))
        /\ IsInjective(FreeSmall(availSmall, old))
    BY <1>2, <1>8, FreeFacts
  <2> QED BY <1>4, <1>9, <2>1 DEF old
<1>10. CASE ~HasData(old)
  <2>1. BuffersOf(old) = {}
    BY <1>3, <1>10 DEF HasData, Complete
  <2> QED BY <1>2, <1>4, <1>10, <2>1 DEF old
<1> QED BY <1>9, <1>10

\* A command gives back what the client had and hands it T, the buffers of one
\* ring slot or nothing.
LEMMA ClientMoves ==
  ASSUME IInv, NEW c \in Clients, Unreserve(c),
         NEW new \in Chunk, reserved' = [reserved EXCEPT ![c] = new],
         NEW k \in Slots, NEW T, T \subseteq SlotBuffers(k), BuffersOf(new) = T,
         \A i \in Slots : SlotBuffers(i)' = SlotBuffers(i) \ T,
         UNCHANGED <<pending, proc, fftQ, mipQ>>
  PROVE  (SingleOwner /\ NoDuplicates /\ JobsMatch)'
<1>0. TypeOK /\ SingleOwner /\ NoDuplicates /\ JobsMatch
  BY DEF IInv
<1> DEFINE given == BuffersOf(reserved[c])
           S == given \cup T
           r == [b \in S |-> IF b \in T THEN ClientH(c) ELSE PoolH]
<1>1. /\ ToSet(availBig') \cup ToSet(availSmall') = ToSet(availBig) \cup ToSet(availSmall) \cup given
      /\ IsInjective(availBig') /\ IsInjective(availSmall')
  BY UnreserveFacts
<1>2. /\ r \in [S -> Holders]
      /\ \A b \in S : r[b] = IF b \in T THEN ClientH(c) ELSE PoolH
  BY HolderCases
<1> HIDE DEF r
<1>3. /\ reserved'[c] = new
      /\ \A d \in Clients \ {c} : reserved'[d] = reserved[d]
  BY <1>0 DEF TypeOK
<1>4. /\ Held[ClientH(c)] = given /\ Held'[ClientH(c)] = T
      /\ Held[SlotH(k)] = SlotBuffers(k)
      /\ ClientH(c) \in Holders /\ PoolH \in Holders /\ SlotH(k) \in Holders
      /\ ClientH(c) # PoolH /\ ClientH(c) # SlotH(k) /\ SlotH(k) # PoolH
  BY <1>3, HeldValues, HeldValuesNext, HolderCases, HolderKinds
<1>5. given \subseteq Buffers /\ SlotBuffers(k) \subseteq Buffers
  <2>1. reserved[c] \in Chunk /\ chunks[k] \in Chunk
    BY <1>0 DEF TypeOK
  <2> QED BY <1>0, <2>1, HeldAreBuffers DEF SlotBuffers
<1>6. \A h \in Holders :
        /\ \A b \in given : b \in Held[h] <=> h = ClientH(c)
        /\ \A b \in T : b \in Held[h] <=> h = SlotH(k)
  BY <1>0, <1>4, <1>5, OneHolder
<1>7. given \cap T = {}
  BY <1>4, <1>6
<1> HIDE DEF given
<1>8. ASSUME NEW h \in Holders, NEW b \in Buffers
      PROVE  b \in Held'[h] <=> IF b \in S THEN r[b] = h ELSE b \in Held[h]
  <2>1. CASE h = PoolH
    <3>1. Held'[h] = Held[h] \cup given
      BY <1>1, <2>1, HeldValues, HeldValuesNext
    <3>2. \A x \in S : r[x] = h <=> x \in given
      BY <1>2, <1>4, <1>7, <2>1
    <3>3. \A x \in S : x \notin Held[h]
      BY <1>4, <1>6, <2>1
    <3> QED BY <3>1, <3>2, <3>3
  <2>2. CASE h = ClientH(c)
    <3>1. \A x \in S : r[x] = h <=> x \in T
      BY <1>2, <1>4, <2>2
    <3> QED BY <1>4, <2>2, <3>1
  <2>3. ASSUME NEW i \in Slots, h = SlotH(i)
        PROVE  b \in Held'[h] <=> IF b \in S THEN r[b] = h ELSE b \in Held[h]
    <3>1. Held'[h] = Held[h] \ T
      BY <2>3, HeldValues, HeldValuesNext
    <3>2. \A x \in S : r[x] # h
      BY <1>2, <2>3, HolderKinds
    <3>3. \A x \in given : x \notin Held[h]
      BY <1>6, <2>3, HolderKinds
    <3> QED BY <3>1, <3>2, <3>3
  <2>4. CASE h \notin {PoolH, ClientH(c)} /\ \A i \in Slots : h # SlotH(i)
    <3>1. Scratches' = Scratches /\ Destinations' = Destinations
      BY DEF Scratches, Destinations
    <3>2. \A d \in Clients : h = ClientH(d) => reserved'[d] = reserved[d]
      BY <1>3, <2>4
    <3>3. Held'[h] = Held[h]
      BY <2>4, <3>1, <3>2, SameHolder
    <3>4. \A x \in S : r[x] # h /\ x \notin Held[h]
      BY <1>2, <1>6, <2>4
    <3> QED BY <3>3, <3>4
  <2> QED BY <2>1, <2>2, <2>3, <2>4
<1>9. SingleOwner'
  <2>1. PartitionedBy(Held')
    BY <1>0, <1>2, <1>8, Reassign DEF SingleOwner
  <2> QED BY <2>1 DEF SingleOwner
<1>10. NoDuplicates'
  BY <1>0, <1>1 DEF NoDuplicates
<1>11. JobsMatch'
  BY <1>0 DEF JobsMatch
<1> QED BY <1>9, <1>10, <1>11

\* A step that moves no buffer and no job.
LEMMA UnchangedInv ==
  ASSUME IInv,
         UNCHANGED <<availBig, availSmall, pending, proc, fftQ, mipQ, chunks, reserved>>
  PROVE  (SingleOwner /\ NoDuplicates /\ JobsMatch /\ ChunksSane /\ PublishedComplete)'
<1>0. SingleOwner /\ NoDuplicates /\ JobsMatch /\ ChunksSane /\ PublishedComplete
  BY DEF IInv
<1>1. SingleOwner'
  <2>1. /\ Scratches' = Scratches
        /\ Destinations' = Destinations
        /\ \A i \in Slots : SlotBuffers(i)' = SlotBuffers(i)
    BY DEF Scratches, Destinations, SlotBuffers
  <2>2. ASSUME NEW h \in Holders PROVE Held'[h] = Held[h]
    BY <2>1, SameHolder
  <2> QED BY <1>0, <2>2, SameHeld DEF SingleOwner
<1>2. (NoDuplicates /\ JobsMatch /\ ChunksSane /\ PublishedComplete)'
  BY <1>0 DEF NoDuplicates, JobsMatch, ChunksSane, PublishedComplete
<1> QED BY <1>1, <1>2

\* "start" and the end of a connection.
LEMMA ReleaseInv ==
  ASSUME IInv, NEW c \in Clients, Unreserve(c),
         reserved' = [reserved EXCEPT ![c] = NoChunk],
         UNCHANGED <<pending, proc, fftQ, mipQ, chunks>>
  PROVE  (SingleOwner /\ NoDuplicates /\ JobsMatch /\ ChunksSane /\ PublishedComplete)'
<1>0. TypeOK /\ ChunksSane /\ PublishedComplete
  BY DEF IInv
<1>1. \A i \in Slots : SlotBuffers(i)' = SlotBuffers(i) \ {}
  BY DEF SlotBuffers
<1>2. currChunk \in Slots
  BY <1>0 DEF TypeOK
<1>3. (SingleOwner /\ NoDuplicates /\ JobsMatch)'
  BY <1>1, <1>2, NoChunkFacts, ClientMoves
<1>4. /\ reserved'[c] = NoChunk
      /\ \A d \in Clients \ {c} : reserved'[d] = reserved[d]
  BY <1>0 DEF TypeOK
<1>5. DistinctFields(NoChunk)
  BY DEF DistinctFields, NoChunk
<1>6. ChunksSane' /\ PublishedComplete'
  BY <1>0, <1>4, <1>5, NoChunkFacts DEF ChunksSane, PublishedComplete
<1> QED BY <1>3, <1>6

\* "stop" moves the latest chunk from its slot to the client, once.
LEMMA StopInv ==
  ASSUME IInv, NEW c \in Clients, HandleStop(c)
  PROVE  (SingleOwner /\ NoDuplicates /\ JobsMatch /\ ChunksSane /\ PublishedComplete)'
<1> DEFINE cur == chunks[currChunk]
           pinned == [cur EXCEPT !.noFree = TRUE]
           new == IF HasData(pinned) THEN pinned ELSE NoChunk
<1>0. /\ TypeOK /\ ChunksSane /\ PublishedComplete
      /\ Unreserve(c)
      /\ UNCHANGED <<pending, proc, fftQ, mipQ, currChunk>>
  BY DEF IInv, HandleStop
<1>1. CASE cur.noFree
  <2>1. reserved' = [reserved EXCEPT ![c] = NoChunk] /\ chunks' = chunks
    BY <1>1 DEF HandleStop
  <2> QED BY <1>0, <2>1, ReleaseInv
<1>2. CASE ~cur.noFree
  <2>1. /\ chunks' = [chunks EXCEPT ![currChunk] = pinned]
        /\ reserved' = [reserved EXCEPT ![c] = new]
    BY <1>2 DEF HandleStop
  <2>2. currChunk \in Slots /\ cur \in Chunk
    BY <1>0 DEF TypeOK
  <2>3. /\ pinned \in Chunk /\ pinned.noFree
        /\ BuffersOf(pinned) = BuffersOf(cur)
        /\ HasData(pinned) <=> HasData(cur)
        /\ Complete(pinned) <=> Complete(cur)
        /\ DistinctFields(pinned) <=> DistinctFields(cur)
    BY <2>2 DEF Chunk, BuffersOf, BigOf, HasData, Complete, DistinctFields
  <2>4. new \in Chunk /\ BuffersOf(new) = BuffersOf(cur)
    <3>1. CASE HasData(pinned)
      BY <2>3, <3>1
    <3>2. CASE ~HasData(pinned)
      <4>1. Complete(cur) \/ BuffersOf(cur) = {}
        BY <1>0, <2>2 DEF PublishedComplete
      <4>2. BuffersOf(cur) = {}
        BY <2>3, <3>2, <4>1 DEF HasData, Complete
      <4> QED BY <3>2, <4>2, NoChunkFacts
    <3> QED BY <3>1, <3>2
  <2>5. DistinctFields(cur) /\ (Complete(cur) \/ BuffersOf(cur) = {})
    BY <1>0, <2>2 DEF ChunksSane, PublishedComplete
  <2>6. DistinctFields(NoChunk)
    BY DEF DistinctFields, NoChunk
  <2>7. DistinctFields(new) /\ (Complete(new) \/ BuffersOf(new) = {})
    BY <2>3, <2>5, <2>6, NoChunkFacts
  <2>8. SlotBuffers(currChunk) = BuffersOf(cur)
    BY <1>2 DEF SlotBuffers
  <2> HIDE DEF cur, pinned, new
  <2>9. /\ chunks'[currChunk] = pinned
        /\ \A i \in Slots \ {currChunk} : chunks'[i] = chunks[i]
        /\ reserved'[c] = new
        /\ \A d \in Clients \ {c} : reserved'[d] = reserved[d]
    BY <1>0, <2>1, <2>2 DEF TypeOK
  <2>10. ASSUME NEW i \in Slots
         PROVE  SlotBuffers(i)' = SlotBuffers(i) \ BuffersOf(cur)
    <3>1. CASE i = currChunk
      BY <2>3, <2>8, <2>9, <3>1 DEF SlotBuffers
    <3>2. CASE i # currChunk
      <4>1. SlotBuffers(i)' = SlotBuffers(i)
        BY <2>9, <3>2 DEF SlotBuffers
      <4>2. /\ Held[SlotH(i)] = SlotBuffers(i) /\ SlotH(i) \in Holders
            /\ Held[SlotH(currChunk)] = BuffersOf(cur) /\ SlotH(currChunk) \in Holders
            /\ SlotH(i) # SlotH(currChunk)
        BY <2>2, <2>8, <3>2, HeldValues, HolderCases, HolderKinds
      <4>3. BuffersOf(cur) \subseteq Buffers
        BY <1>0, <2>2, HeldAreBuffers
      <4>4. SlotBuffers(i) \cap BuffersOf(cur) = {}
        BY <4>2, <4>3, OneHolder DEF IInv
      <4> QED BY <4>1, <4>4
    <3> QED BY <3>1, <3>2
  <2>11. (SingleOwner /\ NoDuplicates /\ JobsMatch)'
    <3>1. BuffersOf(cur) \subseteq SlotBuffers(currChunk)
      BY <2>8
    <3> QED BY <1>0, <2>1, <2>2, <2>4, <2>10, <3>1, ClientMoves
  <2>12. ChunksSane' /\ PublishedComplete'
    BY <1>0, <2>3, <2>5, <2>7, <2>9 DEF ChunksSane, PublishedComplete
  <2> QED BY <2>11, <2>12
<1> QED BY <1>1, <1>2

\* Every command of a client keeps the invariant.
LEMMA ClientInv ==
  ASSUME IInv, NEW c \in Clients,
         Open(c) \/ HandleStart(c) \/ HandleStop(c) \/ Close(c)
  PROVE  IInv'
<1>1. TypeOK'
  BY ClientType DEF IInv
<1>2. (SingleOwner /\ NoDuplicates /\ JobsMatch /\ ChunksSane /\ PublishedComplete)'
  <2>1. CASE Open(c)
    <3>1. UNCHANGED <<availBig, availSmall, pending, proc, fftQ, mipQ, chunks, reserved>>
      BY <2>1 DEF Open
    <3> QED BY <3>1, UnchangedInv
  <2>2. CASE HandleStart(c)
    BY <2>2, ReleaseInv DEF HandleStart
  <2>3. CASE HandleStop(c)
    BY <2>3, StopInv
  <2>4. CASE Close(c)
    BY <2>4, ReleaseInv DEF Close
  <2> QED BY <2>1, <2>2, <2>3, <2>4
<1> QED BY <1>1, <1>2 DEF IInv

-----------------------------------------------------------------------------
(* The invariant.                                                          *)

\* Every step keeps the invariant.
LEMMA NextInv == IInv /\ [Next]_vars => IInv'
<1> SUFFICES ASSUME IInv, [Next]_vars PROVE IInv'
  OBVIOUS
<1>1. CASE DropBuffer
  BY <1>1, DropInv
<1>2. CASE StartProcessing
  BY <1>2, StartInv
<1>3. CASE FftDone
  BY <1>3, FftInv
<1>4. CASE MipDone
  BY <1>4, MipInv
<1>5. CASE \E c \in Clients : Open(c) \/ HandleStart(c) \/ HandleStop(c) \/ Close(c)
  BY <1>5, ClientInv
<1>6. CASE ExhaustPool \/ UNCHANGED vars
  <2>1. UNCHANGED <<availBig, availSmall, pending, proc, fftQ, mipQ, chunks, reserved>>
    BY <1>6 DEF ExhaustPool, vars
  <2>2. TypeOK'
    BY NextType DEF IInv
  <2> QED BY <2>1, <2>2, UnchangedInv DEF IInv
<1> QED BY <1>1, <1>2, <1>3, <1>4, <1>5, <1>6 DEF Next, MipDone

\* The conjunction of the properties below is inductive.
THEOREM InvariantHolds == Spec => []IInv
BY InitInv, NextInv, PTL DEF Spec

\* Whatever the clients pin and release and however captures, transforms and
\* reductions complete, every buffer has exactly one holder: no freeChunk frees
\* a buffer twice or while someone else has it, and none is lost.
THEOREM SingleOwnerHolds == Spec => []SingleOwner
<1>1. IInv => SingleOwner
  BY DEF IInv
<1> QED BY <1>1, InvariantHolds, PTL

\* No pool and no pipe ever has a buffer twice.
THEOREM NoDuplicatesHolds == Spec => []NoDuplicates
<1>1. IInv => NoDuplicates
  BY DEF IInv
<1> QED BY <1>1, InvariantHolds, PTL

\* A slot of the ring and a pinned chunk have all four buffers or none.
THEOREM PublishedCompleteHolds == Spec => []PublishedComplete
<1>1. IInv => PublishedComplete
  BY DEF IInv
<1> QED BY <1>1, InvariantHolds, PTL

\* What a pipe may write to is held by the queues and the processors.
LEMMA TargetsHeld ==
  ASSUME IInv, NEW b \in DmaTargets
  PROVE  /\ b \in Buffers
         /\ \E h \in Holders : /\ b \in Held[h]
                               /\ \/ h \in {RecvH, FftH, MipH}
                                  \/ \E o \in Small : h = ProcH(o)
<1>0. TypeOK /\ JobsMatch
  BY DEF IInv
<1>1. CASE b \in ToSet(pending) \/ b \in Scratches \/ b \in Destinations
  <2>1. b \in Held[RecvH] \/ b \in Held[FftH] \/ b \in Held[MipH]
    BY <1>1, HeldValues
  <2>2. b \in Buffers
    BY <1>0, <1>1, HeldAreBuffers, BufferFacts
  <2> QED BY <2>1, <2>2, HolderCases
<1>2. ASSUME NEW i \in DOMAIN fftQ, b = fftQ[i].dst
      PROVE  b \in Buffers /\ \E o \in Small : b \in Held[ProcH(o)]
  <2>1. fftQ[i].of \in Small /\ fftQ[i].dst \in Big
    BY <1>0, JobTypes
  <2>2. proc[fftQ[i].of].spectrum = b
    BY <1>0, <1>2 DEF JobsMatch
  <2>3. b \in BuffersOf(proc[fftQ[i].of])
    BY <1>2, <2>1, <2>2, BufferFacts DEF BuffersOf, BigOf
  <2> QED BY <1>2, <2>1, <2>3, HeldValues, BufferFacts
<1> QED BY <1>1, <1>2, HolderCases DEF DmaTargets, Scratches, Destinations

\* What a pipe may write to is neither free, in the ring nor pinned.
LEMMA TargetsIsolated == IInv => DmaIsolated
<1> SUFFICES ASSUME IInv, NEW h \in Holders, h[1] \in {"pool", "slot", "client"},
                    NEW b \in DmaTargets, b \in HeldBy(h)
             PROVE  FALSE
  BY DEF DmaIsolated
<1>1. b \in Held[h]
  BY DEF Held
<1>2. PICK k \in Holders : /\ b \in Held[k]
                           /\ \/ k \in {RecvH, FftH, MipH}
                              \/ \E o \in Small : k = ProcH(o)
  BY TargetsHeld
<1>3. h = k
  BY <1>1, <1>2, TargetsHeld, OneHolder DEF IInv
<1>4. k[1] \in {"recv", "fft", "mip", "proc"}
  BY <1>2 DEF RecvH, FftH, MipH, ProcH
<1> QED BY <1>3, <1>4

\* No pipe ever writes to a buffer that is free, in the ring or pinned.
THEOREM DmaIsolatedHolds == Spec => []DmaIsolated
BY TargetsIsolated, InvariantHolds, PTL

\* A connection that is closed has given back what "stop" had pinned for it.
THEOREM ClosedHoldsNothingHolds == Spec => []ClosedHoldsNothing
<1>1. Init => ClosedHoldsNothing
  BY NoChunkFacts DEF Init, ClosedHoldsNothing
<1>2. TypeOK /\ ClosedHoldsNothing /\ [Next]_vars => ClosedHoldsNothing'
  <2> SUFFICES ASSUME TypeOK, ClosedHoldsNothing, [Next]_vars,
                      NEW c \in Clients, c \notin open'
               PROVE  BuffersOf(reserved'[c]) = {}
    BY DEF ClosedHoldsNothing
  <2>1. CASE UNCHANGED <<open, reserved>>
    BY <2>1 DEF ClosedHoldsNothing
  <2>2. ASSUME NEW d \in Clients, Open(d) PROVE BuffersOf(reserved'[c]) = {}
    BY <2>2 DEF Open, ClosedHoldsNothing
  <2>3. ASSUME NEW d \in Clients, HandleStart(d) PROVE BuffersOf(reserved'[c]) = {}
    BY <2>3 DEF HandleStart, ClosedHoldsNothing, TypeOK
  <2>4. ASSUME NEW d \in Clients, HandleStop(d) PROVE BuffersOf(reserved'[c]) = {}
    <3>1. d # c /\ c \notin open
      BY <2>4 DEF HandleStop
    <3>2. reserved'[c] = reserved[c]
      BY <2>4, <3>1 DEF HandleStop, TypeOK
    <3> QED BY <3>1, <3>2 DEF ClosedHoldsNothing
  <2>5. ASSUME NEW d \in Clients, Close(d) PROVE BuffersOf(reserved'[c]) = {}
    <3>1. CASE d = c
      BY <2>5, <3>1, NoChunkFacts DEF Close, TypeOK
    <3>2. CASE d # c
      BY <2>5, <3>2 DEF Close, ClosedHoldsNothing, TypeOK
    <3> QED BY <3>1, <3>2
  <2>6. CASE DropBuffer \/ StartProcessing \/ ExhaustPool \/ FftDone \/ MipmapDone
             \/ SpectrumMipmapDone \/ UNCHANGED vars
    <3>1. UNCHANGED <<open, reserved>>
      BY <2>6 DEF DropBuffer, StartProcessing, ExhaustPool, FftDone, MipmapDone,
         SpectrumMipmapDone, vars
    <3> QED BY <2>1, <3>1
  <2> QED BY <2>2, <2>3, <2>4, <2>5, <2>6 DEF Next
<1> QED BY <1>1, <1>2, TypeCorrect, PTL DEF Spec
=============================================================================
