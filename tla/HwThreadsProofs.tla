--------------------------- MODULE HwThreadsProofs ---------------------------
(***************************************************************************)
(* The two threads of websdr keep every buffer with one owner, whatever    *)
(* the number of buffers, slots and connections and however their accesses *)
(* fall, until they meet in one of the two races that HwThreads records.   *)
(* An owner is a place that answers for a buffer: the pool, the round of   *)
(* the hardware thread, a call of BufferPool, a slot, the handler that is  *)
(* copying a slot it has marked, or a connection.                          *)
(***************************************************************************)
EXTENDS HwThreads, TLAPS

(* Types.                                                                  *)

Choosing == {"capture", "process", "choose"}
Emptying == {"freeOriginal", "freeMipmap", "clear"}
Storing  == {"storeOriginal", "storeRest", "publish"}
Copying  == {"copyOriginal", "copyRest"}
Snapping == {"snapOriginal", "snapRest", "use"}
Releasing == {"startFreeing", "stopFreeing"}
Reserving == {"reserve", "test", "pin"} \cup Copying

HwLines == Choosing \cup Emptying \cup Storing
ServerLines == {"idle"} \cup Releasing \cup Reserving \cup Snapping

PutCall == [op : {"put"}, buf : Buffers, at : Nat]
GetCall == [op : {"get"}, buf : Buffers, at : Nat, field : {"original", "mipmap"}]

TypeInv ==
  /\ store \in Seq(Buffers)
  /\ size \in Nat /\ size <= Len(store)
  /\ chunks \in [Slots -> Chunk]
  /\ currChunk \in Slots
  /\ reserved \in [Clients -> Chunk]
  /\ pc \in [Threads -> HwLines \cup ServerLines]
  /\ pc["hw"] \in HwLines /\ pc["server"] \in ServerLines
  /\ call \in [Threads -> {NoCall} \cup PutCall \cup GetCall]
  /\ chunk \in [Threads -> Chunk]
  /\ index \in [Threads -> Slots]
  /\ client \in Clients

-----------------------------------------------------------------------------
(* Who has a buffer.                                                       *)

HwSlot     == chunks[index["hw"]]
ServerSlot == chunks[index["server"]]

\* What a slot answers for: nothing of what checkDone has put back already, and
\* nothing that a client has pinned.
SlotOwns(i) ==
  IF i = index["hw"] /\ pc["hw"] = "freeMipmap" THEN {chunks[i].mipmap} \ {Null}
  ELSE IF i = index["hw"] /\ pc["hw"] \in {"clear", "storeOriginal", "storeRest"} THEN {}
  ELSE SlotBuffers(i)

\* What the round has taken and not yet handed to a slot, what a call is putting
\* back, and what a handler has marked and not yet copied.
InRound   == IF pc["hw"] = "publish" THEN {} ELSE BuffersOf(chunk["hw"])
InCall(t) == IF call[t].op = "put" THEN {call[t].buf} ELSE {}
InCopy    == IF pc["server"] \in Copying THEN BuffersOf(ServerSlot) ELSE {}

Owns(h) ==
  CASE h[1] = "pool"   -> Free
    [] h[1] = "round"  -> InRound
    [] h[1] = "copy"   -> InCopy
    [] h[1] = "call"   -> InCall(h[2])
    [] h[1] = "slot"   -> SlotOwns(h[2])
    [] h[1] = "client" -> BuffersOf(reserved[h[2]])

Owners == {<<"pool", 0>>, <<"round", 0>>, <<"copy", 0>>}
            \cup {<<"call", t>> : t \in Threads}
            \cup {<<"slot", i>> : i \in Slots}
            \cup {<<"client", c>> : c \in Clients}

Own == [h \in Owners |-> Owns(h)]

Partition(own) ==
  \A b \in Buffers : \E h \in Owners : \A k \in Owners : b \in own[k] <=> k = h

OneOwner == Partition(Own)

NoTwice == \A i, j \in 1 .. size : store[i] = store[j] => i = j

-----------------------------------------------------------------------------
(* The inductive invariant.                                                *)

\* One call of BufferPool at a time, and the size it found still holds.
CallInv ==
  /\ call["hw"] = NoCall \/ call["server"] = NoCall
  /\ \A t \in Threads : call[t] # NoCall => call[t].at = size
  /\ call["hw"].op = "get" => size > 0 /\ call["hw"].buf = store[size]
  /\ call["server"].op # "get"
  /\ call["hw"].op = "put" => pc["hw"] \in {"freeMipmap", "clear"}
  /\ call["hw"].op = "get" => \/ pc["hw"] = "process" /\ call["hw"].field = "original"
                              \/ pc["hw"] = "choose" /\ call["hw"].field = "mipmap"
  /\ call["server"].op = "put" => pc["server"] \in Releasing

Distinct(ch) == ch.original = Null \/ ch.original # ch.mipmap

\* The chunk that is under way has what the lines before have taken.
ChunkInv ==
  /\ pc["hw"] = "capture" => chunk["hw"] = NoChunk
  /\ pc["hw"] = "process" => /\ chunk["hw"].mipmap = Null
                             /\ call["hw"].op = "get" => chunk["hw"].original = Null
  /\ pc["hw"] = "choose" /\ call["hw"].op = "get" => chunk["hw"].mipmap = Null
  /\ Distinct(chunk["hw"])

\* The slot that checkDone works on; what it still points to after freeChunk
\* has put it back is in the pool or on the way there.
Returned == Free \cup {Null} \cup InCall("hw")

SlotInv ==
  /\ pc["hw"] \in Emptying => ~HwSlot.noFree
  /\ pc["hw"] \in {"freeMipmap", "clear"} => HwSlot.original \in Returned
  /\ pc["hw"] = "clear" => HwSlot.mipmap \in Returned
  /\ pc["hw"] = "storeOriginal" => HwSlot.noFree \/ HwSlot = NoChunk
  /\ pc["hw"] = "storeRest" => /\ HwSlot.original = chunk["hw"].original
                               /\ HwSlot.noFree \/ HwSlot.mipmap = Null
  /\ pc["hw"] = "publish" => /\ HwSlot.original = chunk["hw"].original
                             /\ HwSlot.mipmap = chunk["hw"].mipmap
                             /\ ~HwSlot.noFree
  /\ \A i \in Slots : ~chunks[i].noFree => Distinct(chunks[i])

\* A handler reads the slot that it has marked, or shows one that checkDone has
\* not come round to.
Looking == pc["server"] \in Copying \/ (pc["server"] \in Snapping /\ "show" \notin races)

\* The slot that a handler reads is as it found it.
ServerInv ==
  /\ pc["server"] = "pin" => ~ServerSlot.noFree
  /\ pc["server"] \in Copying => ServerSlot.noFree /\ Distinct(ServerSlot)
  /\ pc["server"] \in {"copyRest", "snapRest"} /\ Looking =>
       chunk["server"].original = ServerSlot.original
  /\ pc["server"] \in Reserving => BuffersOf(reserved[client]) = {}
  /\ pc["server"] = "use" /\ ~chunk["server"].noFree /\ Looking =>
       /\ chunk["server"].original = ServerSlot.original
       /\ chunk["server"].mipmap = ServerSlot.mipmap
       /\ ~ServerSlot.noFree
  /\ \A c \in Clients : /\ HasData(reserved[c]) => reserved[c].noFree
                        /\ Distinct(reserved[c])

\* checkDone works on the slot after the latest, and not on one that is read.
WindowInv ==
  pc["hw"] \notin Choosing =>
    /\ index["hw"] = IF currChunk = RingSize - 1 THEN 0 ELSE currChunk + 1
    /\ Looking => index["hw"] # index["server"]

IInv == /\ TypeInv /\ OneOwner /\ NoTwice /\ CallInv /\ ChunkInv /\ SlotInv
        /\ ServerInv /\ WindowInv

-----------------------------------------------------------------------------
(* Types.                                                                  *)

\* A chunk and its fields.
LEMMA ChunkFacts ==
  /\ NoChunk \in Chunk
  /\ \A ch \in Chunk : /\ ch.original \in Buffers \cup {Null}
                       /\ ch.mipmap \in Buffers \cup {Null}
                       /\ ch.noFree \in BOOLEAN
BY DEF NoChunk, Chunk

\* What a call is: none, a put or a get, which the op tells apart.
LEMMA CallFacts ==
  /\ NoCall.op = "none"
  /\ \A k \in {NoCall} \cup PutCall \cup GetCall :
       /\ k.op \in {"none", "put", "get"}
       /\ k.op = "none" <=> k = NoCall
       /\ k.op = "put" => k \in PutCall /\ k.buf \in Buffers /\ k.at \in Nat
       /\ k.op = "get" => /\ k \in GetCall /\ k.buf \in Buffers /\ k.at \in Nat
                          /\ k.field \in {"original", "mipmap"}
BY DEF NoCall, PutCall, GetCall

\* The end of a get stores into one field.
LEMMA EndGetCases ==
  ASSUME TypeInv, NEW t \in Threads, EndGet(t)
  PROVE  /\ call[t] \in GetCall
         /\ call[t].field = "original" => chunk' = [chunk EXCEPT ![t].original = call[t].buf]
         /\ call[t].field = "mipmap" => chunk' = [chunk EXCEPT ![t].mipmap = call[t].buf]
BY CallFacts DEF EndGet, TypeInv

\* Where each thread is after a step of one of them.
LEMMA GotoHw ==
  ASSUME TypeInv, NEW l \in HwLines, Goto("hw", l)
  PROVE  /\ pc' \in [Threads -> HwLines \cup ServerLines]
         /\ pc'["hw"] = l /\ pc'["server"] = pc["server"]
BY DEF TypeInv, Goto, Threads

\* The same for the server thread.
LEMMA GotoServer ==
  ASSUME TypeInv, NEW l \in ServerLines, Goto("server", l)
  PROVE  /\ pc' \in [Threads -> HwLines \cup ServerLines]
         /\ pc'["server"] = l /\ pc'["hw"] = pc["hw"]
BY DEF TypeInv, Goto, Threads

\* The lines, one by one.
LEMMA Lines ==
  /\ {"capture", "process", "choose", "freeOriginal", "freeMipmap", "clear",
      "storeOriginal", "storeRest", "publish"} \subseteq HwLines
  /\ {"idle", "startFreeing", "stopFreeing", "reserve", "test", "pin", "copyOriginal",
      "copyRest", "snapOriginal", "snapRest", "use"} \subseteq ServerLines
BY DEF HwLines, ServerLines, Choosing, Emptying, Storing, Copying, Snapping, Releasing,
       Reserving

\* A step that runs no race finds the other thread in no call.
LEMMA Alone ==
  ASSUME Orderly', NEW t \in Threads, Enters(t)
  PROVE  races' = races /\ \A u \in Threads \ {t} : call[u] = NoCall
<1>1. \A u \in Threads \ {t} : call[u] = NoCall
  BY DEF Orderly, Enters
<1> QED BY <1>1 DEF Enters

\* A call that begins: the other thread is in none, and the size is noted.
LEMMA BeginPutFacts ==
  ASSUME TypeInv, Orderly', NEW t \in Threads, NEW b \in Buffers \cup {Null}, BeginPut(t, b)
  PROVE  /\ call' \in [Threads -> {NoCall} \cup PutCall \cup GetCall]
         /\ \A u \in Threads \ {t} : call'[u] = call[u]
         /\ races' = races
         /\ b = Null => call' = call
         /\ b # Null => /\ \A u \in Threads \ {t} : call[u] = NoCall
                        /\ call'[t] = [op |-> "put", buf |-> b, at |-> size]
                        /\ call'[t].op = "put" /\ call'[t].buf = b /\ call'[t].at = size
<1>1. b # Null => Enters(t)
  BY DEF BeginPut
<1>2. b # Null => /\ races' = races
                  /\ \A u \in Threads \ {t} : call[u] = NoCall
  BY <1>1, Alone
<1>3. b = Null => call' = call /\ races' = races
  BY DEF BeginPut
<1>4. b # Null => call' = [call EXCEPT ![t] = [op |-> "put", buf |-> b, at |-> size]]
  BY DEF BeginPut
<1> QED BY <1>2, <1>3, <1>4 DEF TypeInv, PutCall

\* A get begins with the last element in hand.
LEMMA BeginGetFacts ==
  ASSUME TypeInv, Orderly', NEW t \in Threads, NEW f \in {"original", "mipmap"}, BeginGet(t, f)
  PROVE  /\ call' \in [Threads -> {NoCall} \cup PutCall \cup GetCall]
         /\ \A u \in Threads \ {t} : call'[u] = call[u] /\ call[u] = NoCall
         /\ size > 0 /\ races' = races
         /\ call'[t] = [op |-> "get", buf |-> store[size], at |-> size, field |-> f]
         /\ call'[t].op = "get" /\ call'[t].buf = store[size] /\ call'[t].at = size
         /\ call'[t].field = f
<1>1. size \in 1 .. Len(store)
  BY DEF TypeInv, BeginGet
<1>2. store[size] \in Buffers
  BY <1>1 DEF TypeInv
<1>3. races' = races /\ \A u \in Threads \ {t} : call[u] = NoCall
  BY Alone DEF BeginGet
<1>4. call' = [call EXCEPT ![t] = [op |-> "get", buf |-> store[size], at |-> size,
                                  field |-> f]]
  BY DEF BeginGet
<1> QED BY <1>2, <1>3, <1>4 DEF TypeInv, BeginGet, GetCall

-----------------------------------------------------------------------------
(* What each action does, cell by cell, the types among it.                *)

\* The lines that only move the hardware thread and begin a call.
LEMMA CaptureDoes ==
  ASSUME TypeInv, Orderly', Capture
  PROVE  /\ TypeInv'
         /\ pc["hw"] = "capture" /\ pc'["hw"] = "process" /\ pc'["server"] = pc["server"]
         /\ call["hw"] = NoCall /\ call["server"] = NoCall /\ call'["server"] = NoCall
         /\ size > 0 /\ call'["hw"].op = "get" /\ call'["hw"].field = "original"
         /\ call'["hw"].at = size /\ call'["hw"].buf = store[size]
         /\ UNCHANGED <<store, size, chunks, currChunk, reserved, chunk, index, client, races>>
<1>1. BeginGet("hw", "original") /\ Goto("hw", "process") /\ At("hw", "capture")
      /\ UNCHANGED <<store, size, chunks, currChunk, reserved, chunk, index, client>>
  BY DEF Capture, pool, ring
<1>2. TypeInv'
  BY <1>1, BeginGetFacts, GotoHw, Lines DEF TypeInv, Threads
<1> QED BY <1>1, <1>2, BeginGetFacts, GotoHw, Lines DEF At, Threads

\* The mipmap's buffer is taken in the same way.
LEMMA ProcessDoes ==
  ASSUME TypeInv, Orderly', Process
  PROVE  /\ TypeInv'
         /\ pc["hw"] = "process" /\ pc'["hw"] = "choose" /\ pc'["server"] = pc["server"]
         /\ call["hw"] = NoCall /\ call["server"] = NoCall /\ call'["server"] = NoCall
         /\ size > 0 /\ call'["hw"].op = "get" /\ call'["hw"].field = "mipmap"
         /\ call'["hw"].at = size /\ call'["hw"].buf = store[size]
         /\ UNCHANGED <<store, size, chunks, currChunk, reserved, chunk, index, client, races>>
<1>1. BeginGet("hw", "mipmap") /\ Goto("hw", "choose") /\ At("hw", "process")
      /\ UNCHANGED <<store, size, chunks, currChunk, reserved, chunk, index, client>>
  BY DEF Process, pool, ring
<1>2. TypeInv'
  BY <1>1, BeginGetFacts, GotoHw, Lines DEF TypeInv, Threads
<1> QED BY <1>1, <1>2, BeginGetFacts, GotoHw, Lines DEF At, Threads

\* The next slot, without the remainder.
LEMMA NextSlot ==
  \A i \in Slots : /\ (i + 1) % RingSize \in Slots
                   /\ (i + 1) % RingSize = IF i = RingSize - 1 THEN 0 ELSE i + 1
<1> TAKE i \in Slots
<1>1. i \in Nat /\ RingSize \in Nat /\ RingSize > 0 /\ i <= RingSize - 1
  BY HwThreadsAssumption DEF Slots
<1>2. CASE i = RingSize - 1
  BY <1>1, <1>2 DEF Slots
<1>3. CASE i # RingSize - 1
  BY <1>1, <1>3 DEF Slots
<1> QED BY <1>2, <1>3

\* The slot is chosen, and whether it is freed first.
LEMMA ChooseDoes ==
  ASSUME TypeInv, Orderly', Choose
  PROVE  /\ TypeInv'
         /\ pc["hw"] = "choose" /\ pc'["server"] = pc["server"] /\ call["hw"] = NoCall
         /\ index'["hw"] = (IF currChunk = RingSize - 1 THEN 0 ELSE currChunk + 1)
         /\ index'["server"] = index["server"]
         /\ pc'["hw"] = (IF chunks[index'["hw"]].noFree THEN "storeOriginal"
                         ELSE "freeOriginal")
         /\ races \subseteq races'
         /\ pc["server"] \in Copying => index'["hw"] # index["server"]
         /\ pc["server"] \in Snapping /\ index'["hw"] = index["server"] => "show" \in races'
         /\ UNCHANGED <<store, size, chunks, currChunk, reserved, call, chunk, client>>
<1> DEFINE i == (currChunk + 1) % RingSize
           l == IF chunks[i].noFree THEN "storeOriginal" ELSE "freeOriginal"
<1>1. i \in Slots /\ i = (IF currChunk = RingSize - 1 THEN 0 ELSE currChunk + 1)
  BY NextSlot DEF TypeInv
<1>2. /\ index' = [index EXCEPT !["hw"] = i]
      /\ Goto("hw", l)
      /\ At("hw", "choose")
  BY DEF Choose
<1>3. /\ races \subseteq races'
      /\ pc["server"] \in Copying => i # index["server"]
      /\ pc["server"] \in Snapping /\ i = index["server"] => "show" \in races'
  BY DEF Choose, ComesRound, Reads, Copying, Snapping, Orderly
<1>8. UNCHANGED <<store, size, chunks, currChunk, reserved, call, chunk, client>>
  BY DEF Choose, pool, ring
<1>4. l \in HwLines
  BY Lines
<1> HIDE DEF i
<1>5. index' \in [Threads -> Slots] /\ index'["hw"] = i /\ index'["server"] = index["server"]
  BY <1>1, <1>2 DEF TypeInv, Threads
<1>6. pc' \in [Threads -> HwLines \cup ServerLines] /\ pc'["hw"] = l
      /\ pc'["server"] = pc["server"]
  BY <1>2, <1>4, GotoHw
<1>7. TypeInv'
  BY <1>8, <1>4, <1>5, <1>6 DEF TypeInv
<1> QED BY <1>1, <1>2, <1>3, <1>5, <1>6, <1>7, <1>8 DEF At

\* The two puts of freeChunk.
LEMMA FreeOriginalDoes ==
  ASSUME TypeInv, Orderly', FreeOriginal
  PROVE  /\ TypeInv'
         /\ pc["hw"] = "freeOriginal" /\ pc'["hw"] = "freeMipmap"
         /\ pc'["server"] = pc["server"]
         /\ call["hw"] = NoCall /\ call'["server"] = call["server"]
         /\ HwSlot.original = Null => call' = call
         /\ HwSlot.original # Null => /\ call["server"] = NoCall
                                      /\ call'["hw"].op = "put"
                                      /\ call'["hw"].buf = HwSlot.original
                                      /\ call'["hw"].at = size
         /\ UNCHANGED <<store, size, chunks, currChunk, reserved, chunk, index, client, races>>
<1>1. BeginPut("hw", HwSlot.original) /\ Goto("hw", "freeMipmap") /\ At("hw", "freeOriginal")
      /\ UNCHANGED <<store, size, chunks, currChunk, reserved, chunk, index, client>>
  BY DEF FreeOriginal, pool, ring, HwSlot
<1>2. HwSlot.original \in Buffers \cup {Null}
  BY ChunkFacts DEF TypeInv, HwSlot, Threads
<1>3. TypeInv'
  BY <1>1, <1>2, BeginPutFacts, GotoHw, Lines DEF TypeInv, Threads
<1> QED BY <1>1, <1>2, <1>3, BeginPutFacts, GotoHw, Lines DEF At, Threads

\* The second put of freeChunk.
LEMMA FreeMipmapDoes ==
  ASSUME TypeInv, Orderly', FreeMipmap
  PROVE  /\ TypeInv'
         /\ pc["hw"] = "freeMipmap" /\ pc'["hw"] = "clear"
         /\ pc'["server"] = pc["server"]
         /\ call["hw"] = NoCall /\ call'["server"] = call["server"]
         /\ HwSlot.mipmap = Null => call' = call
         /\ HwSlot.mipmap # Null => /\ call["server"] = NoCall
                                    /\ call'["hw"].op = "put"
                                    /\ call'["hw"].buf = HwSlot.mipmap
                                    /\ call'["hw"].at = size
         /\ UNCHANGED <<store, size, chunks, currChunk, reserved, chunk, index, client, races>>
<1>1. BeginPut("hw", HwSlot.mipmap) /\ Goto("hw", "clear") /\ At("hw", "freeMipmap")
      /\ UNCHANGED <<store, size, chunks, currChunk, reserved, chunk, index, client>>
  BY DEF FreeMipmap, pool, ring, HwSlot
<1>2. HwSlot.mipmap \in Buffers \cup {Null}
  BY ChunkFacts DEF TypeInv, HwSlot, Threads
<1>3. TypeInv'
  BY <1>1, <1>2, BeginPutFacts, GotoHw, Lines DEF TypeInv, Threads
<1> QED BY <1>1, <1>2, <1>3, BeginPutFacts, GotoHw, Lines DEF At, Threads

\* One slot is written, cell by cell.
LEMMA ClearDoes ==
  ASSUME TypeInv, Clear
  PROVE  /\ TypeInv'
         /\ pc["hw"] = "clear" /\ pc'["hw"] = "storeOriginal" /\ pc'["server"] = pc["server"]
         /\ call["hw"] = NoCall
         /\ HwSlot' = NoChunk
         /\ \A i \in Slots \ {index["hw"]} : chunks'[i] = chunks[i]
         /\ UNCHANGED <<store, size, currChunk, reserved, call, chunk, index, client, races>>
<1>1. chunks' = [chunks EXCEPT ![index["hw"]] = NoChunk]
      /\ Goto("hw", "storeOriginal") /\ At("hw", "clear")
      /\ UNCHANGED <<store, size, currChunk, reserved, call, chunk, index, client, races>>
  BY DEF Clear, pool
<1>2. chunks' \in [Slots -> Chunk]
  BY <1>1, ChunkFacts DEF TypeInv
<1>3. TypeInv'
  BY <1>1, <1>2, GotoHw, Lines DEF TypeInv
<1>4. /\ HwSlot' = NoChunk
      /\ \A i \in Slots \ {index["hw"]} : chunks'[i] = chunks[i]
  BY <1>1 DEF TypeInv, HwSlot, Threads
<1> QED BY <1>1, <1>3, <1>4, GotoHw, Lines DEF At

\* The first field is stored over what the slot had.
LEMMA StoreOriginalDoes ==
  ASSUME TypeInv, StoreOriginal
  PROVE  /\ TypeInv'
         /\ pc["hw"] = "storeOriginal" /\ pc'["hw"] = "storeRest"
         /\ pc'["server"] = pc["server"] /\ call["hw"] = NoCall
         /\ HwSlot'.original = chunk["hw"].original
         /\ HwSlot'.mipmap = HwSlot.mipmap /\ HwSlot'.noFree = HwSlot.noFree
         /\ \A i \in Slots \ {index["hw"]} : chunks'[i] = chunks[i]
         /\ UNCHANGED <<store, size, currChunk, reserved, call, chunk, index, client, races>>
<1>1. chunks' = [chunks EXCEPT ![index["hw"]].original = chunk["hw"].original]
      /\ Goto("hw", "storeRest") /\ At("hw", "storeOriginal")
      /\ UNCHANGED <<store, size, currChunk, reserved, call, chunk, index, client, races>>
  BY DEF StoreOriginal, pool
<1>2. chunks \in [Slots -> Chunk] /\ index["hw"] \in Slots /\ chunk["hw"] \in Chunk
  BY DEF TypeInv, Threads
<1>3. chunks' \in [Slots -> Chunk]
  BY <1>1, <1>2 DEF Chunk
<1>4. TypeInv'
  BY <1>1, <1>3, GotoHw, Lines DEF TypeInv
<1>5. /\ HwSlot'.original = chunk["hw"].original
      /\ HwSlot'.mipmap = HwSlot.mipmap /\ HwSlot'.noFree = HwSlot.noFree
      /\ \A i \in Slots \ {index["hw"]} : chunks'[i] = chunks[i]
  BY <1>1, <1>2 DEF HwSlot, Chunk
<1> QED BY <1>1, <1>4, <1>5, GotoHw, Lines DEF At

\* The other fields are stored, and the mark is gone.
LEMMA StoreRestDoes ==
  ASSUME TypeInv, StoreRest
  PROVE  /\ TypeInv'
         /\ pc["hw"] = "storeRest" /\ pc'["hw"] = "publish"
         /\ pc'["server"] = pc["server"] /\ call["hw"] = NoCall
         /\ HwSlot'.original = HwSlot.original
         /\ HwSlot'.mipmap = chunk["hw"].mipmap /\ HwSlot'.noFree = FALSE
         /\ \A i \in Slots \ {index["hw"]} : chunks'[i] = chunks[i]
         /\ UNCHANGED <<store, size, currChunk, reserved, call, chunk, index, client, races>>
<1>1. chunks' = [chunks EXCEPT ![index["hw"]].mipmap = chunk["hw"].mipmap,
                               ![index["hw"]].noFree = FALSE]
      /\ Goto("hw", "publish") /\ At("hw", "storeRest")
      /\ UNCHANGED <<store, size, currChunk, reserved, call, chunk, index, client, races>>
  BY DEF StoreRest, pool
<1>2. chunks \in [Slots -> Chunk] /\ index["hw"] \in Slots /\ chunk["hw"] \in Chunk
  BY DEF TypeInv, Threads
<1>3. chunks' \in [Slots -> Chunk]
  BY <1>1, <1>2 DEF Chunk
<1>4. TypeInv'
  BY <1>1, <1>3, GotoHw, Lines DEF TypeInv
<1>5. /\ HwSlot'.original = HwSlot.original
      /\ HwSlot'.mipmap = chunk["hw"].mipmap /\ HwSlot'.noFree = FALSE
      /\ \A i \in Slots \ {index["hw"]} : chunks'[i] = chunks[i]
  BY <1>1, <1>2 DEF HwSlot, Chunk
<1> QED BY <1>1, <1>4, <1>5, GotoHw, Lines DEF At

\* The slot is announced and the round is over.
LEMMA PublishDoes ==
  ASSUME TypeInv, Publish
  PROVE  /\ TypeInv'
         /\ pc["hw"] = "publish" /\ pc'["hw"] = "capture"
         /\ pc'["server"] = pc["server"] /\ call["hw"] = NoCall
         /\ currChunk' = index["hw"]
         /\ chunk'["hw"] = NoChunk /\ chunk'["server"] = chunk["server"]
         /\ UNCHANGED <<store, size, chunks, reserved, call, index, client, races>>
<1>1. currChunk' = index["hw"] /\ chunk' = [chunk EXCEPT !["hw"] = NoChunk]
      /\ Goto("hw", "capture") /\ At("hw", "publish")
      /\ UNCHANGED <<store, size, chunks, reserved, call, index, client, races>>
  BY DEF Publish, pool
<1>2. chunk' \in [Threads -> Chunk] /\ chunk'["hw"] = NoChunk
      /\ chunk'["server"] = chunk["server"]
  BY <1>1, ChunkFacts DEF TypeInv, Threads
<1>3. currChunk' \in Slots
  BY <1>1 DEF TypeInv, Threads
<1>4. TypeInv'
  BY <1>1, <1>2, <1>3, GotoHw, Lines DEF TypeInv
<1> QED BY <1>1, <1>2, <1>4, GotoHw, Lines DEF At

\* The end of a put: the storage keeps what it had below the size that was found.
LEMMA EndPutDoes ==
  ASSUME TypeInv, CallInv, NEW t \in Threads, EndPut(t)
  PROVE  /\ TypeInv'
         /\ call[t].op = "put" /\ call[t].buf \in Buffers /\ call[t].at = size
         /\ call'[t] = NoCall /\ \A u \in Threads \ {t} : call'[u] = call[u]
         /\ size' = size + 1
         /\ store'[size + 1] = call[t].buf
         /\ \A i \in 1 .. size : store'[i] = store[i]
         /\ UNCHANGED <<chunks, currChunk, reserved, pc, chunk, index, client, races>>
<1>1. /\ call[t].op = "put" /\ call[t].at = size /\ call[t].buf \in Buffers
      /\ size' = size + 1
  BY CallFacts DEF EndPut, TypeInv, CallInv
<1>2. store' = IF size + 1 > Len(store) THEN Append(store, call[t].buf)
               ELSE [store EXCEPT ![size + 1] = call[t].buf]
  BY <1>1 DEF EndPut
<1>3. store \in Seq(Buffers) /\ size \in Nat /\ size <= Len(store)
  BY DEF TypeInv
<1>4. /\ store' \in Seq(Buffers) /\ size' <= Len(store') /\ size' \in Nat
      /\ store'[size + 1] = call[t].buf
      /\ \A i \in 1 .. size : store'[i] = store[i]
  <2>1. CASE size + 1 > Len(store)
    <3>1. size = Len(store) /\ store' = Append(store, call[t].buf)
      BY <1>2, <1>3, <2>1
    <3> QED BY <1>1, <1>3, <3>1
  <2>2. CASE ~(size + 1 > Len(store))
    <3>1. store' = [store EXCEPT ![size + 1] = call[t].buf] /\ size + 1 \in 1 .. Len(store)
      BY <1>2, <1>3, <2>2
    <3> QED BY <1>1, <1>3, <3>1
  <2> QED BY <2>1, <2>2
<1>5. /\ call' = [call EXCEPT ![t] = NoCall]
      /\ UNCHANGED <<chunks, currChunk, reserved, pc, chunk, index, client, races>>
  BY DEF EndPut, ring
<1>6. /\ call' \in [Threads -> {NoCall} \cup PutCall \cup GetCall]
      /\ call'[t] = NoCall /\ \A u \in Threads \ {t} : call'[u] = call[u]
  BY <1>5 DEF TypeInv
<1>7. TypeInv'
  BY <1>4, <1>5, <1>6 DEF TypeInv
<1> QED BY <1>1, <1>4, <1>5, <1>6, <1>7

\* The end of a get: the last element is one of the round's buffers.
LEMMA EndGetDoes ==
  ASSUME TypeInv, CallInv, EndGet("hw")
  PROVE  /\ TypeInv'
         /\ call["hw"].op = "get" /\ call["server"] = NoCall
         /\ size > 0 /\ size' = size - 1
         /\ call'["hw"] = NoCall /\ call'["server"] = NoCall
         /\ chunk'["server"] = chunk["server"]
         /\ chunk'["hw"].noFree = chunk["hw"].noFree
         /\ call["hw"].field = "original" => /\ chunk'["hw"].original = store[size]
                                             /\ chunk'["hw"].mipmap = chunk["hw"].mipmap
         /\ call["hw"].field = "mipmap" => /\ chunk'["hw"].mipmap = store[size]
                                           /\ chunk'["hw"].original = chunk["hw"].original
         /\ call["hw"].field \in {"original", "mipmap"}
         /\ UNCHANGED <<store, chunks, currChunk, reserved, pc, index, client, races>>
<1>1. "hw" \in Threads /\ "server" \in Threads
  BY DEF Threads
<1>2. /\ call["hw"].op = "get" /\ call["hw"].at = size /\ call["hw"].buf = store[size]
      /\ call["hw"].buf \in Buffers /\ call["hw"].field \in {"original", "mipmap"}
      /\ size > 0 /\ size' = size - 1 /\ call["server"] = NoCall
  BY <1>1, CallFacts DEF EndGet, TypeInv, CallInv
<1>3. /\ call' = [call EXCEPT !["hw"] = NoCall]
      /\ UNCHANGED <<store, chunks, currChunk, reserved, pc, index, client, races>>
  BY DEF EndGet, ring
<1>4. /\ call' \in [Threads -> {NoCall} \cup PutCall \cup GetCall]
      /\ call'["hw"] = NoCall /\ call'["server"] = NoCall
  BY <1>1, <1>2, <1>3 DEF TypeInv, Threads
<1>5. chunk \in [Threads -> Chunk] /\ chunk["hw"] \in Chunk
  BY <1>1 DEF TypeInv
<1>6. /\ chunk' \in [Threads -> Chunk]
      /\ chunk'["server"] = chunk["server"]
      /\ chunk'["hw"].noFree = chunk["hw"].noFree
      /\ call["hw"].field = "original" => /\ chunk'["hw"].original = store[size]
                                          /\ chunk'["hw"].mipmap = chunk["hw"].mipmap
      /\ call["hw"].field = "mipmap" => /\ chunk'["hw"].mipmap = store[size]
                                        /\ chunk'["hw"].original = chunk["hw"].original
  <2>1. CASE call["hw"].field = "original"
    <3>1. chunk' = [chunk EXCEPT !["hw"].original = store[size]]
      BY <1>1, <1>2, <2>1, EndGetCases
    <3> QED BY <1>1, <1>2, <1>5, <2>1, <3>1 DEF Chunk, Threads
  <2>2. CASE call["hw"].field = "mipmap"
    <3>1. chunk' = [chunk EXCEPT !["hw"].mipmap = store[size]]
      BY <1>1, <1>2, <2>2, EndGetCases
    <3> QED BY <1>1, <1>2, <1>5, <2>2, <3>1 DEF Chunk, Threads
  <2> QED BY <1>2, <2>1, <2>2
<1>7. TypeInv'
  BY <1>2, <1>3, <1>4, <1>6 DEF TypeInv
<1> QED BY <1>2, <1>3, <1>4, <1>6, <1>7

\* A handler begins.
LEMMA StartDoes ==
  ASSUME TypeInv, NEW c \in Clients, Start(c)
  PROVE  /\ TypeInv'
         /\ pc["server"] = "idle" /\ call["server"] = NoCall /\ pc'["hw"] = pc["hw"]
         /\ pc'["server"] \in {"startFreeing", "idle"}
         /\ client' = c
         /\ races' = races \ {"show"}
         /\ UNCHANGED <<store, size, chunks, currChunk, reserved, call, chunk, index>>
<1> DEFINE l == IF HasData(reserved[c]) THEN "startFreeing" ELSE "idle"
<1>1. /\ Goto("server", l) /\ At("server", "idle") /\ client' = c
      /\ races' = races \ {"show"}
      /\ UNCHANGED <<store, size, chunks, currChunk, reserved, call, chunk, index>>
  BY DEF Start, Enter, Freeing, Released, pool, ring, Choosing
<1>2. l \in ServerLines /\ l \in {"startFreeing", "idle"}
  BY Lines
<1> HIDE DEF l
<1>3. TypeInv'
  BY <1>1, <1>2, GotoServer DEF TypeInv
<1> QED BY <1>1, <1>2, <1>3, GotoServer DEF At

\* A stop that has nothing to free goes on to reserve.
LEMMA StopDoes ==
  ASSUME TypeInv, NEW c \in Clients, Stop(c)
  PROVE  /\ TypeInv'
         /\ pc["server"] = "idle" /\ call["server"] = NoCall /\ pc'["hw"] = pc["hw"]
         /\ pc'["server"] = IF HasData(reserved[c]) THEN "stopFreeing" ELSE "reserve"
         /\ client' = c
         /\ races' = races \ {"show"}
         /\ UNCHANGED <<store, size, chunks, currChunk, reserved, call, chunk, index>>
<1> DEFINE l == IF HasData(reserved[c]) THEN "stopFreeing" ELSE "reserve"
<1>1. /\ Goto("server", l) /\ At("server", "idle") /\ client' = c
      /\ races' = races \ {"show"}
      /\ UNCHANGED <<store, size, chunks, currChunk, reserved, call, chunk, index>>
  BY DEF Stop, Enter, Freeing, Released, pool, ring, Choosing
<1>2. l \in ServerLines
  BY Lines
<1> HIDE DEF l
<1>3. TypeInv'
  BY <1>1, <1>2, GotoServer DEF TypeInv
<1>4. pc'["server"] = l /\ pc'["hw"] = pc["hw"]
  BY <1>1, <1>2, GotoServer
<1> QED BY <1>1, <1>3, <1>4 DEF At, l

\* The timer shows the pinned chunk, or looks at the latest slot.
LEMMA TimerDoes ==
  ASSUME TypeInv, NEW c \in Clients, Timer(c)
  PROVE  /\ TypeInv'
         /\ pc["server"] = "idle" /\ call["server"] = NoCall /\ pc'["hw"] = pc["hw"]
         /\ pc'["server"] = IF HasData(reserved[c]) THEN "use" ELSE "snapOriginal"
         /\ client' = c
         /\ races' = races \ {"show"}
         /\ chunk'["server"] = IF HasData(reserved[c]) THEN reserved[c] ELSE NoChunk
         /\ chunk'["hw"] = chunk["hw"]
         /\ index'["server"] = currChunk /\ index'["hw"] = index["hw"]
         /\ UNCHANGED <<store, size, chunks, currChunk, reserved, call>>
<1> DEFINE l == IF HasData(reserved[c]) THEN "use" ELSE "snapOriginal"
           ch == IF HasData(reserved[c]) THEN reserved[c] ELSE NoChunk
<1>1. /\ Goto("server", l) /\ At("server", "idle") /\ client' = c
      /\ races' = races \ {"show"}
      /\ chunk' = [chunk EXCEPT !["server"] = ch]
      /\ index' = [index EXCEPT !["server"] = currChunk]
      /\ UNCHANGED <<store, size, chunks, currChunk, reserved, call>>
  BY DEF Timer, Enter, pool, ring, Choosing
<1>2. l \in ServerLines
  BY Lines
<1>3. ch \in Chunk
  BY ChunkFacts DEF TypeInv
<1> HIDE DEF l, ch
<1>4. /\ chunk' \in [Threads -> Chunk] /\ index' \in [Threads -> Slots]
      /\ chunk'["server"] = ch /\ chunk'["hw"] = chunk["hw"]
      /\ index'["server"] = currChunk /\ index'["hw"] = index["hw"]
  BY <1>1, <1>3 DEF TypeInv, Threads
<1>5. pc'["server"] = l /\ pc'["hw"] = pc["hw"]
      /\ pc' \in [Threads -> HwLines \cup ServerLines]
  BY <1>1, <1>2, GotoServer
<1>6. TypeInv'
  BY <1>1, <1>2, <1>4, <1>5 DEF TypeInv
<1> QED BY <1>1, <1>4, <1>5, <1>6 DEF At, l, ch

\* One pointer of the handler's copy is put back, or none is left.
LEMMA ReleaseNextDoes ==
  ASSUME TypeInv, Orderly', NEW op \in {"start", "stop"}, ReleaseNext(op)
  PROVE  /\ TypeInv'
         /\ pc["server"] \in Releasing /\ call["server"] = NoCall /\ pc'["hw"] = pc["hw"]
         /\ call'["hw"] = call["hw"]
         /\ \A c \in Clients \ {client} : reserved'[c] = reserved[c]
         /\ \/ /\ HasData(reserved[client]) /\ pc' = pc /\ call["hw"] = NoCall
               /\ call'["server"].op = "put" /\ call'["server"].at = size
               /\ reserved'[client].noFree = reserved[client].noFree
               /\ \/ /\ reserved[client].original # Null
                     /\ call'["server"].buf = reserved[client].original
                     /\ reserved'[client].original = Null
                     /\ reserved'[client].mipmap = reserved[client].mipmap
                  \/ /\ reserved[client].original = Null /\ reserved[client].mipmap # Null
                     /\ call'["server"].buf = reserved[client].mipmap
                     /\ reserved'[client].mipmap = Null
                     /\ reserved'[client].original = reserved[client].original
            \/ /\ ~HasData(reserved[client]) /\ reserved'[client] = NoChunk
               /\ pc'["server"] \in {"idle", "reserve"} /\ call' = call
         /\ UNCHANGED <<store, size, chunks, currChunk, chunk, index, client, races>>
<1> DEFINE ch == reserved[client]
           f  == IF ch.original # Null THEN "original" ELSE "mipmap"
<1>1. /\ pc["server"] \in Releasing /\ call["server"] = NoCall
      /\ UNCHANGED <<store, size, chunks, currChunk, chunk, index, client>>
  BY DEF ReleaseNext, At, Freeing, Releasing, pool, ring
<1>2. client \in Clients /\ reserved \in [Clients -> Chunk] /\ ch \in Chunk
      /\ "server" \in Threads /\ "hw" \in Threads
  BY DEF TypeInv, Threads
<1>3. CASE HasData(ch)
  <2>1. /\ BeginPut("server", ch[f]) /\ pc' = pc
        /\ reserved' = [reserved EXCEPT ![client][f] = Null]
    BY <1>3 DEF ReleaseNext
  <2>2. CASE ch.original # Null
    <3>1. /\ BeginPut("server", ch.original) /\ ch.original \in Buffers
          /\ reserved' = [reserved EXCEPT ![client].original = Null]
      BY <1>2, <2>1, <2>2, ChunkFacts
    <3>2. /\ reserved' \in [Clients -> Chunk]
          /\ reserved'[client].noFree = ch.noFree
          /\ reserved'[client].original = Null /\ reserved'[client].mipmap = ch.mipmap
          /\ \A c \in Clients \ {client} : reserved'[c] = reserved[c]
      BY <1>2, <3>1 DEF Chunk
    <3>3. TypeInv'
      BY <1>1, <2>1, <3>1, <3>2, <1>2, BeginPutFacts DEF TypeInv
    <3>4. ch.original # Null
      BY <3>1 DEF Null, Buffers
    <3>5. /\ races' = races /\ call["hw"] = NoCall /\ call'["hw"] = call["hw"]
          /\ call'["server"].op = "put" /\ call'["server"].at = size
          /\ call'["server"].buf = ch.original
      <4> DEFINE b == ch.original
      <4>1. b \in Buffers \cup {Null} /\ BeginPut("server", b) /\ b # Null
        BY <3>1, <3>4
      <4> HIDE DEF b
      <4>2. /\ races' = races
            /\ \A u \in Threads \ {"server"} : call'[u] = call[u] /\ call[u] = NoCall
            /\ call'["server"].op = "put" /\ call'["server"].at = size
            /\ call'["server"].buf = b
        BY <1>2, <4>1, BeginPutFacts
      <4> QED BY <4>2 DEF Threads, b
    <3> HIDE DEF f
    <3> QED BY <1>1, <1>3, <2>1, <2>2, <3>2, <3>3, <3>4, <3>5
  <2>3. CASE ch.original = Null
    <3>1. /\ BeginPut("server", ch.mipmap) /\ ch.mipmap \in Buffers /\ ch.mipmap # Null
          /\ reserved' = [reserved EXCEPT ![client].mipmap = Null]
      BY <1>2, <1>3, <2>1, <2>3, ChunkFacts DEF HasData
    <3>2. /\ reserved' \in [Clients -> Chunk]
          /\ reserved'[client].noFree = ch.noFree
          /\ reserved'[client].mipmap = Null /\ reserved'[client].original = ch.original
          /\ \A c \in Clients \ {client} : reserved'[c] = reserved[c]
      BY <1>2, <3>1 DEF Chunk
    <3>3. TypeInv'
      BY <1>1, <2>1, <3>1, <3>2, <1>2, BeginPutFacts DEF TypeInv
    <3>4. ch.mipmap # Null
      BY <3>1 DEF Null, Buffers
    <3>5. /\ races' = races /\ call["hw"] = NoCall /\ call'["hw"] = call["hw"]
          /\ call'["server"].op = "put" /\ call'["server"].at = size
          /\ call'["server"].buf = ch.mipmap
      <4> DEFINE b == ch.mipmap
      <4>1. b \in Buffers \cup {Null} /\ BeginPut("server", b) /\ b # Null
        BY <3>1, <3>4
      <4> HIDE DEF b
      <4>2. /\ races' = races
            /\ \A u \in Threads \ {"server"} : call'[u] = call[u] /\ call[u] = NoCall
            /\ call'["server"].op = "put" /\ call'["server"].at = size
            /\ call'["server"].buf = b
        BY <1>2, <4>1, BeginPutFacts
      <4> QED BY <4>2 DEF Threads, b
    <3> HIDE DEF f
    <3> QED BY <1>1, <1>3, <2>1, <2>3, <3>2, <3>3, <3>4, <3>5
  <2> QED BY <2>2, <2>3
<1>4. CASE ~HasData(ch)
  <2>1. /\ reserved' = [reserved EXCEPT ![client] = NoChunk]
        /\ Goto("server", Released(op)) /\ call' = call /\ races' = races
    BY <1>4 DEF ReleaseNext
  <2>2. Released(op) \in {"idle", "reserve"} /\ Released(op) \in ServerLines
    BY Lines DEF Released
  <2>3. /\ reserved' \in [Clients -> Chunk] /\ reserved'[client] = NoChunk
        /\ \A c \in Clients \ {client} : reserved'[c] = reserved[c]
    BY <1>2, <2>1, ChunkFacts
  <2>4. /\ pc'["server"] \in {"idle", "reserve"} /\ pc'["hw"] = pc["hw"]
        /\ pc'["server"] \in ServerLines
        /\ pc' \in [Threads -> HwLines \cup ServerLines]
    BY <2>1, <2>2, GotoServer
  <2>5. TypeInv'
    BY <1>1, <2>1, <2>3, <2>4 DEF TypeInv
  <2> QED BY <1>1, <1>4, <2>1, <2>3, <2>4, <2>5
<1> QED BY <1>3, <1>4

\* The lines of hw_reserveChunk.
LEMMA ReserveDoes ==
  ASSUME TypeInv, Reserve
  PROVE  /\ TypeInv'
         /\ pc["server"] = "reserve" /\ pc'["server"] = "test" /\ pc'["hw"] = pc["hw"]
         /\ call["server"] = NoCall
         /\ index'["server"] = currChunk /\ index'["hw"] = index["hw"]
         /\ UNCHANGED <<store, size, chunks, currChunk, reserved, call, chunk, client, races>>
<1>1. /\ index' = [index EXCEPT !["server"] = currChunk]
      /\ Goto("server", "test") /\ At("server", "reserve")
      /\ UNCHANGED <<store, size, chunks, currChunk, reserved, call, chunk, client, races>>
  BY DEF Reserve, pool, ring
<1>2. index' \in [Threads -> Slots] /\ index'["server"] = currChunk
      /\ index'["hw"] = index["hw"]
  BY <1>1 DEF TypeInv, Threads
<1>3. TypeInv'
  BY <1>1, <1>2, GotoServer, Lines DEF TypeInv
<1> QED BY <1>1, <1>2, <1>3, GotoServer, Lines DEF At

\* A marked slot ends the handler.
LEMMA TestDoes ==
  ASSUME TypeInv, Test
  PROVE  /\ TypeInv'
         /\ pc["server"] = "test" /\ pc'["hw"] = pc["hw"] /\ call["server"] = NoCall
         /\ pc'["server"] = IF ServerSlot.noFree THEN "idle" ELSE "pin"
         /\ UNCHANGED <<store, size, chunks, currChunk, reserved, call, chunk, index, client, races>>
<1> DEFINE l == IF ServerSlot.noFree THEN "idle" ELSE "pin"
<1>1. /\ Goto("server", l) /\ At("server", "test")
      /\ UNCHANGED <<store, size, chunks, currChunk, reserved, call, chunk, index, client, races>>
  BY DEF Test, pool, ring, ServerSlot
<1>2. l \in ServerLines
  BY Lines
<1> HIDE DEF l
<1>3. TypeInv'
  BY <1>1, <1>2, GotoServer DEF TypeInv
<1>4. pc'["server"] = l /\ pc'["hw"] = pc["hw"]
  BY <1>1, <1>2, GotoServer
<1> QED BY <1>1, <1>3, <1>4 DEF At, l

\* The mark, and nothing else in the slot, is set.
LEMMA PinDoes ==
  ASSUME TypeInv, Orderly', Pin
  PROVE  /\ TypeInv'
         /\ pc["server"] = "pin" /\ pc'["server"] = "copyOriginal" /\ pc'["hw"] = pc["hw"]
         /\ call["server"] = NoCall
         /\ ServerSlot'.noFree = TRUE
         /\ ServerSlot'.original = ServerSlot.original
         /\ ServerSlot'.mipmap = ServerSlot.mipmap
         /\ \A i \in Slots \ {index["server"]} : chunks'[i] = chunks[i]
         /\ pc["hw"] \notin Choosing => index["hw"] # index["server"]
         /\ UNCHANGED <<store, size, currChunk, reserved, call, chunk, index, client, races>>
<1>1. /\ chunks' = [chunks EXCEPT ![index["server"]].noFree = TRUE]
      /\ Goto("server", "copyOriginal") /\ At("server", "pin")
      /\ UNCHANGED <<store, size, currChunk, reserved, call, chunk, index, client>>
      /\ Marks
  BY DEF Pin, pool
<1>2. chunks \in [Slots -> Chunk] /\ index["server"] \in Slots
  BY DEF TypeInv, Threads
<1>3. chunks' \in [Slots -> Chunk]
  BY <1>1, <1>2 DEF Chunk
<1>4. TypeInv'
  BY <1>1, <1>3, GotoServer, Lines DEF TypeInv
<1>5. /\ ServerSlot'.noFree = TRUE
      /\ ServerSlot'.original = ServerSlot.original
      /\ ServerSlot'.mipmap = ServerSlot.mipmap
      /\ \A i \in Slots \ {index["server"]} : chunks'[i] = chunks[i]
  BY <1>1, <1>2 DEF ServerSlot, Chunk
<1>6. pc["hw"] \notin Choosing => index["hw"] # index["server"]
  BY <1>1 DEF Marks, Orderly, Choosing
<1>7. races' = races
  BY <1>1, <1>6 DEF Marks, Choosing
<1> QED BY <1>1, <1>4, <1>5, <1>6, <1>7, GotoServer, Lines DEF At

\* The copies, and the end of a snapshot.
LEMMA CopyOriginalDoes ==
  ASSUME TypeInv, NEW from \in ServerLines, NEW to \in ServerLines, CopyOriginal(from, to)
  PROVE  /\ TypeInv'
         /\ pc["server"] = from /\ pc'["server"] = to /\ pc'["hw"] = pc["hw"]
         /\ call["server"] = NoCall
         /\ chunk'["server"].original = ServerSlot.original
         /\ chunk'["hw"] = chunk["hw"]
         /\ UNCHANGED <<store, size, chunks, currChunk, reserved, call, index, client, races>>
<1> DEFINE ch == [NoChunk EXCEPT !.original = ServerSlot.original]
<1>1. /\ chunk' = [chunk EXCEPT !["server"] = ch]
      /\ Goto("server", to) /\ At("server", from)
      /\ UNCHANGED <<store, size, chunks, currChunk, reserved, call, index, client, races>>
  BY DEF CopyOriginal, pool, ring, ServerSlot
<1>2. ServerSlot \in Chunk
  BY DEF TypeInv, Threads, ServerSlot
<1>3. ch \in Chunk /\ ch.original = ServerSlot.original
  BY <1>2 DEF Chunk, NoChunk
<1> HIDE DEF ch
<1>4. /\ chunk' \in [Threads -> Chunk]
      /\ chunk'["server"] = ch /\ chunk'["hw"] = chunk["hw"]
  BY <1>1, <1>3 DEF TypeInv, Threads
<1>5. TypeInv'
  BY <1>1, <1>4, GotoServer DEF TypeInv
<1> QED BY <1>1, <1>3, <1>4, <1>5, GotoServer DEF At

\* The handler keeps what it copied, if that is a chunk.
LEMMA CopyRestDoes ==
  ASSUME TypeInv, CopyRest
  PROVE  /\ TypeInv'
         /\ pc["server"] = "copyRest" /\ pc'["server"] = "idle" /\ pc'["hw"] = pc["hw"]
         /\ call["server"] = NoCall
         /\ \/ /\ reserved'[client].original = chunk["server"].original
               /\ reserved'[client].mipmap = ServerSlot.mipmap
               /\ reserved'[client].noFree = ServerSlot.noFree
            \/ /\ reserved'[client] = NoChunk
               /\ chunk["server"].original = Null /\ ServerSlot.mipmap = Null
         /\ \A c \in Clients \ {client} : reserved'[c] = reserved[c]
         /\ chunk'["server"] = NoChunk /\ chunk'["hw"] = chunk["hw"]
         /\ UNCHANGED <<store, size, chunks, currChunk, call, index, client, races>>
<1> DEFINE got == [chunk["server"] EXCEPT !.mipmap = ServerSlot.mipmap,
                                          !.noFree = ServerSlot.noFree]
           ch == IF HasData(got) THEN got ELSE NoChunk
<1>1. /\ reserved' = [reserved EXCEPT ![client] = ch]
      /\ chunk' = [chunk EXCEPT !["server"] = NoChunk]
      /\ Goto("server", "idle") /\ At("server", "copyRest")
      /\ UNCHANGED <<store, size, chunks, currChunk, call, index, client, races>>
  BY DEF CopyRest, pool, ring, ServerSlot
<1>2. ServerSlot \in Chunk /\ chunk["server"] \in Chunk /\ client \in Clients
  BY DEF TypeInv, Threads, ServerSlot
<1>3. /\ got \in Chunk /\ got.original = chunk["server"].original
      /\ got.mipmap = ServerSlot.mipmap /\ got.noFree = ServerSlot.noFree
  BY <1>2 DEF Chunk
<1> HIDE DEF got
<1>4. ch \in Chunk
  BY <1>3, ChunkFacts
<1>5. ch = got \/ (ch = NoChunk /\ got.original = Null /\ got.mipmap = Null)
  BY DEF HasData
<1> HIDE DEF ch
<1>6. /\ reserved' \in [Clients -> Chunk] /\ reserved'[client] = ch
      /\ \A c \in Clients \ {client} : reserved'[c] = reserved[c]
  BY <1>1, <1>2, <1>4 DEF TypeInv
<1>7. /\ chunk' \in [Threads -> Chunk]
      /\ chunk'["server"] = NoChunk /\ chunk'["hw"] = chunk["hw"]
  BY <1>1, ChunkFacts DEF TypeInv, Threads
<1>8. TypeInv'
  BY <1>1, <1>6, <1>7, GotoServer, Lines DEF TypeInv
<1> QED BY <1>1, <1>3, <1>5, <1>6, <1>7, <1>8, GotoServer, Lines DEF At

\* The rest of the snapshot.
LEMMA SnapRestDoes ==
  ASSUME TypeInv, SnapRest
  PROVE  /\ TypeInv'
         /\ pc["server"] = "snapRest" /\ pc'["server"] = "use" /\ pc'["hw"] = pc["hw"]
         /\ call["server"] = NoCall
         /\ chunk'["server"].original = chunk["server"].original
         /\ chunk'["server"].mipmap = ServerSlot.mipmap
         /\ chunk'["server"].noFree = ServerSlot.noFree
         /\ chunk'["hw"] = chunk["hw"]
         /\ UNCHANGED <<store, size, chunks, currChunk, reserved, call, index, client, races>>
<1>1. /\ chunk' = [chunk EXCEPT !["server"].mipmap = ServerSlot.mipmap,
                                !["server"].noFree = ServerSlot.noFree]
      /\ Goto("server", "use") /\ At("server", "snapRest")
      /\ UNCHANGED <<store, size, chunks, currChunk, reserved, call, index, client, races>>
  BY DEF SnapRest, pool, ring, ServerSlot
<1>2. ServerSlot \in Chunk /\ chunk["server"] \in Chunk /\ chunk["hw"] \in Chunk
      /\ chunk \in [Threads -> Chunk]
  BY DEF TypeInv, Threads, ServerSlot
<1>3. /\ chunk' \in [Threads -> Chunk] /\ chunk'["hw"] = chunk["hw"]
      /\ chunk'["server"].original = chunk["server"].original
      /\ chunk'["server"].mipmap = ServerSlot.mipmap
      /\ chunk'["server"].noFree = ServerSlot.noFree
  BY <1>1, <1>2 DEF Chunk, Threads
<1>4. TypeInv'
  BY <1>1, <1>3, GotoServer, Lines DEF TypeInv
<1> QED BY <1>1, <1>3, <1>4, GotoServer, Lines DEF At

\* The frame is out.
LEMMA FlushDoes ==
  ASSUME TypeInv, Flush
  PROVE  /\ TypeInv'
         /\ pc["server"] = "use" /\ pc'["server"] = "idle" /\ pc'["hw"] = pc["hw"]
         /\ call["server"] = NoCall
         /\ chunk'["server"] = NoChunk /\ chunk'["hw"] = chunk["hw"]
         /\ UNCHANGED <<store, size, chunks, currChunk, reserved, call, index, client, races>>
<1>1. /\ chunk' = [chunk EXCEPT !["server"] = NoChunk]
      /\ Goto("server", "idle") /\ At("server", "use")
      /\ UNCHANGED <<store, size, chunks, currChunk, reserved, call, index, client, races>>
  BY DEF Flush, pool, ring
<1>2. /\ chunk' \in [Threads -> Chunk]
      /\ chunk'["server"] = NoChunk /\ chunk'["hw"] = chunk["hw"]
  BY <1>1, ChunkFacts DEF TypeInv, Threads
<1>3. TypeInv'
  BY <1>1, <1>2, GotoServer, Lines DEF TypeInv
<1> QED BY <1>1, <1>2, <1>3, GotoServer, Lines DEF At

\* Every step keeps the types.
LEMMA TypeStep ==
  ASSUME TypeInv, CallInv, Orderly', [Next]_vars
  PROVE  TypeInv'
<1> USE DEF Threads
<1>1. CASE Capture
  BY <1>1, CaptureDoes
<1>2. CASE Process
  BY <1>2, ProcessDoes
<1>3. CASE Choose
  BY <1>3, ChooseDoes
<1>4. CASE FreeOriginal
  BY <1>4, FreeOriginalDoes
<1>5. CASE FreeMipmap
  BY <1>5, FreeMipmapDoes
<1>6. CASE Clear
  BY <1>6, ClearDoes
<1>7. CASE StoreOriginal
  BY <1>7, StoreOriginalDoes
<1>8. CASE StoreRest
  BY <1>8, StoreRestDoes
<1>9. CASE Publish
  BY <1>9, PublishDoes
<1>10. CASE EndPut("hw")
  BY <1>10, EndPutDoes
<1>11. CASE EndGet("hw")
  BY <1>11, EndGetDoes
<1>12. CASE \E c \in Clients : Start(c)
  BY <1>12, StartDoes
<1>13. CASE \E c \in Clients : Stop(c)
  BY <1>13, StopDoes
<1>14. CASE \E c \in Clients : Timer(c)
  BY <1>14, TimerDoes
<1>15. CASE \E op \in {"start", "stop"} : ReleaseNext(op)
  BY <1>15, ReleaseNextDoes
<1>16. CASE Reserve
  BY <1>16, ReserveDoes
<1>17. CASE Test
  BY <1>17, TestDoes
<1>18. CASE Pin
  BY <1>18, PinDoes
<1>19. CASE CopyRest
  BY <1>19, CopyRestDoes
<1>20. CASE SnapRest
  BY <1>20, SnapRestDoes
<1>21. CASE Flush
  BY <1>21, FlushDoes
<1>22. CASE CopyOriginal("copyOriginal", "copyRest")
  BY <1>22, CopyOriginalDoes, Lines
<1>23. CASE CopyOriginal("snapOriginal", "snapRest")
  BY <1>23, CopyOriginalDoes, Lines
<1>24. CASE EndPut("server")
  BY <1>24, EndPutDoes
<1>25. CASE UNCHANGED vars
  BY <1>25 DEF vars, TypeInv
<1> QED BY <1>1, <1>2, <1>3, <1>4, <1>5, <1>6, <1>7, <1>8, <1>9, <1>10, <1>11, <1>12,
   <1>13, <1>14, <1>15, <1>16, <1>17, <1>18, <1>19, <1>20, <1>21, <1>22, <1>23, <1>24,
   <1>25
  DEF Next, Hardware, Server

\* Every step keeps the calls apart.
LEMMA CallStep ==
  ASSUME TypeInv, CallInv, Orderly', [Next]_vars
  PROVE  CallInv'
<1> USE CallFacts DEF CallInv, Threads, Releasing
<1>1. CASE Capture
  BY <1>1, CaptureDoes DEF TypeInv
<1>2. CASE Process
  BY <1>2, ProcessDoes DEF TypeInv
<1>3. CASE Choose
  BY <1>3, ChooseDoes DEF TypeInv
<1>4. CASE FreeOriginal
  BY <1>4, FreeOriginalDoes DEF TypeInv
<1>5. CASE FreeMipmap
  BY <1>5, FreeMipmapDoes DEF TypeInv
<1>6. CASE Clear
  BY <1>6, ClearDoes DEF TypeInv
<1>7. CASE StoreOriginal
  BY <1>7, StoreOriginalDoes DEF TypeInv
<1>8. CASE StoreRest
  BY <1>8, StoreRestDoes DEF TypeInv
<1>9. CASE Publish
  BY <1>9, PublishDoes DEF TypeInv
<1>10. CASE EndPut("hw")
  BY <1>10, EndPutDoes DEF TypeInv
<1>11. CASE EndGet("hw")
  BY <1>11, EndGetDoes DEF TypeInv
<1>12. CASE \E c \in Clients : Start(c)
  BY <1>12, StartDoes DEF TypeInv
<1>13. CASE \E c \in Clients : Stop(c)
  BY <1>13, StopDoes DEF TypeInv
<1>14. CASE \E c \in Clients : Timer(c)
  BY <1>14, TimerDoes DEF TypeInv
<1>15. CASE \E op \in {"start", "stop"} : ReleaseNext(op)
  BY <1>15, ReleaseNextDoes DEF TypeInv
<1>16. CASE Reserve
  BY <1>16, ReserveDoes DEF TypeInv
<1>17. CASE Test
  BY <1>17, TestDoes DEF TypeInv
<1>18. CASE Pin
  BY <1>18, PinDoes DEF TypeInv
<1>19. CASE CopyRest
  BY <1>19, CopyRestDoes DEF TypeInv
<1>20. CASE SnapRest
  BY <1>20, SnapRestDoes DEF TypeInv
<1>21. CASE Flush
  BY <1>21, FlushDoes DEF TypeInv
<1>22. CASE CopyOriginal("copyOriginal", "copyRest")
  BY <1>22, CopyOriginalDoes, Lines DEF TypeInv
<1>23. CASE CopyOriginal("snapOriginal", "snapRest")
  BY <1>23, CopyOriginalDoes, Lines DEF TypeInv
<1>24. CASE EndPut("server")
  BY <1>24, EndPutDoes DEF TypeInv
<1>25. CASE UNCHANGED vars
  BY <1>25 DEF vars, TypeInv
<1> QED BY <1>1, <1>2, <1>3, <1>4, <1>5, <1>6, <1>7, <1>8, <1>9, <1>10, <1>11, <1>12,
   <1>13, <1>14, <1>15, <1>16, <1>17, <1>18, <1>19, <1>20, <1>21, <1>22, <1>23, <1>24,
   <1>25
  DEF Next, Hardware, Server

\* checkDone and the handlers stay apart.
LEMMA WindowStep ==
  ASSUME TypeInv, CallInv, WindowInv, Orderly', [Next]_vars
  PROVE  WindowInv'
<1> USE HwThreadsAssumption DEF WindowInv, Looking, Choosing, Copying, Snapping, Releasing, Threads, Slots
<1>1. CASE Capture
  BY <1>1, CaptureDoes DEF TypeInv
<1>2. CASE Process
  BY <1>2, ProcessDoes DEF TypeInv
<1>3. CASE Choose
  <2>1. /\ pc'["server"] = pc["server"] /\ index'["server"] = index["server"]
        /\ currChunk' = currChunk
        /\ index'["hw"] = IF currChunk = RingSize - 1 THEN 0 ELSE currChunk + 1
        /\ pc["server"] \in Copying => index'["hw"] # index["server"]
        /\ pc["server"] \in Snapping /\ index'["hw"] = index["server"] => "show" \in races'
    BY <1>3, ChooseDoes
  <2> QED BY <2>1
<1>4. CASE FreeOriginal
  BY <1>4, FreeOriginalDoes DEF TypeInv
<1>5. CASE FreeMipmap
  BY <1>5, FreeMipmapDoes DEF TypeInv
<1>6. CASE Clear
  BY <1>6, ClearDoes DEF TypeInv
<1>7. CASE StoreOriginal
  BY <1>7, StoreOriginalDoes DEF TypeInv
<1>8. CASE StoreRest
  BY <1>8, StoreRestDoes DEF TypeInv
<1>9. CASE Publish
  BY <1>9, PublishDoes DEF TypeInv
<1>10. CASE EndPut("hw")
  BY <1>10, EndPutDoes DEF TypeInv
<1>11. CASE EndGet("hw")
  BY <1>11, EndGetDoes DEF TypeInv
<1>12. CASE \E c \in Clients : Start(c)
  BY <1>12, StartDoes DEF TypeInv
<1>13. CASE \E c \in Clients : Stop(c)
  BY <1>13, StopDoes DEF TypeInv
<1>14. CASE \E c \in Clients : Timer(c)
  BY <1>14, TimerDoes DEF TypeInv
<1>15. CASE \E op \in {"start", "stop"} : ReleaseNext(op)
  BY <1>15, ReleaseNextDoes DEF TypeInv
<1>16. CASE Reserve
  BY <1>16, ReserveDoes DEF TypeInv
<1>17. CASE Test
  BY <1>17, TestDoes DEF TypeInv
<1>18. CASE Pin
  BY <1>18, PinDoes DEF TypeInv
<1>19. CASE CopyRest
  BY <1>19, CopyRestDoes DEF TypeInv
<1>20. CASE SnapRest
  BY <1>20, SnapRestDoes DEF TypeInv
<1>21. CASE Flush
  BY <1>21, FlushDoes DEF TypeInv
<1>22. CASE CopyOriginal("copyOriginal", "copyRest")
  <2>1. /\ pc["server"] = "copyOriginal" /\ pc'["server"] = "copyRest"
        /\ pc'["hw"] = pc["hw"] /\ UNCHANGED <<index, currChunk, races>>
    BY <1>22, CopyOriginalDoes, Lines
  <2> QED BY <2>1
<1>23. CASE CopyOriginal("snapOriginal", "snapRest")
  BY <1>23, CopyOriginalDoes, Lines DEF TypeInv
<1>24. CASE EndPut("server")
  BY <1>24, EndPutDoes DEF TypeInv
<1>25. CASE UNCHANGED vars
  BY <1>25 DEF vars, TypeInv
<1> QED BY <1>1, <1>2, <1>3, <1>4, <1>5, <1>6, <1>7, <1>8, <1>9, <1>10, <1>11, <1>12,
   <1>13, <1>14, <1>15, <1>16, <1>17, <1>18, <1>19, <1>20, <1>21, <1>22, <1>23, <1>24,
   <1>25
  DEF Next, Hardware, Server

-----------------------------------------------------------------------------
(* Owners.                                                                 *)

\* What each owner has.
LEMMA OwnIs ==
  /\ Own[<<"pool", 0>>] = Free /\ Own[<<"round", 0>>] = InRound
  /\ Own[<<"copy", 0>>] = InCopy
  /\ \A t \in Threads : Own[<<"call", t>>] = InCall(t)
  /\ \A i \in Slots : Own[<<"slot", i>>] = SlotOwns(i)
  /\ \A c \in Clients : Own[<<"client", c>>] = BuffersOf(reserved[c])
BY DEF Own, Owns, Owners

\* An owner is of one of six kinds.
LEMMA OwnerKinds ==
  ASSUME NEW h \in Owners
  PROVE  \/ h = <<"pool", 0>> \/ h = <<"round", 0>> \/ h = <<"copy", 0>>
         \/ \E t \in Threads : h = <<"call", t>>
         \/ \E i \in Slots : h = <<"slot", i>>
         \/ \E c \in Clients : h = <<"client", c>>
BY DEF Owners

\* The owners other than from and to keep what they have when each cell does.
LEMMA OthersKeep ==
  ASSUME NEW K,
         <<"pool", 0>> \in K \/ Free' = Free,
         <<"round", 0>> \in K \/ InRound' = InRound,
         <<"copy", 0>> \in K \/ InCopy' = InCopy,
         \A t \in Threads : <<"call", t>> \in K \/ InCall(t)' = InCall(t),
         \A i \in Slots : <<"slot", i>> \in K \/ SlotOwns(i)' = SlotOwns(i),
         \A c \in Clients : \/ <<"client", c>> \in K
                            \/ BuffersOf(reserved[c])' = BuffersOf(reserved[c])
  PROVE  \A h \in Owners \ K : Own'[h] = Own[h]
<1>1. /\ Own'[<<"pool", 0>>] = Free' /\ Own'[<<"round", 0>>] = InRound'
      /\ Own'[<<"copy", 0>>] = InCopy'
      /\ \A t \in Threads : Own'[<<"call", t>>] = InCall(t)'
      /\ \A i \in Slots : Own'[<<"slot", i>>] = SlotOwns(i)'
      /\ \A c \in Clients : Own'[<<"client", c>>] = BuffersOf(reserved[c])'
  BY DEF Own, Owns, Owners
<1> SUFFICES ASSUME NEW h \in Owners, h \notin K
             PROVE  Own'[h] = Own[h]
  OBVIOUS
<1> QED BY <1>1, OwnIs, OwnerKinds

\* Buffers that go from one owner to another leave every buffer with one owner.
LEMMA HandOver ==
  ASSUME NEW own, NEW next, NEW from \in Owners, NEW to \in Owners, NEW S,
         Partition(own), from # to, S \subseteq own[from],
         next[from] = own[from] \ S, next[to] = own[to] \cup S,
         \A h \in Owners \ {from, to} : next[h] = own[h]
  PROVE  Partition(next)
<1> SUFFICES ASSUME NEW b \in Buffers
             PROVE  \E h \in Owners : \A k \in Owners : b \in next[k] <=> k = h
  BY DEF Partition
<1>1. PICK h \in Owners : \A k \in Owners : b \in own[k] <=> k = h
  BY DEF Partition
<1>2. CASE b \in S
  <2>1. h = from
    BY <1>1, <1>2
  <2>2. \A k \in Owners : b \in next[k] <=> k = to
    BY <1>1, <1>2, <2>1
  <2> QED BY <2>2
<1>3. CASE b \notin S
  <2>1. \A k \in Owners : b \in next[k] <=> k = h
    BY <1>1, <1>3
  <2> QED BY <2>1
<1> QED BY <1>2, <1>3

\* A step that hands nothing over.
LEMMA NoneMoves ==
  ASSUME OneOwner, Free' = Free, InRound' = InRound, InCopy' = InCopy,
         \A t \in Threads : InCall(t)' = InCall(t),
         \A i \in Slots : SlotOwns(i)' = SlotOwns(i),
         \A c \in Clients : BuffersOf(reserved[c])' = BuffersOf(reserved[c])
  PROVE  OneOwner'
<1>1. \A h \in Owners \ {} : Own'[h] = Own[h]
  BY OthersKeep
<1> QED BY <1>1 DEF OneOwner, Partition

\* Two owners have no buffer in common.
LEMMA Apart ==
  ASSUME OneOwner, NEW h \in Owners, NEW k \in Owners, h # k
  PROVE  Own[h] \cap Own[k] \cap Buffers = {}
BY DEF OneOwner, Partition

\* What a chunk has are buffers, and so is what the owners have.
LEMMA OwnedAreBuffers ==
  ASSUME TypeInv
  PROVE  /\ Free \subseteq Buffers /\ InRound \subseteq Buffers /\ InCopy \subseteq Buffers
         /\ \A t \in Threads : InCall(t) \subseteq Buffers
         /\ \A i \in Slots : SlotOwns(i) \subseteq Buffers
         /\ \A c \in Clients : BuffersOf(reserved[c]) \subseteq Buffers
<1>1. \A ch \in Chunk : BuffersOf(ch) \subseteq Buffers
  BY ChunkFacts DEF BuffersOf
<1>2. Free \subseteq Buffers
  BY DEF Free, TypeInv
<1>3. InRound \subseteq Buffers /\ InCopy \subseteq Buffers
  BY <1>1 DEF InRound, InCopy, ServerSlot, TypeInv, Threads
<1>4. \A t \in Threads : InCall(t) \subseteq Buffers
  BY CallFacts DEF InCall, TypeInv
<1>5. \A i \in Slots : SlotOwns(i) \subseteq Buffers
  BY <1>1, ChunkFacts DEF SlotOwns, SlotBuffers, TypeInv
<1>6. \A c \in Clients : BuffersOf(reserved[c]) \subseteq Buffers
  BY <1>1 DEF TypeInv
<1> QED BY <1>2, <1>3, <1>4, <1>5, <1>6

\* The owners that the invariants keep apart.
LEMMA Separate ==
  ASSUME TypeInv, OneOwner
  PROVE  /\ Free \cap InRound = {}
         /\ \A t \in Threads : Free \cap InCall(t) = {} /\ InRound \cap InCall(t) = {}
         /\ \A i \in Slots : /\ Free \cap SlotOwns(i) = {}
                             /\ InRound \cap SlotOwns(i) = {}
                             /\ \A t \in Threads : InCall(t) \cap SlotOwns(i) = {}
         /\ \A c \in Clients :
              /\ BuffersOf(reserved[c]) \cap Free = {}
              /\ BuffersOf(reserved[c]) \cap InRound = {}
              /\ \A t \in Threads : BuffersOf(reserved[c]) \cap InCall(t) = {}
              /\ \A i \in Slots : BuffersOf(reserved[c]) \cap SlotOwns(i) = {}
              /\ \A d \in Clients \ {c} : BuffersOf(reserved[c]) \cap BuffersOf(reserved[d]) = {}
<1>1. /\ <<"pool", 0>> \in Owners /\ <<"round", 0>> \in Owners
      /\ \A t \in Threads : <<"call", t>> \in Owners
      /\ \A i \in Slots : <<"slot", i>> \in Owners
      /\ \A c \in Clients : <<"client", c>> \in Owners
  BY DEF Owners
<1>2. ASSUME NEW h \in Owners
      PROVE  Own[h] \subseteq Buffers
  BY OwnerKinds, OwnIs, OwnedAreBuffers
<1>3. ASSUME NEW h \in Owners, NEW k \in Owners, h # k
      PROVE  Own[h] \cap Own[k] = {}
  BY <1>2, <1>3, Apart
<1>4. Free \cap InRound = {}
  BY <1>1, <1>3, OwnIs
<1>5. ASSUME NEW t \in Threads
      PROVE  Free \cap InCall(t) = {} /\ InRound \cap InCall(t) = {}
  BY <1>1, <1>3, OwnIs
<1>6. ASSUME NEW i \in Slots
      PROVE  Free \cap SlotOwns(i) = {} /\ InRound \cap SlotOwns(i) = {}
  BY <1>1, <1>3, OwnIs
<1>7. ASSUME NEW i \in Slots, NEW t \in Threads
      PROVE  InCall(t) \cap SlotOwns(i) = {}
  BY <1>1, <1>3, OwnIs
<1>8. ASSUME NEW c \in Clients
      PROVE  /\ BuffersOf(reserved[c]) \cap Free = {}
             /\ BuffersOf(reserved[c]) \cap InRound = {}
  BY <1>1, <1>3, OwnIs
<1>9. ASSUME NEW c \in Clients, NEW t \in Threads
      PROVE  BuffersOf(reserved[c]) \cap InCall(t) = {}
  BY <1>1, <1>3, OwnIs
<1>10. ASSUME NEW c \in Clients, NEW i \in Slots
       PROVE  BuffersOf(reserved[c]) \cap SlotOwns(i) = {}
  BY <1>1, <1>3, OwnIs
<1>11. ASSUME NEW c \in Clients, NEW d \in Clients \ {c}
       PROVE  BuffersOf(reserved[c]) \cap BuffersOf(reserved[d]) = {}
  <2>1. <<"client", c>> # <<"client", d>>
    OBVIOUS
  <2> QED BY <1>1, <1>3, <2>1, OwnIs
<1> QED BY <1>4, <1>5, <1>6, <1>7, <1>8, <1>9, <1>10, <1>11

\* While the hardware thread is at work on a slot, no handler looks at it.
LEMMA Behind ==
  ASSUME WindowInv, Looking, pc["hw"] \notin Choosing
  PROVE  index["hw"] # index["server"]
BY DEF WindowInv

\* A put adds one buffer to the free ones, a get takes the last.
LEMMA PutFrees ==
  ASSUME TypeInv, CallInv, NEW t \in Threads, EndPut(t)
  PROVE  Free' = Free \cup {call[t].buf}
<1>1. /\ size \in Nat /\ size' = size + 1 /\ store'[size + 1] = call[t].buf
      /\ \A i \in 1 .. size : store'[i] = store[i]
  BY EndPutDoes DEF TypeInv
<1>2. 1 .. size + 1 = (1 .. size) \cup {size + 1}
  BY <1>1
<1> QED BY <1>1, <1>2 DEF Free

\* A get takes the last element and leaves the others free.
LEMMA GetTakes ==
  ASSUME TypeInv, CallInv, NoTwice, EndGet("hw")
  PROVE  Free' = Free \ {store[size]} /\ store[size] \in Free /\ store[size] # Null
<1>1. size \in Nat /\ size > 0 /\ size' = size - 1 /\ store' = store
  BY EndGetDoes DEF TypeInv
<1>2. 1 .. size - 1 = (1 .. size) \ {size}
  BY <1>1
<1>3. \A i \in 1 .. size - 1 : store[i] # store[size]
  BY <1>1, <1>2 DEF NoTwice
<1>4. store[size] # Null
  <2>1. size \in 1 .. Len(store)
    BY <1>1 DEF TypeInv
  <2>2. store[size] \in Buffers
    BY <2>1 DEF TypeInv
  <2> QED BY <2>2 DEF Null, Buffers
<1>5. Free = {store[i] : i \in 1 .. size - 1} \cup {store[size]}
  <2>1. 1 .. size = (1 .. size - 1) \cup {size}
    BY <1>1
  <2> QED BY <2>1 DEF Free
<1>6. Free' = {store[i] : i \in 1 .. size - 1}
  BY <1>1 DEF Free
<1>7. store[size] \notin {store[i] : i \in 1 .. size - 1}
  BY <1>3
<1> HIDE DEF Free
<1> QED BY <1>4, <1>5, <1>6, <1>7

\* What SlotInv says is kept when the slot and the round are, and what was put
\* back stays so.
LEMMA SlotFrame ==
  ASSUME SlotInv, pc'["hw"] = pc["hw"], HwSlot' = HwSlot, chunk'["hw"] = chunk["hw"],
         Returned \subseteq Returned',
         \A i \in Slots : chunks'[i].noFree \/ chunks'[i] = chunks[i]
  PROVE  SlotInv'
BY DEF SlotInv

\* No action of the server's touches the slot that checkDone works on, once it is
\* chosen.
LEMMA SlotUntouched ==
  ASSUME SlotInv, UNCHANGED <<chunks, store, size>>, index'["hw"] = index["hw"],
         chunk'["hw"] = chunk["hw"], call'["hw"] = call["hw"], pc'["hw"] = pc["hw"]
  PROVE  SlotInv'
<1>1. HwSlot' = HwSlot /\ Returned' = Returned
  BY DEF HwSlot, Returned, InCall, Free
<1> QED BY <1>1, SlotFrame

\* The round takes its buffers one by one.
LEMMA ChunkStep ==
  ASSUME TypeInv, CallInv, ChunkInv, OneOwner, NoTwice, Orderly', [Next]_vars
  PROVE  ChunkInv'
<1> USE CallFacts DEF CallInv, ChunkInv, Distinct, Threads, NoChunk
<1>1. CASE Capture
  BY <1>1, CaptureDoes DEF TypeInv
<1>2. CASE Process
  BY <1>2, ProcessDoes DEF TypeInv
<1>3. CASE Choose
  BY <1>3, ChooseDoes DEF TypeInv
<1>4. CASE FreeOriginal
  BY <1>4, FreeOriginalDoes DEF TypeInv
<1>5. CASE FreeMipmap
  BY <1>5, FreeMipmapDoes DEF TypeInv
<1>6. CASE Clear
  BY <1>6, ClearDoes DEF TypeInv
<1>7. CASE StoreOriginal
  BY <1>7, StoreOriginalDoes DEF TypeInv
<1>8. CASE StoreRest
  BY <1>8, StoreRestDoes DEF TypeInv
<1>9. CASE Publish
  BY <1>9, PublishDoes DEF TypeInv
<1>10. CASE EndPut("hw")
  BY <1>10, EndPutDoes DEF TypeInv
<1>11. CASE EndGet("hw")
  <2>1. store[size] \in Free /\ store[size] # Null
    BY <1>11, GetTakes
  <2>2. pc["hw"] = "choose" => store[size] # chunk["hw"].original
    <3>1. ASSUME pc["hw"] = "choose", chunk["hw"].original # Null
          PROVE  chunk["hw"].original \in InRound
      BY <3>1 DEF InRound, BuffersOf
    <3> QED BY <2>1, <3>1, Separate
  <2> QED BY <1>11, <2>1, <2>2, EndGetDoes
<1>12. CASE \E c \in Clients : Start(c)
  BY <1>12, StartDoes DEF TypeInv
<1>13. CASE \E c \in Clients : Stop(c)
  BY <1>13, StopDoes DEF TypeInv
<1>14. CASE \E c \in Clients : Timer(c)
  BY <1>14, TimerDoes DEF TypeInv
<1>15. CASE \E op \in {"start", "stop"} : ReleaseNext(op)
  BY <1>15, ReleaseNextDoes DEF TypeInv
<1>16. CASE Reserve
  BY <1>16, ReserveDoes DEF TypeInv
<1>17. CASE Test
  BY <1>17, TestDoes DEF TypeInv
<1>18. CASE Pin
  BY <1>18, PinDoes DEF TypeInv
<1>19. CASE CopyRest
  BY <1>19, CopyRestDoes DEF TypeInv
<1>20. CASE SnapRest
  BY <1>20, SnapRestDoes DEF TypeInv
<1>21. CASE Flush
  BY <1>21, FlushDoes DEF TypeInv
<1>22. CASE CopyOriginal("copyOriginal", "copyRest")
  BY <1>22, CopyOriginalDoes, Lines DEF TypeInv
<1>23. CASE CopyOriginal("snapOriginal", "snapRest")
  BY <1>23, CopyOriginalDoes, Lines DEF TypeInv
<1>24. CASE EndPut("server")
  BY <1>24, EndPutDoes DEF TypeInv
<1>25. CASE UNCHANGED vars
  BY <1>25 DEF vars, TypeInv
<1> QED BY <1>1, <1>2, <1>3, <1>4, <1>5, <1>6, <1>7, <1>8, <1>9, <1>10, <1>11, <1>12,
   <1>13, <1>14, <1>15, <1>16, <1>17, <1>18, <1>19, <1>20, <1>21, <1>22, <1>23, <1>24,
   <1>25
  DEF Next, Hardware, Server

\* The slot that checkDone works on goes through freeChunk and the store.
LEMMA SlotStep ==
  ASSUME TypeInv, CallInv, ChunkInv, SlotInv, WindowInv, Orderly', [Next]_vars
  PROVE  SlotInv'
<1>1. CASE Capture
  BY <1>1, CaptureDoes
    DEF TypeInv, SlotInv, HwSlot, Distinct, Threads, NoChunk, Emptying, Returned,
        InCall, Free
<1>2. CASE Process
  BY <1>2, ProcessDoes
    DEF TypeInv, SlotInv, HwSlot, Distinct, Threads, NoChunk, Emptying, Returned,
        InCall, Free
<1>3. CASE Choose
  BY <1>3, ChooseDoes
    DEF TypeInv, SlotInv, HwSlot, Distinct, Threads, NoChunk, Emptying, Returned,
        InCall, Free
<1>4. CASE FreeOriginal
  BY <1>4, FreeOriginalDoes
    DEF TypeInv, SlotInv, HwSlot, Distinct, Threads, NoChunk, Emptying, Returned,
        InCall, Free
<1>5. CASE FreeMipmap
  <2>1. /\ HwSlot' = HwSlot /\ chunks' = chunks /\ chunk' = chunk
        /\ Free' = Free /\ InCall("hw") = {} /\ pc'["hw"] = "clear"
    BY <1>5, FreeMipmapDoes, CallFacts DEF HwSlot, InCall, Free
  <2>2. ~HwSlot.noFree /\ HwSlot.original \in Returned'
    BY <1>5, <2>1, FreeMipmapDoes DEF SlotInv, Returned, Emptying
  <2>3. HwSlot.mipmap \in Returned'
    BY <1>5, FreeMipmapDoes DEF Returned, InCall
  <2> QED BY <2>1, <2>2, <2>3 DEF SlotInv, Emptying
<1>6. CASE Clear
  BY <1>6, ClearDoes
    DEF TypeInv, SlotInv, HwSlot, Distinct, Threads, NoChunk, Emptying, Returned,
        InCall, Free
<1>7. CASE StoreOriginal
  BY <1>7, StoreOriginalDoes
    DEF TypeInv, SlotInv, HwSlot, Distinct, Threads, NoChunk, Emptying, Returned,
        InCall, Free
<1>8. CASE StoreRest
  <2>1. /\ HwSlot'.original = chunk'["hw"].original
        /\ HwSlot'.mipmap = chunk'["hw"].mipmap /\ ~HwSlot'.noFree
        /\ pc'["hw"] = "publish" /\ chunk' = chunk
    BY <1>8, StoreRestDoes DEF SlotInv
  <2>2. /\ \A i \in Slots \ {index["hw"]} : chunks'[i] = chunks[i]
        /\ chunks'[index["hw"]] = HwSlot'
    BY <1>8, StoreRestDoes DEF HwSlot
  <2>3. Distinct(HwSlot')
    BY <2>1 DEF ChunkInv, Distinct
  <2>4. \A i \in Slots : ~chunks'[i].noFree => Distinct(chunks'[i])
    BY <2>2, <2>3 DEF SlotInv
  <2> QED BY <2>1, <2>4 DEF SlotInv, Emptying
<1>9. CASE Publish
  BY <1>9, PublishDoes
    DEF TypeInv, SlotInv, HwSlot, Distinct, Threads, NoChunk, Emptying, Returned,
        InCall, Free
<1>10. CASE EndPut("hw")
  <2>1. Returned \subseteq Returned'
    BY <1>10, PutFrees, EndPutDoes DEF Returned, InCall, Threads
  <2>2. HwSlot' = HwSlot /\ UNCHANGED <<pc, chunk, chunks>>
    BY <1>10, EndPutDoes DEF HwSlot, Threads
  <2> QED BY <2>1, <2>2, SlotFrame
<1>11. CASE EndGet("hw")
  <2>1. pc["hw"] \in {"process", "choose"} /\ UNCHANGED <<pc, chunks>>
    BY <1>11, EndGetDoes DEF CallInv
  <2> QED BY <2>1 DEF SlotInv, Emptying
<1>12. CASE \E c \in Clients : Start(c)
  BY <1>12, StartDoes, SlotUntouched
<1>13. CASE \E c \in Clients : Stop(c)
  BY <1>13, StopDoes, SlotUntouched
<1>14. CASE \E c \in Clients : Timer(c)
  BY <1>14, TimerDoes, SlotUntouched
<1>15. CASE \E op \in {"start", "stop"} : ReleaseNext(op)
  BY <1>15, ReleaseNextDoes, SlotUntouched
<1>16. CASE Reserve
  BY <1>16, ReserveDoes, SlotUntouched
<1>17. CASE Test
  BY <1>17, TestDoes, SlotUntouched
<1>18. CASE Pin
  <2>1. /\ \A i \in Slots \ {index["server"]} : chunks'[i] = chunks[i]
        /\ chunks'[index["server"]].noFree
        /\ pc["server"] = "pin" /\ UNCHANGED <<store, size, call, index, chunk>>
        /\ pc'["hw"] = pc["hw"] /\ index["hw"] \in Slots
    BY <1>18, PinDoes DEF ServerSlot, TypeInv, Threads
  <2>2. CASE pc["hw"] \in Choosing
    BY <2>1, <2>2 DEF SlotInv, Choosing, Emptying
  <2>3. CASE pc["hw"] \notin Choosing
    <3>1. index["hw"] # index["server"]
      BY <1>18, <2>3, PinDoes
    <3>2. HwSlot' = HwSlot /\ Returned' = Returned
      BY <2>1, <3>1 DEF HwSlot, Returned, InCall, Free
    <3> QED BY <2>1, <3>2, SlotFrame
  <2> QED BY <2>2, <2>3
<1>19. CASE CopyRest
  BY <1>19, CopyRestDoes, SlotUntouched
<1>20. CASE SnapRest
  BY <1>20, SnapRestDoes, SlotUntouched
<1>21. CASE Flush
  BY <1>21, FlushDoes, SlotUntouched
<1>22. CASE CopyOriginal("copyOriginal", "copyRest")
  BY <1>22, CopyOriginalDoes, Lines, SlotUntouched
<1>23. CASE CopyOriginal("snapOriginal", "snapRest")
  BY <1>23, CopyOriginalDoes, Lines, SlotUntouched
<1>24. CASE EndPut("server")
  <2>1. Free \subseteq Free' /\ call'["hw"] = call["hw"]
    BY <1>24, PutFrees, EndPutDoes DEF Threads
  <2>2. HwSlot' = HwSlot /\ UNCHANGED <<pc, chunk, chunks>>
    BY <1>24, EndPutDoes DEF HwSlot, Threads
  <2>3. Returned \subseteq Returned'
    BY <2>1 DEF Returned, InCall
  <2> QED BY <2>2, <2>3, SlotFrame
<1>25. CASE UNCHANGED vars
  BY <1>25
    DEF vars, TypeInv, SlotInv, HwSlot, Distinct, Threads, NoChunk, Emptying,
        Returned, InCall, Free
<1> QED BY <1>1, <1>2, <1>3, <1>4, <1>5, <1>6, <1>7, <1>8, <1>9, <1>10, <1>11, <1>12,
   <1>13, <1>14, <1>15, <1>16, <1>17, <1>18, <1>19, <1>20, <1>21, <1>22, <1>23, <1>24,
   <1>25
  DEF Next, Hardware, Server

\* What a handler reads stays as it found it.
LEMMA ServerStep ==
  ASSUME TypeInv, CallInv, SlotInv, ServerInv, WindowInv, Orderly', [Next]_vars
  PROVE  ServerInv'
<1> USE DEF ServerInv, ServerSlot, Distinct, Threads, NoChunk, Copying, Reserving, Snapping, Releasing, Looking, BuffersOf, HasData
<1>1. CASE Capture
  BY <1>1, CaptureDoes DEF TypeInv
<1>2. CASE Process
  BY <1>2, ProcessDoes DEF TypeInv
<1>3. CASE Choose
  BY <1>3, ChooseDoes DEF TypeInv
<1>4. CASE FreeOriginal
  BY <1>4, FreeOriginalDoes DEF TypeInv
<1>5. CASE FreeMipmap
  BY <1>5, FreeMipmapDoes DEF TypeInv
<1>6. CASE Clear
  <2>1. /\ pc["hw"] = "clear" /\ pc'["server"] = pc["server"]
        /\ UNCHANGED <<reserved, client, chunk, index, races>>
        /\ \A i \in Slots \ {index["hw"]} : chunks'[i] = chunks[i]
        /\ index["server"] \in Slots
    BY <1>6, ClearDoes DEF TypeInv, Threads
  <2>2. ASSUME Looking
        PROVE  ServerSlot' = ServerSlot
    BY <2>1, <2>2, Behind DEF ServerSlot, Choosing
  <2>3. ~ServerSlot.noFree => ~ServerSlot'.noFree
    BY <1>6, <2>1, ClearDoes DEF ServerSlot, HwSlot
  <2> HIDE DEF ServerSlot
  <2> QED BY <2>1, <2>2, <2>3
<1>7. CASE StoreOriginal
  <2>1. /\ pc["hw"] = "storeOriginal" /\ pc'["server"] = pc["server"]
        /\ UNCHANGED <<reserved, client, chunk, index, races>>
        /\ \A i \in Slots \ {index["hw"]} : chunks'[i] = chunks[i]
        /\ index["server"] \in Slots
    BY <1>7, StoreOriginalDoes DEF TypeInv, Threads
  <2>2. ASSUME Looking
        PROVE  ServerSlot' = ServerSlot
    BY <2>1, <2>2, Behind DEF ServerSlot, Choosing
  <2>3. ~ServerSlot.noFree => ~ServerSlot'.noFree
    BY <1>7, <2>1, StoreOriginalDoes DEF ServerSlot, HwSlot
  <2> HIDE DEF ServerSlot
  <2> QED BY <2>1, <2>2, <2>3
<1>8. CASE StoreRest
  <2>1. /\ pc["hw"] = "storeRest" /\ pc'["server"] = pc["server"]
        /\ UNCHANGED <<reserved, client, chunk, index, races>>
        /\ \A i \in Slots \ {index["hw"]} : chunks'[i] = chunks[i]
        /\ index["server"] \in Slots
    BY <1>8, StoreRestDoes DEF TypeInv, Threads
  <2>2. ASSUME Looking
        PROVE  ServerSlot' = ServerSlot
    BY <2>1, <2>2, Behind DEF ServerSlot, Choosing
  <2>3. ~ServerSlot.noFree => ~ServerSlot'.noFree
    BY <1>8, <2>1, StoreRestDoes DEF ServerSlot, HwSlot
  <2> HIDE DEF ServerSlot
  <2> QED BY <2>1, <2>2, <2>3
<1>9. CASE Publish
  BY <1>9, PublishDoes DEF TypeInv
<1>10. CASE EndPut("hw")
  BY <1>10, EndPutDoes DEF TypeInv
<1>11. CASE EndGet("hw")
  BY <1>11, EndGetDoes DEF TypeInv
<1>12. CASE \E c \in Clients : Start(c)
  BY <1>12, StartDoes DEF TypeInv
<1>13. CASE \E c \in Clients : Stop(c)
  BY <1>13, StopDoes DEF TypeInv
<1>14. CASE \E c \in Clients : Timer(c)
  BY <1>14, TimerDoes DEF TypeInv
<1>15. CASE \E op \in {"start", "stop"} : ReleaseNext(op)
  BY <1>15, ReleaseNextDoes DEF TypeInv
<1>16. CASE Reserve
  BY <1>16, ReserveDoes DEF TypeInv
<1>17. CASE Test
  BY <1>17, TestDoes DEF TypeInv
<1>18. CASE Pin
  <2>1. /\ pc["server"] = "pin" /\ pc'["server"] = "copyOriginal"
        /\ UNCHANGED <<reserved, client, chunk, index, races>>
        /\ ServerSlot'.noFree = TRUE
        /\ ServerSlot'.original = ServerSlot.original
        /\ ServerSlot'.mipmap = ServerSlot.mipmap
    BY <1>18, PinDoes
  <2>2. ~ServerSlot.noFree /\ Distinct(ServerSlot)
    BY <2>1 DEF SlotInv, TypeInv
  <2> HIDE DEF ServerSlot
  <2> QED BY <2>1, <2>2
<1>19. CASE CopyRest
  BY <1>19, CopyRestDoes DEF TypeInv
<1>20. CASE SnapRest
  BY <1>20, SnapRestDoes DEF TypeInv
<1>21. CASE Flush
  BY <1>21, FlushDoes DEF TypeInv
<1>22. CASE CopyOriginal("copyOriginal", "copyRest")
  <2>1. /\ pc["server"] = "copyOriginal" /\ pc'["server"] = "copyRest"
        /\ UNCHANGED <<reserved, client, chunks, index, races>>
        /\ chunk'["server"].original = ServerSlot.original
    BY <1>22, CopyOriginalDoes, Lines
  <2> QED BY <2>1
<1>23. CASE CopyOriginal("snapOriginal", "snapRest")
  BY <1>23, CopyOriginalDoes, Lines DEF TypeInv
<1>24. CASE EndPut("server")
  BY <1>24, EndPutDoes DEF TypeInv
<1>25. CASE UNCHANGED vars
  BY <1>25 DEF vars, TypeInv
<1> QED BY <1>1, <1>2, <1>3, <1>4, <1>5, <1>6, <1>7, <1>8, <1>9, <1>10, <1>11, <1>12,
   <1>13, <1>14, <1>15, <1>16, <1>17, <1>18, <1>19, <1>20, <1>21, <1>22, <1>23, <1>24,
   <1>25
  DEF Next, Hardware, Server

\* A step that hands S from one owner to another.
LEMMA Moves ==
  ASSUME OneOwner, NEW from \in Owners, NEW to \in Owners, NEW S, from # to,
         S \subseteq Own[from],
         Own'[from] = Own[from] \ S, Own'[to] = Own[to] \cup S,
         <<"pool", 0>> \in {from, to} \/ Free' = Free,
         <<"round", 0>> \in {from, to} \/ InRound' = InRound,
         <<"copy", 0>> \in {from, to} \/ InCopy' = InCopy,
         \A t \in Threads : <<"call", t>> \in {from, to} \/ InCall(t)' = InCall(t),
         \A i \in Slots : <<"slot", i>> \in {from, to} \/ SlotOwns(i)' = SlotOwns(i),
         \A c \in Clients : \/ <<"client", c>> \in {from, to}
                            \/ BuffersOf(reserved[c])' = BuffersOf(reserved[c])
  PROVE  OneOwner'
<1> DEFINE K == {from, to}
<1> HIDE DEF K
<1>1. \A h \in Owners \ K : Own'[h] = Own[h]
  <2>1. /\ <<"pool", 0>> \in K \/ Free' = Free
        /\ <<"round", 0>> \in K \/ InRound' = InRound
        /\ <<"copy", 0>> \in K \/ InCopy' = InCopy
        /\ \A t \in Threads : <<"call", t>> \in K \/ InCall(t)' = InCall(t)
        /\ \A i \in Slots : <<"slot", i>> \in K \/ SlotOwns(i)' = SlotOwns(i)
        /\ \A c \in Clients : \/ <<"client", c>> \in K
                              \/ BuffersOf(reserved[c])' = BuffersOf(reserved[c])
    BY DEF K
  <2> QED BY <2>1, OthersKeep
<1>2. Partition(Own)
  BY DEF OneOwner
<1>3. Partition(Own')
  BY <1>1, <1>2, HandOver DEF K
<1> QED BY <1>3 DEF OneOwner

\* The owners after a step.
LEMMA OwnNextIs ==
  /\ Own'[<<"pool", 0>>] = Free' /\ Own'[<<"round", 0>>] = InRound'
  /\ Own'[<<"copy", 0>>] = InCopy'
  /\ \A t \in Threads : Own'[<<"call", t>>] = InCall(t)'
  /\ \A i \in Slots : Own'[<<"slot", i>>] = SlotOwns(i)'
  /\ \A c \in Clients : Own'[<<"client", c>>] = BuffersOf(reserved[c])'
BY DEF Own, Owns, Owners

\* The slots answer for what they did when neither they nor the line of
\* checkDone change.
LEMMA SlotsKeep ==
  ASSUME chunks' = chunks, index'["hw"] = index["hw"],
         \/ pc'["hw"] = pc["hw"]
         \/ {pc'["hw"], pc["hw"]} \cap {"freeMipmap", "clear", "storeOriginal", "storeRest"} = {}
  PROVE  \A i \in Slots : SlotOwns(i)' = SlotOwns(i)
BY DEF SlotOwns, SlotBuffers

\* No buffer is in the pool twice.
LEMMA TwiceStep ==
  ASSUME TypeInv, CallInv, OneOwner, NoTwice, Orderly', [Next]_vars
  PROVE  NoTwice'
<1>1. CASE Capture
  BY <1>1, CaptureDoes DEF NoTwice, TypeInv
<1>2. CASE Process
  BY <1>2, ProcessDoes DEF NoTwice, TypeInv
<1>3. CASE Choose
  BY <1>3, ChooseDoes DEF NoTwice, TypeInv
<1>4. CASE FreeOriginal
  BY <1>4, FreeOriginalDoes DEF NoTwice, TypeInv
<1>5. CASE FreeMipmap
  BY <1>5, FreeMipmapDoes DEF NoTwice, TypeInv
<1>6. CASE Clear
  BY <1>6, ClearDoes DEF NoTwice, TypeInv
<1>7. CASE StoreOriginal
  BY <1>7, StoreOriginalDoes DEF NoTwice, TypeInv
<1>8. CASE StoreRest
  BY <1>8, StoreRestDoes DEF NoTwice, TypeInv
<1>9. CASE Publish
  BY <1>9, PublishDoes DEF NoTwice, TypeInv
<1>10. CASE EndPut("hw")
  <2>1. /\ size \in Nat /\ size' = size + 1 /\ store'[size + 1] = call["hw"].buf
        /\ \A i \in 1 .. size : store'[i] = store[i]
        /\ InCall("hw") = {call["hw"].buf}
    BY <1>10, EndPutDoes DEF TypeInv, InCall, Threads
  <2>2. \A i \in 1 .. size : store[i] # call["hw"].buf
    BY <2>1, Separate DEF Free, Threads
  <2>3. 1 .. size + 1 = (1 .. size) \cup {size + 1}
    BY <2>1
  <2> QED BY <2>1, <2>2, <2>3 DEF NoTwice
<1>11. CASE EndGet("hw")
  BY <1>11, EndGetDoes DEF NoTwice, TypeInv
<1>12. CASE \E c \in Clients : Start(c)
  BY <1>12, StartDoes DEF NoTwice, TypeInv
<1>13. CASE \E c \in Clients : Stop(c)
  BY <1>13, StopDoes DEF NoTwice, TypeInv
<1>14. CASE \E c \in Clients : Timer(c)
  BY <1>14, TimerDoes DEF NoTwice, TypeInv
<1>15. CASE \E op \in {"start", "stop"} : ReleaseNext(op)
  BY <1>15, ReleaseNextDoes DEF NoTwice, TypeInv
<1>16. CASE Reserve
  BY <1>16, ReserveDoes DEF NoTwice, TypeInv
<1>17. CASE Test
  BY <1>17, TestDoes DEF NoTwice, TypeInv
<1>18. CASE Pin
  <2>1. UNCHANGED <<store, size>>
    BY <1>18, PinDoes
  <2> QED BY <2>1 DEF NoTwice
<1>19. CASE CopyRest
  BY <1>19, CopyRestDoes DEF NoTwice, TypeInv
<1>20. CASE SnapRest
  BY <1>20, SnapRestDoes DEF NoTwice, TypeInv
<1>21. CASE Flush
  BY <1>21, FlushDoes DEF NoTwice, TypeInv
<1>22. CASE CopyOriginal("copyOriginal", "copyRest")
  BY <1>22, CopyOriginalDoes, Lines DEF NoTwice, TypeInv
<1>23. CASE CopyOriginal("snapOriginal", "snapRest")
  BY <1>23, CopyOriginalDoes, Lines DEF NoTwice, TypeInv
<1>24. CASE EndPut("server")
  <2>1. /\ size \in Nat /\ size' = size + 1 /\ store'[size + 1] = call["server"].buf
        /\ \A i \in 1 .. size : store'[i] = store[i]
        /\ InCall("server") = {call["server"].buf}
    BY <1>24, EndPutDoes DEF TypeInv, InCall, Threads
  <2>2. \A i \in 1 .. size : store[i] # call["server"].buf
    BY <2>1, Separate DEF Free, Threads
  <2>3. 1 .. size + 1 = (1 .. size) \cup {size + 1}
    BY <2>1
  <2> QED BY <2>1, <2>2, <2>3 DEF NoTwice
<1>25. CASE UNCHANGED vars
  BY <1>25 DEF vars, NoTwice, TypeInv
<1> QED BY <1>1, <1>2, <1>3, <1>4, <1>5, <1>6, <1>7, <1>8, <1>9, <1>10, <1>11, <1>12,
   <1>13, <1>14, <1>15, <1>16, <1>17, <1>18, <1>19, <1>20, <1>21, <1>22, <1>23, <1>24,
   <1>25
  DEF Next, Hardware, Server

\* Every step leaves every buffer with one owner.
LEMMA OwnerStep ==
  ASSUME TypeInv, CallInv, OneOwner, NoTwice, ChunkInv, SlotInv, ServerInv, WindowInv, Orderly',
         [Next]_vars
  PROVE  OneOwner'
<1>1. CASE Capture
  <2>1. \A i \in Slots : SlotOwns(i)' = SlotOwns(i)
    BY <1>1, CaptureDoes, SlotsKeep
  <2> QED BY <1>1, <2>1, CaptureDoes, NoneMoves, CallFacts
    DEF InRound, InCopy, InCall, Free, ServerSlot, Threads, Copying, Releasing
<1>2. CASE Process
  <2>1. \A i \in Slots : SlotOwns(i)' = SlotOwns(i)
    BY <1>2, ProcessDoes, SlotsKeep
  <2> QED BY <1>2, <2>1, ProcessDoes, NoneMoves, CallFacts
    DEF InRound, InCopy, InCall, Free, ServerSlot, Threads, Copying, Releasing
<1>3. CASE Choose
  <2>1. /\ UNCHANGED <<store, size, chunks, reserved, call, chunk>>
        /\ pc["hw"] = "choose" /\ pc'["server"] = pc["server"]
        /\ index'["server"] = index["server"]
        /\ pc'["hw"] = IF chunks[index'["hw"]].noFree THEN "storeOriginal" ELSE "freeOriginal"
    BY <1>3, ChooseDoes
  <2>2. \A i \in Slots : SlotOwns(i)' = SlotOwns(i)
    BY <2>1 DEF SlotOwns, SlotBuffers
  <2> QED BY <2>1, <2>2, NoneMoves DEF InRound, InCopy, InCall, Free, ServerSlot
<1>4. CASE FreeOriginal
  <2>0. PICK i \in Slots : i = index["hw"]
    BY DEF TypeInv, Threads
  <2> DEFINE b == HwSlot.original
  <2>1. /\ UNCHANGED <<store, size, index, reserved, chunk, chunks>>
        /\ pc["hw"] = "freeOriginal" /\ pc'["hw"] = "freeMipmap" /\ pc'["server"] = pc["server"]
        /\ call["hw"] = NoCall /\ call'["server"] = call["server"]
        /\ b = Null => call' = call
        /\ b # Null => call'["hw"].op = "put" /\ call'["hw"].buf = b
    BY <1>4, FreeOriginalDoes
  <2>2. i \in Slots /\ ~HwSlot.noFree /\ Distinct(HwSlot)
    BY <2>0, <2>1 DEF SlotInv, Emptying, HwSlot, TypeInv, Threads
  <2>3. /\ SlotOwns(i) = BuffersOf(HwSlot)
        /\ SlotOwns(i)' = {HwSlot.mipmap} \ {Null}
        /\ \A j \in Slots \ {i} : SlotOwns(j)' = SlotOwns(j)
    BY <2>0, <2>1, <2>2 DEF SlotOwns, SlotBuffers, HwSlot
  <2>4. /\ Free' = Free /\ InRound' = InRound /\ InCopy' = InCopy
        /\ InCall("server")' = InCall("server") /\ InCall("hw") = {}
        /\ InCall("hw")' = {b} \ {Null}
    BY <2>1, CallFacts DEF Free, InRound, InCopy, ServerSlot, InCall
  <2>5. /\ {b} \ {Null} \subseteq SlotOwns(i)
        /\ SlotOwns(i)' = SlotOwns(i) \ ({b} \ {Null})
    BY <2>2, <2>3 DEF BuffersOf, Distinct
  <2>6. <<"slot", i>> \in Owners /\ <<"call", "hw">> \in Owners
    BY <2>2 DEF Owners, Threads
  <2> HIDE DEF b
  <2> DEFINE S == {b} \ {Null}
             from == <<"slot", i>>
             to == <<"call", "hw">>
  <2>7. /\ Own[from] = SlotOwns(i) /\ Own'[from] = SlotOwns(i)'
        /\ Own[to] = InCall("hw") /\ Own'[to] = InCall("hw")'
    BY <2>2, OwnIs, OwnNextIs DEF Threads
  <2> HIDE DEF S
  <2>8. S \subseteq Own[from] /\ Own'[from] = Own[from] \ S /\ Own'[to] = Own[to] \cup S
    BY <2>4, <2>5, <2>7 DEF S
  <2> QED BY <2>1, <2>3, <2>4, <2>6, <2>8, Moves DEF Threads
<1>5. CASE FreeMipmap
  <2>0. PICK i \in Slots : i = index["hw"]
    BY DEF TypeInv, Threads
  <2> DEFINE b == HwSlot.mipmap
  <2>1. /\ UNCHANGED <<store, size, index, reserved, chunk, chunks>>
        /\ pc["hw"] = "freeMipmap" /\ pc'["hw"] = "clear" /\ pc'["server"] = pc["server"]
        /\ call["hw"] = NoCall /\ call'["server"] = call["server"]
        /\ b = Null => call' = call
        /\ b # Null => call'["hw"].op = "put" /\ call'["hw"].buf = b
    BY <1>5, FreeMipmapDoes
  <2>2. i \in Slots /\ ~HwSlot.noFree /\ Distinct(HwSlot)
    BY <2>0, <2>1 DEF SlotInv, Emptying, HwSlot, TypeInv, Threads
  <2>3. /\ SlotOwns(i) = {HwSlot.mipmap} \ {Null}
        /\ SlotOwns(i)' = {}
        /\ \A j \in Slots \ {i} : SlotOwns(j)' = SlotOwns(j)
    BY <2>0, <2>1, <2>2 DEF SlotOwns, SlotBuffers, HwSlot
  <2>4. /\ Free' = Free /\ InRound' = InRound /\ InCopy' = InCopy
        /\ InCall("server")' = InCall("server") /\ InCall("hw") = {}
        /\ InCall("hw")' = {b} \ {Null}
    BY <2>1, CallFacts DEF Free, InRound, InCopy, ServerSlot, InCall
  <2>5. /\ {b} \ {Null} \subseteq SlotOwns(i)
        /\ SlotOwns(i)' = SlotOwns(i) \ ({b} \ {Null})
    BY <2>2, <2>3 DEF BuffersOf, Distinct
  <2>6. <<"slot", i>> \in Owners /\ <<"call", "hw">> \in Owners
    BY <2>2 DEF Owners, Threads
  <2> HIDE DEF b
  <2> DEFINE S == {b} \ {Null}
             from == <<"slot", i>>
             to == <<"call", "hw">>
  <2>7. /\ Own[from] = SlotOwns(i) /\ Own'[from] = SlotOwns(i)'
        /\ Own[to] = InCall("hw") /\ Own'[to] = InCall("hw")'
    BY <2>2, OwnIs, OwnNextIs DEF Threads
  <2> HIDE DEF S
  <2>8. S \subseteq Own[from] /\ Own'[from] = Own[from] \ S /\ Own'[to] = Own[to] \cup S
    BY <2>4, <2>5, <2>7 DEF S
  <2> QED BY <2>1, <2>3, <2>4, <2>6, <2>8, Moves DEF Threads
<1>6. CASE Clear
  <2>1. /\ UNCHANGED <<store, size, index, reserved, call, chunk>>
        /\ pc["hw"] = "clear" /\ pc'["hw"] = "storeOriginal" /\ pc'["server"] = pc["server"]
        /\ \A i \in Slots \ {index["hw"]} : chunks'[i] = chunks[i]
    BY <1>6, ClearDoes
  <2>2. \A i \in Slots : SlotOwns(i)' = SlotOwns(i)
    BY <2>1 DEF SlotOwns, SlotBuffers
  <2>3. InCopy' = InCopy
    <3>1. pc["server"] \in Copying => Looking
      BY DEF Looking
    <3>2. pc["server"] \in Copying => index["hw"] # index["server"]
      BY <2>1, <3>1, Behind DEF Choosing
    <3> QED BY <2>1, <3>2 DEF InCopy, ServerSlot, TypeInv, Threads
  <2> QED BY <2>1, <2>2, <2>3, NoneMoves DEF InRound, InCall, Free
<1>7. CASE StoreOriginal
  <2>1. /\ UNCHANGED <<store, size, index, reserved, call, chunk>>
        /\ pc["hw"] = "storeOriginal" /\ pc'["hw"] = "storeRest" /\ pc'["server"] = pc["server"]
        /\ \A i \in Slots \ {index["hw"]} : chunks'[i] = chunks[i]
    BY <1>7, StoreOriginalDoes
  <2>2. \A i \in Slots : SlotOwns(i)' = SlotOwns(i)
    BY <2>1 DEF SlotOwns, SlotBuffers
  <2>3. InCopy' = InCopy
    <3>1. pc["server"] \in Copying => Looking
      BY DEF Looking
    <3>2. pc["server"] \in Copying => index["hw"] # index["server"]
      BY <2>1, <3>1, Behind DEF Choosing
    <3> QED BY <2>1, <3>2 DEF InCopy, ServerSlot, TypeInv, Threads
  <2> QED BY <2>1, <2>2, <2>3, NoneMoves DEF InRound, InCall, Free
<1>8. CASE StoreRest
  <2>0. PICK i \in Slots : i = index["hw"]
    BY DEF TypeInv, Threads
  <2> DEFINE from == <<"round", 0>>
             to == <<"slot", i>>
  <2>1. /\ UNCHANGED <<store, size, index, reserved, call, chunk>>
        /\ pc["hw"] = "storeRest" /\ pc'["hw"] = "publish" /\ pc'["server"] = pc["server"]
        /\ \A j \in Slots \ {i} : chunks'[j] = chunks[j]
        /\ HwSlot'.original = chunk["hw"].original
        /\ HwSlot'.mipmap = chunk["hw"].mipmap /\ ~HwSlot'.noFree
    BY <1>8, <2>0, StoreRestDoes DEF SlotInv
  <2>2. i \in Slots /\ HwSlot' = chunks'[i]
    BY <2>0, <2>1 DEF HwSlot, TypeInv, Threads
  <2>3. InRound = BuffersOf(chunk["hw"]) /\ InRound' = {} /\ SlotOwns(i) = {}
    BY <2>0, <2>1 DEF InRound, SlotOwns
  <2>4. SlotOwns(i)' = BuffersOf(chunk["hw"])
    BY <2>0, <2>1, <2>2 DEF SlotOwns, SlotBuffers, BuffersOf
  <2>5. \A j \in Slots \ {i} : SlotOwns(j)' = SlotOwns(j)
    BY <2>0, <2>1 DEF SlotOwns, SlotBuffers
  <2>6. InCopy' = InCopy
    <3>1. pc["server"] \in Copying => Looking
      BY DEF Looking
    <3>2. pc["server"] \in Copying => index["hw"] # index["server"]
      BY <2>0, <2>1, <3>1, Behind DEF Choosing
    <3> QED BY <2>0, <2>1, <3>2 DEF InCopy, ServerSlot, TypeInv, Threads
  <2>7. from \in Owners /\ to \in Owners
    BY <2>2 DEF Owners
  <2>8. /\ Own[from] = InRound /\ Own'[from] = InRound'
        /\ Own[to] = SlotOwns(i) /\ Own'[to] = SlotOwns(i)'
    BY <2>2, OwnIs, OwnNextIs
  <2>9. Free' = Free /\ \A t \in Threads : InCall(t)' = InCall(t)
    BY <2>0, <2>1 DEF Free, InCall
  <2>10. InRound \subseteq Own[from] /\ Own'[from] = Own[from] \ InRound
         /\ Own'[to] = Own[to] \cup InRound
    BY <2>3, <2>4, <2>8
  <2> QED BY <2>0, <2>1, <2>5, <2>6, <2>7, <2>9, <2>10, Moves
<1>9. CASE Publish
  <2>1. /\ UNCHANGED <<store, size, chunks, reserved, call, index>>
        /\ pc["hw"] = "publish" /\ pc'["hw"] = "capture" /\ pc'["server"] = pc["server"]
        /\ chunk'["hw"] = NoChunk
    BY <1>9, PublishDoes
  <2>2. \A i \in Slots : SlotOwns(i)' = SlotOwns(i)
    BY <2>1, SlotsKeep
  <2>3. /\ Free' = Free /\ InCopy' = InCopy
        /\ \A t \in Threads : InCall(t)' = InCall(t)
        /\ \A c \in Clients : BuffersOf(reserved[c])' = BuffersOf(reserved[c])
    BY <2>1 DEF Free, InCopy, InCall, ServerSlot
  <2>4. InRound = {} /\ InRound' = {}
    BY <2>1 DEF InRound, BuffersOf, NoChunk
  <2> QED BY <2>2, <2>3, <2>4, NoneMoves
<1>10. CASE EndPut("hw")
  <2> DEFINE from == <<"call", "hw">>
             to == <<"pool", 0>>
  <2>1. /\ UNCHANGED <<index, chunks, chunk, reserved, pc>>
        /\ call["hw"].op = "put" /\ call'["hw"] = NoCall /\ call'["server"] = call["server"]
    BY <1>10, EndPutDoes DEF Threads
  <2>2. /\ InRound' = InRound /\ InCopy' = InCopy /\ InCall("server")' = InCall("server")
        /\ InCall("hw") = {call["hw"].buf} /\ InCall("hw")' = {}
    BY <2>1, CallFacts DEF InRound, InCopy, ServerSlot, InCall
  <2>3. \A j \in Slots : SlotOwns(j)' = SlotOwns(j)
    BY <2>1, SlotsKeep
  <2>4. Free' = Free \cup InCall("hw")
    BY <1>10, <2>2, PutFrees DEF Threads
  <2>5. from \in Owners /\ to \in Owners
    BY DEF Owners, Threads
  <2>6. /\ Own[from] = InCall("hw") /\ Own'[from] = InCall("hw")'
        /\ Own[to] = Free /\ Own'[to] = Free'
    BY OwnIs, OwnNextIs DEF Threads
  <2>7. InCall("hw") \subseteq Own[from] /\ Own'[from] = Own[from] \ InCall("hw")
        /\ Own'[to] = Own[to] \cup InCall("hw")
    BY <2>2, <2>4, <2>6
  <2>8. \A s \in Threads : <<"call", s>> \in {from, to} \/ InCall(s)' = InCall(s)
    BY <2>2 DEF Threads
  <2> QED BY <2>1, <2>2, <2>3, <2>5, <2>7, <2>8, Moves
<1>11. CASE EndGet("hw")
  <2> DEFINE from == <<"pool", 0>>
             to == <<"round", 0>>
             S == {store[size]}
  <2>1. /\ UNCHANGED <<index, chunks, reserved, pc>>
        /\ call["hw"].op = "get" /\ call'["hw"] = NoCall
        /\ call["server"] = NoCall /\ call'["server"] = NoCall
        /\ pc["hw"] \in {"process", "choose"}
    BY <1>11, EndGetDoes DEF CallInv
  <2>2. InRound = BuffersOf(chunk["hw"]) /\ InRound' = BuffersOf(chunk'["hw"])
        /\ InCopy' = InCopy /\ \A t \in Threads : InCall(t)' = InCall(t)
    BY <2>1, CallFacts DEF InRound, InCopy, ServerSlot, InCall, Threads
  <2>3. \A j \in Slots : SlotOwns(j)' = SlotOwns(j)
    BY <2>1, SlotsKeep
  <2>4. S \subseteq Free /\ Free' = Free \ S /\ store[size] # Null
    BY <1>11, GetTakes
  <2>5. BuffersOf(chunk'["hw"]) = BuffersOf(chunk["hw"]) \cup S
    BY <1>11, <2>1, <2>4, EndGetDoes DEF CallInv, ChunkInv, BuffersOf
  <2>6. from \in Owners /\ to \in Owners
    BY DEF Owners
  <2>7. /\ Own[from] = Free /\ Own'[from] = Free'
        /\ Own[to] = InRound /\ Own'[to] = InRound'
    BY OwnIs, OwnNextIs
  <2> HIDE DEF S
  <2>8. S \subseteq Own[from] /\ Own'[from] = Own[from] \ S /\ Own'[to] = Own[to] \cup S
    BY <2>2, <2>4, <2>5, <2>7
  <2> QED BY <2>1, <2>2, <2>3, <2>6, <2>8, Moves
<1>12. CASE \E c \in Clients : Start(c)
  <2>1. \A i \in Slots : SlotOwns(i)' = SlotOwns(i)
    BY <1>12, StartDoes, SlotsKeep
  <2> QED BY <1>12, <2>1, StartDoes, NoneMoves, CallFacts
    DEF InRound, InCopy, InCall, Free, ServerSlot, Threads, Copying, Releasing
<1>13. CASE \E c \in Clients : Stop(c)
  <2>1. \A i \in Slots : SlotOwns(i)' = SlotOwns(i)
    BY <1>13, StopDoes, SlotsKeep
  <2> QED BY <1>13, <2>1, StopDoes, NoneMoves, CallFacts
    DEF InRound, InCopy, InCall, Free, ServerSlot, Threads, Copying, Releasing
<1>14. CASE \E c \in Clients : Timer(c)
  <2>1. /\ UNCHANGED <<store, size, chunks, reserved, call>>
        /\ pc["server"] = "idle" /\ pc'["server"] \in {"use", "snapOriginal"}
        /\ pc'["hw"] = pc["hw"] /\ chunk'["hw"] = chunk["hw"] /\ index'["hw"] = index["hw"]
    BY <1>14, TimerDoes
  <2>2. \A i \in Slots : SlotOwns(i)' = SlotOwns(i)
    BY <2>1, SlotsKeep
  <2>3. /\ Free' = Free /\ InRound' = InRound
        /\ \A t \in Threads : InCall(t)' = InCall(t)
        /\ \A c \in Clients : BuffersOf(reserved[c])' = BuffersOf(reserved[c])
    BY <2>1 DEF Free, InRound, InCall
  <2>4. InCopy' = InCopy
    BY <2>1 DEF InCopy, Copying, ServerSlot
  <2> QED BY <2>2, <2>3, <2>4, NoneMoves
<1>15. CASE \E op \in {"start", "stop"} : ReleaseNext(op)
  <2> DEFINE ch == reserved[client]
             from == <<"client", client>>
             to == <<"call", "server">>
  <2>1. /\ UNCHANGED <<store, size, index, chunks, chunk, client>>
        /\ pc["server"] \in Releasing /\ pc'["hw"] = pc["hw"]
        /\ call["server"] = NoCall /\ call'["hw"] = call["hw"]
        /\ pc'["server"] \in Releasing \cup {"idle", "reserve"}
        /\ \A c \in Clients \ {client} : reserved'[c] = reserved[c]
        /\ client \in Clients
    BY <1>15, ReleaseNextDoes DEF TypeInv
  <2>2. /\ Free' = Free /\ InRound' = InRound /\ InCopy = {} /\ InCopy' = {}
        /\ InCall("hw")' = InCall("hw") /\ InCall("server") = {}
    BY <2>1, CallFacts DEF Free, InRound, InCopy, InCall, Releasing, Copying
  <2>3. \A j \in Slots : SlotOwns(j)' = SlotOwns(j)
    BY <2>1, SlotsKeep
  <2>4. PICK S : /\ S \subseteq BuffersOf(ch) /\ InCall("server")' = S
                 /\ BuffersOf(reserved'[client]) = BuffersOf(ch) \ S
    <3>1. CASE /\ HasData(ch) /\ call'["server"].op = "put"
               /\ \/ /\ ch.original # Null
                     /\ call'["server"].buf = ch.original
                     /\ reserved'[client].original = Null
                     /\ reserved'[client].mipmap = ch.mipmap
                  \/ /\ ch.original = Null /\ ch.mipmap # Null
                     /\ call'["server"].buf = ch.mipmap
                     /\ reserved'[client].mipmap = Null
                     /\ reserved'[client].original = ch.original
      <4>1. Distinct(ch) /\ InCall("server")' = {call'["server"].buf}
        BY <2>1, <3>1 DEF ServerInv, InCall
      <4>2. /\ {call'["server"].buf} \subseteq BuffersOf(ch)
            /\ BuffersOf(reserved'[client]) = BuffersOf(ch) \ {call'["server"].buf}
        BY <3>1, <4>1 DEF BuffersOf, Distinct
      <4> QED BY <4>1, <4>2
    <3>2. CASE ~HasData(ch) /\ reserved'[client] = NoChunk /\ call' = call
      <4>1. BuffersOf(ch) = {} /\ BuffersOf(reserved'[client]) = {} /\ InCall("server")' = {}
        BY <2>2, <3>2 DEF BuffersOf, HasData, NoChunk, InCall
      <4> QED BY <4>1
    <3> QED BY <1>15, <3>1, <3>2, ReleaseNextDoes
  <2>5. from \in Owners /\ to \in Owners
    BY <2>1 DEF Owners, Threads
  <2>6. /\ Own[from] = BuffersOf(ch) /\ Own'[from] = BuffersOf(reserved'[client])
        /\ Own[to] = InCall("server") /\ Own'[to] = InCall("server")'
    BY <2>1, OwnIs, OwnNextIs DEF Threads
  <2>7. \A c \in Clients : <<"client", c>> \in {from, to}
                           \/ BuffersOf(reserved[c])' = BuffersOf(reserved[c])
    BY <2>1
  <2>8. S \subseteq Own[from] /\ Own'[from] = Own[from] \ S /\ Own'[to] = Own[to] \cup S
    BY <2>2, <2>4, <2>6
  <2>9. \A t \in Threads : <<"call", t>> \in {from, to} \/ InCall(t)' = InCall(t)
    BY <2>2 DEF Threads
  <2> HIDE DEF ch
  <2> QED BY <2>2, <2>3, <2>5, <2>7, <2>8, <2>9, Moves
<1>16. CASE Reserve
  <2>1. \A i \in Slots : SlotOwns(i)' = SlotOwns(i)
    BY <1>16, ReserveDoes, SlotsKeep
  <2> QED BY <1>16, <2>1, ReserveDoes, NoneMoves, CallFacts
    DEF InRound, InCopy, InCall, Free, ServerSlot, Threads, Copying, Releasing
<1>17. CASE Test
  <2>1. \A i \in Slots : SlotOwns(i)' = SlotOwns(i)
    BY <1>17, TestDoes, SlotsKeep
  <2> QED BY <1>17, <2>1, TestDoes, NoneMoves, CallFacts
    DEF InRound, InCopy, InCall, Free, ServerSlot, Threads, Copying, Releasing
<1>18. CASE Pin
  <2>0. PICK i \in Slots : i = index["server"]
    BY DEF TypeInv, Threads
  <2> DEFINE from == <<"slot", i>>
             to == <<"copy", 0>>
  <2>1. /\ UNCHANGED <<store, size, index, reserved, call, chunk>>
        /\ pc["server"] = "pin" /\ pc'["server"] = "copyOriginal" /\ pc'["hw"] = pc["hw"]
        /\ \A j \in Slots \ {i} : chunks'[j] = chunks[j]
        /\ BuffersOf(ServerSlot)' = BuffersOf(ServerSlot)
        /\ ServerSlot'.noFree /\ ~ServerSlot.noFree
    BY <1>18, <2>0, PinDoes DEF ServerInv, BuffersOf
  <2>2. i \in Slots /\ ServerSlot' = chunks'[i] /\ ServerSlot = chunks[i]
    BY <2>0, <2>1 DEF ServerSlot, TypeInv, Threads
  <2>3. pc["hw"] \notin Choosing => index["hw"] # i
    BY <1>18, <2>0, PinDoes
  <2>4. SlotOwns(i) = BuffersOf(ServerSlot) /\ SlotOwns(i)' = {}
    BY <2>0, <2>1, <2>2, <2>3 DEF SlotOwns, SlotBuffers, Choosing
  <2>5. \A j \in Slots \ {i} : SlotOwns(j)' = SlotOwns(j)
    BY <2>0, <2>1 DEF SlotOwns, SlotBuffers
  <2>6. InCopy = {} /\ InCopy' = BuffersOf(ServerSlot)
    BY <2>0, <2>1 DEF InCopy, Copying
  <2>7. from \in Owners /\ to \in Owners
    BY <2>2 DEF Owners
  <2>8. /\ Own[from] = SlotOwns(i) /\ Own'[from] = SlotOwns(i)'
        /\ Own[to] = InCopy /\ Own'[to] = InCopy'
    BY <2>2, OwnIs, OwnNextIs
  <2>9. Free' = Free /\ InRound' = InRound /\ \A t \in Threads : InCall(t)' = InCall(t)
    BY <2>0, <2>1 DEF Free, InCall, InRound
  <2>10. InCopy' \subseteq Own[from] /\ Own'[from] = Own[from] \ InCopy'
         /\ Own'[to] = Own[to] \cup InCopy'
    BY <2>4, <2>6, <2>8
  <2> QED BY <2>0, <2>1, <2>5, <2>7, <2>9, <2>10, Moves
<1>19. CASE CopyRest
  <2> DEFINE from == <<"copy", 0>>
             to == <<"client", client>>
  <2>1. /\ UNCHANGED <<store, size, index, chunks, call, client>>
        /\ chunk'["hw"] = chunk["hw"]
        /\ pc["server"] = "copyRest" /\ pc'["server"] = "idle" /\ pc'["hw"] = pc["hw"]
        /\ \A c \in Clients \ {client} : reserved'[c] = reserved[c]
        /\ chunk["server"].original = ServerSlot.original
        /\ client \in Clients
    BY <1>19, CopyRestDoes DEF ServerInv, TypeInv, Looking, Copying
  <2>2. BuffersOf(reserved'[client]) = BuffersOf(ServerSlot)
    BY <1>19, <2>1, CopyRestDoes DEF BuffersOf, NoChunk
  <2>3. BuffersOf(reserved[client]) = {} /\ InCopy = BuffersOf(ServerSlot) /\ InCopy' = {}
    BY <2>1 DEF ServerInv, Reserving, Copying, InCopy
  <2>4. \A j \in Slots : SlotOwns(j)' = SlotOwns(j)
    BY <2>1, SlotsKeep
  <2>5. from \in Owners /\ to \in Owners
    BY <2>1 DEF Owners
  <2>6. /\ Own[from] = InCopy /\ Own'[from] = InCopy'
        /\ Own[to] = BuffersOf(reserved[client]) /\ Own'[to] = BuffersOf(reserved'[client])
    BY <2>1, OwnIs, OwnNextIs
  <2>7. Free' = Free /\ InRound' = InRound /\ \A t \in Threads : InCall(t)' = InCall(t)
    BY <2>1 DEF Free, InCall, InRound
  <2>8. InCopy \subseteq Own[from] /\ Own'[from] = Own[from] \ InCopy
        /\ Own'[to] = Own[to] \cup InCopy
    BY <2>2, <2>3, <2>6
  <2>9. \A c \in Clients : <<"client", c>> \in {from, to}
                           \/ BuffersOf(reserved[c])' = BuffersOf(reserved[c])
    BY <2>1
  <2> QED BY <2>4, <2>5, <2>7, <2>8, <2>9, Moves
<1>20. CASE SnapRest
  <2>1. \A i \in Slots : SlotOwns(i)' = SlotOwns(i)
    BY <1>20, SnapRestDoes, SlotsKeep
  <2> QED BY <1>20, <2>1, SnapRestDoes, NoneMoves, CallFacts
    DEF InRound, InCopy, InCall, Free, ServerSlot, Threads, Copying, Releasing
<1>21. CASE Flush
  <2>1. \A i \in Slots : SlotOwns(i)' = SlotOwns(i)
    BY <1>21, FlushDoes, SlotsKeep
  <2> QED BY <1>21, <2>1, FlushDoes, NoneMoves, CallFacts
    DEF InRound, InCopy, InCall, Free, ServerSlot, Threads, Copying, Releasing
<1>22. CASE CopyOriginal("copyOriginal", "copyRest")
  <2>1. /\ UNCHANGED <<store, size, chunks, reserved, call, index>>
        /\ pc["server"] = "copyOriginal" /\ pc'["server"] = "copyRest"
        /\ pc'["hw"] = pc["hw"] /\ chunk'["hw"] = chunk["hw"] /\ index'["hw"] = index["hw"]
    BY <1>22, CopyOriginalDoes, Lines
  <2>2. \A i \in Slots : SlotOwns(i)' = SlotOwns(i)
    BY <2>1, SlotsKeep
  <2>3. /\ Free' = Free /\ InRound' = InRound
        /\ \A t \in Threads : InCall(t)' = InCall(t)
        /\ \A c \in Clients : BuffersOf(reserved[c])' = BuffersOf(reserved[c])
    BY <2>1 DEF Free, InRound, InCall
  <2>4. InCopy' = InCopy
    BY <2>1 DEF InCopy, Copying, ServerSlot
  <2> QED BY <2>2, <2>3, <2>4, NoneMoves
<1>23. CASE CopyOriginal("snapOriginal", "snapRest")
  <2>1. /\ UNCHANGED <<store, size, chunks, reserved, call, index>>
        /\ pc["server"] = "snapOriginal" /\ pc'["server"] = "snapRest"
        /\ pc'["hw"] = pc["hw"] /\ chunk'["hw"] = chunk["hw"] /\ index'["hw"] = index["hw"]
    BY <1>23, CopyOriginalDoes, Lines
  <2>2. \A i \in Slots : SlotOwns(i)' = SlotOwns(i)
    BY <2>1, SlotsKeep
  <2>3. /\ Free' = Free /\ InRound' = InRound
        /\ \A t \in Threads : InCall(t)' = InCall(t)
        /\ \A c \in Clients : BuffersOf(reserved[c])' = BuffersOf(reserved[c])
    BY <2>1 DEF Free, InRound, InCall
  <2>4. InCopy' = InCopy
    BY <2>1 DEF InCopy, Copying, ServerSlot
  <2> QED BY <2>2, <2>3, <2>4, NoneMoves
<1>24. CASE EndPut("server")
  <2> DEFINE from == <<"call", "server">>
             to == <<"pool", 0>>
  <2>1. /\ UNCHANGED <<index, chunks, chunk, reserved, pc>>
        /\ call["server"].op = "put" /\ call'["server"] = NoCall /\ call'["hw"] = call["hw"]
    BY <1>24, EndPutDoes DEF Threads
  <2>2. /\ InRound' = InRound /\ InCopy' = InCopy /\ InCall("hw")' = InCall("hw")
        /\ InCall("server") = {call["server"].buf} /\ InCall("server")' = {}
    BY <2>1, CallFacts DEF InRound, InCopy, ServerSlot, InCall
  <2>3. \A j \in Slots : SlotOwns(j)' = SlotOwns(j)
    BY <2>1, SlotsKeep
  <2>4. Free' = Free \cup InCall("server")
    BY <1>24, <2>2, PutFrees DEF Threads
  <2>5. from \in Owners /\ to \in Owners
    BY DEF Owners, Threads
  <2>6. /\ Own[from] = InCall("server") /\ Own'[from] = InCall("server")'
        /\ Own[to] = Free /\ Own'[to] = Free'
    BY OwnIs, OwnNextIs DEF Threads
  <2>7. InCall("server") \subseteq Own[from] /\ Own'[from] = Own[from] \ InCall("server")
        /\ Own'[to] = Own[to] \cup InCall("server")
    BY <2>2, <2>4, <2>6
  <2>8. \A s \in Threads : <<"call", s>> \in {from, to} \/ InCall(s)' = InCall(s)
    BY <2>2 DEF Threads
  <2> QED BY <2>1, <2>2, <2>3, <2>5, <2>7, <2>8, Moves
<1>25. CASE UNCHANGED vars
  BY <1>25, SlotsKeep, NoneMoves DEF vars, InRound, InCopy, InCall, Free, ServerSlot
<1> QED BY <1>1, <1>2, <1>3, <1>4, <1>5, <1>6, <1>7, <1>8, <1>9, <1>10, <1>11, <1>12,
   <1>13, <1>14, <1>15, <1>16, <1>17, <1>18, <1>19, <1>20, <1>21, <1>22, <1>23, <1>24,
   <1>25
  DEF Next, Hardware, Server

-----------------------------------------------------------------------------
(* The theorems.                                                           *)

\* The program starts with every buffer in the pool.
LEMMA InitInv ==
  ASSUME Init
  PROVE  IInv
<1>1. TypeInv
  <2>1. store \in Seq(Buffers) /\ Len(store) = NBufs
    BY HwThreadsAssumption DEF Init, Buffers
  <2>2. size \in Nat /\ size <= Len(store)
    BY <2>1, HwThreadsAssumption DEF Init
  <2>3. 0 \in Slots
    BY HwThreadsAssumption DEF Slots
  <2>4. pc["hw"] \in HwLines /\ pc["server"] \in ServerLines
        /\ pc \in [Threads -> HwLines \cup ServerLines]
    BY Lines DEF Init, Threads
  <2>5. /\ chunks \in [Slots -> Chunk] /\ reserved \in [Clients -> Chunk]
        /\ chunk \in [Threads -> Chunk]
    BY ChunkFacts DEF Init
  <2> QED BY <2>1, <2>2, <2>3, <2>4, <2>5 DEF TypeInv, Init
<1>2. NoTwice /\ Free = Buffers
  <2>1. size = NBufs /\ NBufs \in Nat /\ \A i \in 1 .. NBufs : store[i] = NBufs + 1 - i
    BY HwThreadsAssumption DEF Init
  <2>2. NoTwice
    BY <2>1 DEF NoTwice
  <2>3. ASSUME NEW b \in Buffers
        PROVE  b \in Free
    <3>1. NBufs + 1 - b \in 1 .. NBufs /\ store[NBufs + 1 - b] = b
      BY <2>1 DEF Buffers
    <3> QED BY <2>1, <3>1 DEF Free
  <2>4. Free \subseteq Buffers
    BY <2>1 DEF Free, Buffers
  <2> QED BY <2>2, <2>3, <2>4
<1>3. OneOwner
  <2>1. /\ InRound = {} /\ InCopy = {} /\ \A t \in Threads : InCall(t) = {}
        /\ \A i \in Slots : SlotOwns(i) = {}
        /\ \A c \in Clients : BuffersOf(reserved[c]) = {}
    <3>1. BuffersOf(NoChunk) = {}
      BY DEF BuffersOf, NoChunk
    <3>2. InRound = {} /\ InCopy = {}
      BY <3>1 DEF Init, InRound, InCopy, Threads, Copying
    <3>3. \A t \in Threads : InCall(t) = {}
      BY CallFacts DEF Init, InCall
    <3>4. \A i \in Slots : SlotOwns(i) = {}
      BY <3>1 DEF Init, SlotOwns, SlotBuffers, Threads
    <3>5. \A c \in Clients : BuffersOf(reserved[c]) = {}
      BY <3>1 DEF Init
    <3> QED BY <3>2, <3>3, <3>4, <3>5
  <2>2. \A h \in Owners : h # <<"pool", 0>> => Own[h] = {}
    BY <2>1, OwnIs, OwnerKinds
  <2>3. Own[<<"pool", 0>>] = Buffers /\ <<"pool", 0>> \in Owners
    BY <1>2, OwnIs DEF Owners
  <2> QED BY <2>2, <2>3 DEF OneOwner, Partition
<1>4. CallInv
  BY CallFacts DEF CallInv, Init, Threads
<1>5. /\ pc["hw"] = "capture" /\ pc["server"] = "idle"
      /\ chunk["hw"] = NoChunk
      /\ \A i \in Slots : chunks[i] = NoChunk
      /\ \A c \in Clients : reserved[c] = NoChunk
  BY DEF Init, Threads
<1>6. ChunkInv
  BY <1>5 DEF ChunkInv, Distinct, NoChunk
<1>7. SlotInv
  BY <1>5 DEF SlotInv, Emptying, Distinct, NoChunk
<1>8. ServerInv
  BY <1>5 DEF ServerInv, Copying, Reserving, HasData, Distinct, NoChunk
<1>9. WindowInv
  BY <1>5 DEF WindowInv, Choosing
<1> QED BY <1>1, <1>2, <1>3, <1>4, <1>6, <1>7, <1>8, <1>9 DEF IInv

\* Every step of either thread keeps the invariant.
LEMMA NextInv ==
  ASSUME IInv, Orderly', [Next]_vars
  PROVE  IInv'
<1> USE DEF IInv
<1>1. TypeInv' /\ CallInv'
  BY TypeStep, CallStep
<1>2. WindowInv'
  BY WindowStep
<1>3. ChunkInv'
  BY ChunkStep
<1>4. SlotInv'
  BY SlotStep
<1>5. ServerInv'
  BY ServerStep
<1>6. NoTwice'
  BY TwiceStep
<1>7. OneOwner'
  BY OwnerStep
<1> QED BY <1>1, <1>2, <1>3, <1>4, <1>5, <1>6, <1>7

\* A race that has been run stays on record.
LEMMA RacesStay ==
  ASSUME [Next]_vars, Orderly'
  PROVE  Orderly
<1>1. races \ {"show"} \subseteq races'
  <2>1. ASSUME NEW t \in Threads, NEW b, BeginPut(t, b)
        PROVE  races \subseteq races'
    BY <2>1 DEF BeginPut, Enters
  <2>2. ASSUME NEW t \in Threads, NEW f, BeginGet(t, f)
        PROVE  races \subseteq races'
    BY <2>2 DEF BeginGet, Enters
  <2>3. CASE Hardware
    <3>1. ASSUME Capture \/ Process
          PROVE  races \subseteq races'
      BY <3>1, <2>2 DEF Capture, Process, Threads
    <3>2. ASSUME FreeOriginal \/ FreeMipmap
          PROVE  races \subseteq races'
      BY <3>2, <2>1 DEF FreeOriginal, FreeMipmap, Threads
    <3>3. ASSUME Choose
          PROVE  races \subseteq races'
      BY <3>3 DEF Choose, ComesRound
    <3>4. ASSUME Clear \/ StoreOriginal \/ StoreRest \/ Publish \/ EndPut("hw") \/ EndGet("hw")
          PROVE  races' = races
      BY <3>4 DEF Clear, StoreOriginal, StoreRest, Publish, EndPut, EndGet
    <3> QED BY <2>3, <3>1, <3>2, <3>3, <3>4 DEF Hardware
  <2>4. CASE Server
    <3>1. ASSUME NEW c \in Clients, Start(c) \/ Stop(c) \/ Timer(c)
          PROVE  races \ {"show"} \subseteq races'
      BY <3>1 DEF Start, Stop, Timer, Enter
    <3>2. ASSUME NEW op \in {"start", "stop"}, ReleaseNext(op)
          PROVE  races \subseteq races'
      <4>1. \/ races' = races
            \/ \E b : BeginPut("server", b)
        BY <3>2 DEF ReleaseNext
      <4> QED BY <4>1, <2>1 DEF Threads
    <3>3. ASSUME Pin
          PROVE  races \subseteq races'
      BY <3>3 DEF Pin, Marks
    <3>4. ASSUME \/ Reserve \/ Test \/ CopyRest \/ SnapRest \/ Flush \/ EndPut("server")
                 \/ \E from, to : CopyOriginal(from, to)
          PROVE  races' = races
      BY <3>4 DEF Reserve, Test, CopyRest, SnapRest, Flush, EndPut, CopyOriginal
    <3> QED BY <2>4, <3>1, <3>2, <3>3, <3>4 DEF Server
  <2>5. CASE UNCHANGED vars
    BY <2>5 DEF vars
  <2> QED BY <2>3, <2>4, <2>5 DEF Next
<1> QED BY <1>1 DEF Orderly

\* The two threads keep the invariant up to the first race.
LEMMA Invariance ==
  Spec => [](Orderly => IInv)
<1>1. Init => (Orderly => IInv)
  BY InitInv
<1>2. (Orderly => IInv) /\ [Next]_vars => (Orderly => IInv)'
  <2> SUFFICES ASSUME Orderly => IInv, [Next]_vars, Orderly'
               PROVE  IInv'
    OBVIOUS
  <2> QED BY RacesStay, NextInv
<1> QED BY <1>1, <1>2, PTL DEF Spec

\* hw_reserveChunk: no access of either thread sees a buffer of a pinned chunk
\* free, in the next chunk, in a slot that will be freed, or pinned twice, unless
\* the threads have met in BufferPool or hw_reserveChunk has marked or copied a
\* slot while checkDone replaced it: these two races are all there are.
THEOREM PinsAreExclusive ==
  Spec => []PinExclusive
<1>1. ASSUME IInv
      PROVE  PinsHold
  <2> SUFFICES ASSUME NEW c \in Clients
               PROVE  /\ BuffersOf(reserved[c]) \cap (Free \cup BuffersOf(chunk["hw"])) = {}
                      /\ \A i \in Slots : BuffersOf(reserved[c]) \cap SlotBuffers(i) = {}
                      /\ \A d \in Clients \ {c} :
                           BuffersOf(reserved[c]) \cap BuffersOf(reserved[d]) = {}
    BY DEF PinsHold
  <2> DEFINE mine == BuffersOf(reserved[c])
  <2>1. TypeInv /\ OneOwner /\ SlotInv
    BY <1>1 DEF IInv
  <2>2. /\ mine \cap Free = {} /\ mine \cap InRound = {} /\ mine \cap InCall("hw") = {}
        /\ \A i \in Slots : mine \cap SlotOwns(i) = {}
        /\ \A d \in Clients \ {c} : mine \cap BuffersOf(reserved[d]) = {}
    BY <2>1, Separate DEF Threads
  <2>3. Null \notin mine
    BY DEF BuffersOf
  <2>4. index["hw"] \in Slots
    BY <2>1 DEF TypeInv, Threads
  <2> HIDE DEF mine
  <2>5. ASSUME NEW i \in Slots
        PROVE  mine \cap SlotBuffers(i) = {}
    <3>1. CASE SlotBuffers(i) \subseteq SlotOwns(i)
      BY <2>2, <3>1
    <3>2. CASE i = index["hw"] /\ pc["hw"] = "freeMipmap"
      <4>1. SlotBuffers(i) \subseteq SlotOwns(i) \cup Returned
        BY <2>1, <3>2 DEF SlotBuffers, SlotOwns, BuffersOf, SlotInv, HwSlot, Emptying
      <4> QED BY <2>2, <2>3, <4>1 DEF Returned
    <3>3. CASE i = index["hw"] /\ pc["hw"] = "clear"
      <4>1. SlotBuffers(i) \subseteq Returned
        BY <2>1, <3>3 DEF SlotBuffers, BuffersOf, SlotInv, HwSlot
      <4> QED BY <2>2, <2>3, <4>1 DEF Returned
    <3>4. CASE i = index["hw"] /\ pc["hw"] = "storeOriginal"
      BY <2>1, <3>4 DEF SlotBuffers, BuffersOf, SlotInv, HwSlot, NoChunk
    <3>5. CASE i = index["hw"] /\ pc["hw"] = "storeRest"
      <4>1. SlotBuffers(i) \subseteq InRound
        BY <2>1, <3>5 DEF SlotBuffers, BuffersOf, SlotInv, HwSlot, InRound
      <4> QED BY <2>2, <4>1
    <3> QED BY <3>1, <3>2, <3>3, <3>4, <3>5 DEF SlotOwns
  <2>6. mine \cap BuffersOf(chunk["hw"]) = {}
    <3>1. CASE pc["hw"] = "publish"
      <4>1. BuffersOf(chunk["hw"]) = SlotBuffers(index["hw"])
        BY <2>1, <3>1 DEF SlotInv, SlotBuffers, BuffersOf, HwSlot
      <4> QED BY <2>4, <2>5, <4>1
    <3>2. CASE pc["hw"] # "publish"
      BY <2>2, <3>2 DEF InRound
    <3> QED BY <3>1, <3>2
  <2> QED BY <2>2, <2>5, <2>6 DEF mine
<1>2. (Orderly => IInv) => PinExclusive
  BY <1>1 DEF PinExclusive
<1> QED BY <1>2, Invariance, PTL

\* Between two rounds every buffer is in one place, and once in the pool, unless
\* one of the two races was run.
THEOREM BuffersAreConserved ==
  Spec => []BuffersConserved
<1>1. ASSUME IInv, Quiet
      PROVE  /\ \A b \in Buffers : \E h \in Holders : \A k \in Holders :
                  b \in HeldBy(k) <=> k = h
             /\ IsInjective(SubSeq(store, 1, size))
  <2>1. TypeInv /\ OneOwner /\ NoTwice /\ ChunkInv
    BY <1>1 DEF IInv
  <2>2. pc["hw"] = "capture" /\ pc["server"] = "idle" /\ \A t \in Threads : call[t] = NoCall
    BY <1>1 DEF Quiet, Threads
  <2>3. InRound = {} /\ InCopy = {} /\ \A t \in Threads : InCall(t) = {}
    BY <2>1, <2>2, CallFacts DEF ChunkInv, InRound, InCopy, InCall, BuffersOf, NoChunk, Copying
  <2>4. \A h \in Holders : h \in Owners /\ Own[h] = HeldBy(h)
    <3>1. \A i \in Slots : SlotOwns(i) = SlotBuffers(i)
      BY <2>2 DEF SlotOwns
    <3> SUFFICES ASSUME NEW h \in Holders
                 PROVE  h \in Owners /\ Own[h] = HeldBy(h)
      OBVIOUS
    <3>2. CASE h = <<"pool", 0>>
      BY <3>2, OwnIs DEF Owners, HeldBy
    <3>3. CASE \E i \in Slots : h = <<"slot", i>>
      BY <3>1, <3>3, OwnIs DEF Owners, HeldBy
    <3>4. CASE \E c \in Clients : h = <<"client", c>>
      BY <3>4, OwnIs DEF Owners, HeldBy
    <3> QED BY <3>2, <3>3, <3>4 DEF Holders
  <2>5. \A h \in Owners : h \in Holders \/ Own[h] = {}
    <3> SUFFICES ASSUME NEW h \in Owners
                 PROVE  h \in Holders \/ Own[h] = {}
      OBVIOUS
    <3> QED BY <2>3, OwnIs, OwnerKinds DEF Holders
  <2>6. ASSUME NEW b \in Buffers
        PROVE  \E h \in Holders : \A k \in Holders : b \in HeldBy(k) <=> k = h
    <3>1. PICK h \in Owners : \A k \in Owners : b \in Own[k] <=> k = h
      BY <2>1 DEF OneOwner, Partition
    <3>2. h \in Holders
      BY <2>5, <3>1
    <3> QED BY <2>4, <3>1, <3>2
  <2>7. IsInjective(SubSeq(store, 1, size))
    <3>1. store \in Seq(Buffers) /\ size \in Nat /\ size <= Len(store)
      BY <2>1 DEF TypeInv
    <3> DEFINE s == SubSeq(store, 1, size)
    <3>2. DOMAIN s = 1 .. size /\ \A i \in 1 .. size : s[i] = store[i]
      BY <3>1
    <3> HIDE DEF s
    <3>3. \A i, j \in DOMAIN s : s[i] = s[j] => i = j
      BY <2>1, <3>2 DEF NoTwice
    <3> QED BY <3>3 DEF IsInjective, s
  <2> QED BY <2>6, <2>7
<1>2. (Orderly => IInv) => BuffersConserved
  BY <1>1 DEF BuffersConserved
<1> QED BY <1>2, Invariance, PTL

\* hw.H, snapshot: what timerCB reads is one publication, and has not been given
\* back, until checkDone has come round the ring to it.
THEOREM ShownIsResident ==
  Spec => []ShownResident
<1>1. ASSUME IInv, pc["server"] = "use", ~chunk["server"].noFree, races = {}
      PROVE  /\ BuffersOf(chunk["server"]) \cap (Free \cup InHardware) = {}
             /\ chunk["server"].original = ServerSlot.original
             /\ chunk["server"].mipmap = ServerSlot.mipmap
  <2>1. TypeInv /\ OneOwner /\ ServerInv /\ WindowInv
    BY <1>1 DEF IInv
  <2>0. Looking
    BY <1>1 DEF Looking, Snapping
  <2>2. /\ chunk["server"].original = ServerSlot.original
        /\ chunk["server"].mipmap = ServerSlot.mipmap
        /\ ~ServerSlot.noFree
    BY <1>1, <2>0, <2>1 DEF ServerInv
  <2>3. PICK i \in Slots : i = index["server"]
    BY <2>1 DEF TypeInv, Threads
  <2>4. pc["hw"] \notin Choosing => index["hw"] # i
    BY <2>0, <2>1, <2>3, Behind
  <2>5. SlotOwns(i) = BuffersOf(chunk["server"])
    BY <2>2, <2>3, <2>4 DEF SlotOwns, SlotBuffers, BuffersOf, ServerSlot, Choosing
  <2>6. SlotOwns(i) \cap Free = {} /\ SlotOwns(i) \cap InRound = {}
    BY <2>1, Separate
  <2>7. InHardware \subseteq InRound
    BY DEF InHardware, InRound
  <2> QED BY <2>2, <2>5, <2>6, <2>7
<1>2. (Orderly => IInv) => ShownResident
  BY <1>1 DEF ShownResident, ServerSlot, Orderly
<1> QED BY <1>2, Invariance, PTL
=============================================================================
