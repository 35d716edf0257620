------------------------------ MODULE HwThreads ------------------------------
(***************************************************************************)
(* The two threads of websdr at the grain of their memory accesses.        *)
(* hw_doLoop runs on a thread of its own (server.C, thread1) and the       *)
(* websocket handlers on the main one; both use the buffer pools and the   *)
(* ring of chunks and neither takes a lock.                                *)
(*                                                                         *)
(* The hardware thread is reduced to one round for each chunk that is      *)
(* published: take its buffers, then chunkProcessor::checkDone line by     *)
(* line.  A chunk has two of its four buffers; freeChunk and the copy of   *)
(* the struct treat the others alike.  A call of BufferPool is two         *)
(* accesses: the size of the vector is read, later the new size is         *)
(* written.                                                                *)
(*                                                                         *)
(* Nothing keeps the threads apart, so any access of one may come between  *)
(* any two of the other.  The history variable races only records when     *)
(* they have met, and no action looks at it:                               *)
(*   "pool"  one entered BufferPool while the other was in it;             *)
(*   "pin"   hw_reserveChunk marked or copied a slot that checkDone was    *)
(*           replacing (the TODO in hw_reserveChunk);                      *)
(*   "show"  checkDone came round to the slot that the running timerCB     *)
(*           had taken for the latest.                                     *)
(***************************************************************************)
EXTENDS Integers, SequencesExt

CONSTANTS
  NBufs,     \* buffers in the pool
  RingSize,  \* chunks.resize(RingSize)
  Clients    \* websocket connections

ASSUME HwThreadsAssumption ==
  /\ NBufs \in Nat
  /\ RingSize \in Nat \ {0, 1}

Null    == 0
Buffers == 1 .. NBufs
Slots   == 0 .. RingSize - 1
Threads == {"hw", "server"}

Chunk == [original : Buffers \cup {Null}, mipmap : Buffers \cup {Null}, noFree : BOOLEAN]
NoChunk == [original |-> Null, mipmap |-> Null, noFree |-> FALSE]
HasData(ch) == ch.original # Null \/ ch.mipmap # Null
BuffersOf(ch) == {ch.original, ch.mipmap} \ {Null}

NoCall == [op |-> "none"]

VARIABLES
  store,      \* the storage of availableBuffers
  size,       \* its size
  chunks,     \* sv.chunks
  currChunk,  \* sv.currChunk
  reserved,   \* MyHandler::reservedChunk
  pc,         \* the next line of each thread
  call,       \* the call of BufferPool that a thread is in
  chunk,      \* the chunk of the chunkProcessor; hw_reserveChunk's or timerCB's copy
  index,      \* the slot a thread works on
  client,     \* the connection whose handler runs
  races       \* history: the races that have been run, by kind (below)

vars == <<store, size, chunks, currChunk, reserved, pc, call, chunk, index, client, races>>

pool == <<store, size>>
ring == <<chunks, currChunk>>

Init ==
  /\ store = [i \in 1 .. NBufs |-> NBufs + 1 - i]
  /\ size = NBufs
  /\ chunks = [i \in Slots |-> NoChunk]
  /\ currChunk = 0
  /\ reserved = [c \in Clients |-> NoChunk]
  /\ pc = [t \in Threads |-> IF t = "hw" THEN "capture" ELSE "idle"]
  /\ call = [t \in Threads |-> NoCall]
  /\ chunk = [t \in Threads |-> NoChunk]
  /\ index = [t \in Threads |-> 0]
  /\ client \in Clients
  /\ races = {}

\* Thread t is at line l and in no call.
At(t, l) == pc[t] = l /\ call[t] = NoCall
Goto(t, l) == pc' = [pc EXCEPT ![t] = l]

-----------------------------------------------------------------------------
(* BufferPool.                                                             *)

Enters(t) ==
  races' = races \cup {k \in {"pool"} : \E u \in Threads \ {t} : call[u] # NoCall}

\* put of a pointer that may be null: push_back reads the size.
BeginPut(t, b) ==
  IF b = Null
  THEN UNCHANGED <<call, races>>
  ELSE /\ call' = [call EXCEPT ![t] = [op |-> "put", buf |-> b, at |-> size]]
       /\ Enters(t)

\* get: back() is read at the size that is found.
BeginGet(t, field) ==
  /\ size > 0
  /\ call' = [call EXCEPT ![t] = [op |-> "get", buf |-> store[size], at |-> size,
                                  field |-> field]]
  /\ Enters(t)

EndPut(t) ==
  /\ call[t].op = "put"
  /\ LET n == call[t].at + 1
     IN  /\ store' = IF n > Len(store) THEN Append(store, call[t].buf)
                     ELSE [store EXCEPT ![n] = call[t].buf]
         /\ size' = n
  /\ call' = [call EXCEPT ![t] = NoCall]
  /\ UNCHANGED <<ring, reserved, pc, chunk, index, client, races>>

EndGet(t) ==
  /\ call[t].op = "get"
  /\ size' = call[t].at - 1
  /\ chunk' = [chunk EXCEPT ![t][call[t].field] = call[t].buf]
  /\ call' = [call EXCEPT ![t] = NoCall]
  /\ UNCHANGED <<store, ring, reserved, pc, index, client, races>>

-----------------------------------------------------------------------------
(* The hardware thread.                                                    *)

\* The buffers of the next chunk are taken.
Capture ==
  /\ At("hw", "capture")
  /\ BeginGet("hw", "original")
  /\ Goto("hw", "process")
  /\ UNCHANGED <<pool, ring, reserved, chunk, index, client>>

Process ==
  /\ At("hw", "process")
  /\ BeginGet("hw", "mipmap")
  /\ Goto("hw", "choose")
  /\ UNCHANGED <<pool, ring, reserved, chunk, index, client>>

\* The slot after the latest is the one that a handler marked or shows.
Reads == [pin |-> {"copyOriginal", "copyRest"}, show |-> {"snapOriginal", "snapRest", "use"}]
ComesRound ==
  races' = races \cup {k \in {"pin", "show"} : /\ pc["server"] \in Reads[k]
                                              /\ index["server"] = (currChunk + 1) % RingSize}

\* Faulty variant: noFree is not looked at
ChooseIgnoresPin ==
  /\ At("hw", "choose")
  /\ ComesRound
  /\ index' = [index EXCEPT !["hw"] = (currChunk + 1) % RingSize]
  /\ Goto("hw", "freeOriginal")
  /\ UNCHANGED <<pool, ring, reserved, call, chunk, client>>

\* Faulty variant: the index is published before the chunk is stored
ChoosePublishes ==
  /\ At("hw", "choose")
  /\ ComesRound
  /\ LET i == (currChunk + 1) % RingSize
     IN  /\ index' = [index EXCEPT !["hw"] = i]
         /\ currChunk' = i
         /\ Goto("hw", IF chunks[i].noFree THEN "storeOriginal" ELSE "freeOriginal")
  /\ UNCHANGED <<pool, chunks, reserved, call, chunk, client>>

\* index = (currChunk + 1) % size, and the test of noFree.
Choose ==
  /\ At("hw", "choose")
  /\ ComesRound
  /\ LET i == (currChunk + 1) % RingSize
     IN  /\ index' = [index EXCEPT !["hw"] = i]
         /\ Goto("hw", IF chunks[i].noFree THEN "storeOriginal" ELSE "freeOriginal")
  /\ UNCHANGED <<pool, ring, reserved, call, chunk, client>>

FreeOriginal ==
  /\ At("hw", "freeOriginal")
  /\ BeginPut("hw", chunks[index["hw"]].original)
  /\ Goto("hw", "freeMipmap")
  /\ UNCHANGED <<pool, ring, reserved, chunk, index, client>>

FreeMipmap ==
  /\ At("hw", "freeMipmap")
  /\ BeginPut("hw", chunks[index["hw"]].mipmap)
  /\ Goto("hw", "clear")
  /\ UNCHANGED <<pool, ring, reserved, chunk, index, client>>

\* chunk = {} at the end of freeChunk.
Clear ==
  /\ At("hw", "clear")
  /\ chunks' = [chunks EXCEPT ![index["hw"]] = NoChunk]
  /\ Goto("hw", "storeOriginal")
  /\ UNCHANGED <<pool, currChunk, reserved, call, chunk, index, client, races>>

\* sv.chunks[index] = chunk, one field after the other.
StoreOriginal ==
  /\ At("hw", "storeOriginal")
  /\ chunks' = [chunks EXCEPT ![index["hw"]].original = chunk["hw"].original]
  /\ Goto("hw", "storeRest")
  /\ UNCHANGED <<pool, currChunk, reserved, call, chunk, index, client, races>>

StoreRest ==
  /\ At("hw", "storeRest")
  /\ chunks' = [chunks EXCEPT ![index["hw"]].mipmap = chunk["hw"].mipmap,
                              ![index["hw"]].noFree = FALSE]
  /\ Goto("hw", "publish")
  /\ UNCHANGED <<pool, currChunk, reserved, call, chunk, index, client, races>>

\* __sync_synchronize(), sv.currChunk = index, delete this.
Publish ==
  /\ At("hw", "publish")
  /\ currChunk' = index["hw"]
  /\ chunk' = [chunk EXCEPT !["hw"] = NoChunk]
  /\ Goto("hw", "capture")
  /\ UNCHANGED <<pool, chunks, reserved, call, index, client, races>>

Hardware ==
  \/ Capture \/ Process \/ Choose \/ FreeOriginal \/ FreeMipmap \/ Clear
  \/ StoreOriginal \/ StoreRest \/ Publish \/ EndPut("hw") \/ EndGet("hw")

-----------------------------------------------------------------------------
(* The server thread: one handler at a time.                               *)

\* The handler of connection c is called and begins at line l.
Enter(c, l) ==
  /\ At("server", "idle")
  /\ client' = c
  /\ races' = races \ {"show"}
  /\ Goto("server", l)
  /\ UNCHANGED <<pool, ring, reserved, call>>

\* The next line after if(reservedChunk) hw_freeChunk(reservedChunk).
Released(op) == IF op = "stop" THEN "reserve" ELSE "idle"
Freeing(op) == IF op = "stop" THEN "stopFreeing" ELSE "startFreeing"

Start(c) ==
  /\ Enter(c, IF HasData(reserved[c]) THEN Freeing("start") ELSE Released("start"))
  /\ UNCHANGED <<chunk, index>>

Stop(c) ==
  /\ Enter(c, IF HasData(reserved[c]) THEN Freeing("stop") ELSE Released("stop"))
  /\ UNCHANGED <<chunk, index>>

\* timerCB: the pinned chunk, or the last of a snapshot.
Timer(c) ==
  /\ Enter(c, IF HasData(reserved[c]) THEN "use" ELSE "snapOriginal")
  /\ chunk' = [chunk EXCEPT !["server"] = IF HasData(reserved[c]) THEN reserved[c] ELSE NoChunk]
  /\ index' = [index EXCEPT !["server"] = currChunk]

\* freeChunk of the handler's own copy: each pointer is put back and, here,
\* cleared with it; the copy belongs to this thread alone.
ReleaseNext(op) ==
  /\ At("server", Freeing(op))
  /\ LET ch == reserved[client]
         f  == IF ch.original # Null THEN "original" ELSE "mipmap"
     IN  IF HasData(ch)
         THEN /\ BeginPut("server", ch[f])
              /\ reserved' = [reserved EXCEPT ![client][f] = Null]
              /\ UNCHANGED pc
         ELSE /\ reserved' = [reserved EXCEPT ![client] = NoChunk]
              /\ Goto("server", Released(op))
              /\ UNCHANGED <<call, races>>
  /\ UNCHANGED <<pool, ring, chunk, index, client>>

\* hw_reserveChunk, first line: which slot is the latest.
Reserve ==
  /\ At("server", "reserve")
  /\ index' = [index EXCEPT !["server"] = currChunk]
  /\ Goto("server", "test")
  /\ UNCHANGED <<pool, ring, reserved, call, chunk, client, races>>

\* if(chunk.noFree) return an empty chunk.
Test ==
  /\ At("server", "test")
  /\ Goto("server", IF chunks[index["server"]].noFree THEN "idle" ELSE "pin")
  /\ UNCHANGED <<pool, ring, reserved, call, chunk, index, client, races>>

\* Between its test of noFree and the publication checkDone replaces the slot.
Marks ==
  races' = races \cup {k \in {"pin"} : /\ pc["hw"] \notin {"capture", "process", "choose"}
                                      /\ index["hw"] = index["server"]}

\* Faulty variant: the mark is forgotten
PinForgets ==
  /\ At("server", "pin")
  /\ Marks
  /\ Goto("server", "copyOriginal")
  /\ UNCHANGED <<pool, ring, reserved, call, chunk, index, client>>

Pin ==
  /\ At("server", "pin")
  /\ Marks
  /\ chunks' = [chunks EXCEPT ![index["server"]].noFree = TRUE]
  /\ Goto("server", "copyOriginal")
  /\ UNCHANGED <<pool, currChunk, reserved, call, chunk, index, client>>

\* A copy of a slot's first field, on the way to line l.
CopyOriginal(from, to) ==
  /\ At("server", from)
  /\ chunk' = [chunk EXCEPT !["server"] =
                 [NoChunk EXCEPT !.original = chunks[index["server"]].original]]
  /\ Goto("server", to)
  /\ UNCHANGED <<pool, ring, reserved, call, index, client, races>>

\* The rest of the copy that hw_reserveChunk returns; the handler keeps it if it
\* has data.
CopyRest ==
  /\ At("server", "copyRest")
  /\ LET got == [chunk["server"] EXCEPT !.mipmap = chunks[index["server"]].mipmap,
                                        !.noFree = chunks[index["server"]].noFree]
     IN  reserved' = [reserved EXCEPT ![client] = IF HasData(got) THEN got ELSE NoChunk]
  /\ chunk' = [chunk EXCEPT !["server"] = NoChunk]
  /\ Goto("server", "idle")
  /\ UNCHANGED <<pool, ring, call, index, client, races>>

SnapRest ==
  /\ At("server", "snapRest")
  /\ chunk' = [chunk EXCEPT !["server"].mipmap = chunks[index["server"]].mipmap,
                            !["server"].noFree = chunks[index["server"]].noFree]
  /\ Goto("server", "use")
  /\ UNCHANGED <<pool, ring, reserved, call, index, client, races>>

\* The samples have been read and the frame is written.
Flush ==
  /\ At("server", "use")
  /\ chunk' = [chunk EXCEPT !["server"] = NoChunk]
  /\ Goto("server", "idle")
  /\ UNCHANGED <<pool, ring, reserved, call, index, client, races>>

Server ==
  \/ \E c \in Clients : Start(c) \/ Stop(c) \/ Timer(c)
  \/ \E op \in {"start", "stop"} : ReleaseNext(op)
  \/ Reserve \/ Test \/ Pin \/ CopyRest \/ SnapRest \/ Flush
  \/ CopyOriginal("copyOriginal", "copyRest") \/ CopyOriginal("snapOriginal", "snapRest")
  \/ EndPut("server")

Next == Hardware \/ Server

Spec == Init /\ [][Next]_vars

-----------------------------------------------------------------------------
(* Properties.                                                             *)

Free == {store[i] : i \in 1 .. size}

\* What the hardware thread has taken for the next chunk, up to its publication.
InHardware == IF pc["hw"] \in {"storeRest", "publish"} THEN {} ELSE BuffersOf(chunk["hw"])

SlotBuffers(i) == IF chunks[i].noFree THEN {} ELSE BuffersOf(chunks[i])

\* The races that may harm more than one frame have not been run.
Orderly == races \cap {"pool", "pin"} = {}

\* The buffers of a pinned chunk are not free, not in use for another chunk, not
\* in a slot that checkDone will free and not pinned twice.
PinsHold ==
  \A c \in Clients :
    LET mine == BuffersOf(reserved[c])
    IN  /\ mine \cap (Free \cup BuffersOf(chunk["hw"])) = {}
        /\ \A i \in Slots : mine \cap SlotBuffers(i) = {}
        /\ \A d \in Clients \ {c} : mine \cap BuffersOf(reserved[d]) = {}

\* hw.H: hw_reserveChunk "locks the latest chunk in memory indefinitely until
\* hw_freeChunk is called".  At every access of either thread that is so, however
\* far either is ahead of the other, unless one of the two races was run: there
\* is no third way to break a pin.
PinExclusive == Orderly => PinsHold

\* The same with BufferPool's race alone allowed for.  The code's other race,
\* marked "TODO: fix race condition here" in hw_reserveChunk, breaks it.
PinLocks == "pool" \notin races => PinsHold

Quiet == /\ pc = [t \in Threads |-> IF t = "hw" THEN "capture" ELSE "idle"]
         /\ \A t \in Threads : call[t] = NoCall

HeldBy(h) ==
  CASE h[1] = "pool"   -> Free
    [] h[1] = "slot"   -> SlotBuffers(h[2])
    [] h[1] = "client" -> BuffersOf(reserved[h[2]])

Holders == {<<"pool", 0>>} \cup {<<"slot", i>> : i \in Slots}
             \cup {<<"client", c>> : c \in Clients}

\* Between two rounds no interleaving has lost a buffer, shared one or put one
\* in the pool twice, what HwStream says of whole handlers, unless it ran one of
\* the two races.
BuffersConserved ==
  Quiet /\ Orderly
    => /\ \A b \in Buffers : \E h \in Holders : \A k \in Holders :
            b \in HeldBy(k) <=> k = h
       /\ IsInjective(SubSeq(store, 1, size))

\* hw.H, snapshot: the latest chunk may become invalid only after one chunk
\* period.  While timerCB reads a chunk that no client ever pinned, its buffers
\* are those of one publication and have not been given back, until checkDone
\* has come all the way round the ring to that slot.
ShownResident ==
  pc["server"] = "use" /\ ~chunk["server"].noFree /\ races = {}
    => LET shown == chunk["server"]
           slot  == chunks[index["server"]]
       IN  /\ BuffersOf(shown) \cap (Free \cup InHardware) = {}
           /\ shown.original = slot.original /\ shown.mipmap = slot.mipmap
=============================================================================
