---------------------------- MODULE MipmapFinder ----------------------------
(***************************************************************************)
(* mipmapChunkFinder of mipmap_reader.H: where in the memory that the      *)
(* mipmap hardware has filled a chunk of a level is.                       *)
(*                                                                         *)
(* The hardware writes a chunk of a level right after the levelSteps       *)
(* chunks of the level below that it summarises: a depth first listing of  *)
(* a forest.  The finder never looks at the data; goToChunk computes an    *)
(* index from a level and an offset and advanceChunk moves it on with a    *)
(* carry.  Listing is that forest written down, and the properties compare *)
(* the arithmetic with it.  MipmapView is the component that calls them.   *)
(***************************************************************************)
EXTENDS Integers, Sequences, FiniteSets

CONSTANT
  levelSteps   \* levelSteps[i]: chunks of level i - 1 below one of level i

LEVELS == Len(levelSteps)
Levels == 0 .. LEVELS - 1
Step(i) == levelSteps[i + 1]

ASSUME MipmapFinderAssumption ==
  /\ levelSteps \in Seq(Nat \ {0})
  /\ LEVELS > 0

\* init: a chunk of level i with all the chunks below it.
levelSizes[i \in Levels] ==
  IF i = 0 THEN 1 ELSE levelSizes[i - 1] * Step(i - 1) + 1

totalChunkCount == levelSizes[LEVELS - 1] * Step(LEVELS - 1)

\* Chunks of one level in the whole listing.
Count[i \in Levels] ==
  IF i = LEVELS - 1 THEN Step(i) ELSE Count[i + 1] * Step(i)

VARIABLES
  levelIndex,  \* per level, the index among the chunks with the same parent
  currLevel,
  currIndex    \* the absolute index of the chunk

finder == <<levelIndex, currLevel, currIndex>>

\* The members before the first goToChunk.
FinderInit ==
  /\ levelIndex = [i \in Levels |-> 0]
  /\ currLevel = 0
  /\ currIndex = 0

\* What is left of an index of the given level when it is divided down to level i.
Ancestor(level, index) ==
  LET up[i \in level .. LEVELS - 1] ==
        IF i = level THEN index ELSE up[i - 1] \div Step(i - 1)
  IN  up

\* What is listed before a chunk and belongs to it.
Below(level) == IF level > 0 THEN Step(level - 1) * levelSizes[level - 1] ELSE 0

\* The chunks in the whole subtrees before a chunk with the given indices, summed
\* from its level to the last.
Before(index) ==
  LET sum[i \in Levels] ==
        (IF i = LEVELS - 1 THEN 0 ELSE sum[i + 1]) + index[i] * levelSizes[i]
  IN  sum

goToChunk(level, index) ==
  LET up == Ancestor(level, index)
      local == [i \in Levels |-> IF i < level THEN levelIndex[i] ELSE up[i] % Step(i)]
  IN  /\ currLevel' = level
      /\ levelIndex' = local
      /\ currIndex' = Below(level) + Before(local)[level]

Full(i) == levelIndex[i] = Step(i) - 1

\* The levels whose chunk ends here and is stepped over: the loop of advanceChunk
\* visits them in turn and stops at the first that has room.
Carried == {i \in Levels : /\ i > currLevel
                           /\ \A j \in currLevel .. i - 1 : Full(j)}

\* Faulty variant: the end of the listing is passed
WrapNever(n) == n

WrapAround(n) == IF n >= totalChunkCount THEN n - totalChunkCount ELSE n

advanceChunk ==
  /\ currIndex' = WrapAround(currIndex + levelSizes[currLevel] + Cardinality(Carried))
  /\ levelIndex' = [i \in Levels |->
                      IF i = currLevel \/ i \in Carried
                      THEN (IF Full(i) THEN 0 ELSE levelIndex[i] + 1)
                      ELSE levelIndex[i]]
  /\ UNCHANGED currLevel

-----------------------------------------------------------------------------
(* The reference: the forest as the hardware lists it.                     *)

\* trees[first], trees[first + 1], ... one after the other.
Concat(trees, first, count) ==
  LET upTo[k \in 0 .. count] == IF k = 0 THEN << >> ELSE upTo[k - 1] \o trees[first + k - 1]
  IN  upTo[count]

\* The chunks of the subtree of chunk n of level i, as <<level, offset>>.
Subtree[i \in Levels] ==
  [n \in 0 .. Count[i] - 1 |->
     Append(IF i = 0 THEN << >> ELSE Concat(Subtree[i - 1], n * Step(i - 1), Step(i - 1)),
            <<i, n>>)]

Listing == Concat(Subtree[LEVELS - 1], 0, Step(LEVELS - 1))

\* The offsets in the levels that the indices of a chunk and its ancestors stand for.
OffsetOf(index) ==
  LET value[i \in Levels] ==
        (IF i = LEVELS - 1 THEN 0 ELSE value[i + 1] * Step(i)) + index[i]
  IN  value
Offset == OffsetOf(levelIndex)[currLevel]

-----------------------------------------------------------------------------
(* Properties.                                                             *)

FinderTypeOK ==
  /\ levelIndex \in [Levels -> Nat]
  /\ \A i \in Levels : levelIndex[i] < Step(i)
  /\ currLevel \in Levels
  /\ currIndex \in 0 .. totalChunkCount - 1

\* Wherever any sequence of jumps and steps has led, the index is that of the
\* chunk which the hardware listed for that level and offset.
FindsChunk ==
  /\ Len(Listing) = totalChunkCount
  /\ Listing[currIndex + 1] = <<currLevel, Offset>>

=============================================================================
