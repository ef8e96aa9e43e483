------------------------- MODULE UploadBlocks_proofs -------------------------
(***************************************************************************)
(* Phase 1 of an upload keeps its properties for every block size, group   *)
(* size, set of chunk sizes and length of the form.  None of them is       *)
(* inductive alone: that the blocks tile the form depends on how far       *)
(* total_size is behind the bytes received, which depends on what the      *)
(* handler is about to do (Progress); that the memory is bounded, on how   *)
(* full the group is (Memory).                                             *)
(***************************************************************************)
EXTENDS UploadBlocks, FiniteSetTheorems, TLAPS

(* Where the handler stands between two chunks, two blocks, two fields. *)
Progress ==
  /\ pc \in {"chunk", "cut"} => total_size = received - buffer
  /\ pc = "store" => total_size = (received - buffer) + BlockSize
  /\ pc \in {"next_field", "store_tail", "ok"} => total_size = received
  /\ pc \in {"cut", "store"} => buffer >= BlockSize
  /\ pc = "chunk" => buffer < BlockSize
  /\ block_num = 0 => total_size = 0

(* What is in memory. *)
Memory ==
  /\ IsFiniteSet(block_set)
  /\ Cardinality(block_set) <= GroupSize
  /\ pc \in {"next_field", "chunk", "cut", "ok"} =>
       Cardinality(block_set) < GroupSize
  /\ pc \in {"next_field", "chunk", "cut", "store", "ok"} =>
       \A row \in block_set : row.to - row.from = BlockSize
  /\ \E size \in ChunkSizes \cup {0} : buffer < BlockSize + size

Numbering == TypeOK /\ StoredIsPrefix /\ BlocksTile /\ Progress

-----------------------------------------------------------------------------
(* One block more *)

(* The next block, of any length up to a block, is a row of the table. *)
LEMMA BlockIsARow ==
  ASSUME Numbering, pc \in {"chunk", "cut"},
         NEW length \in Nat \ {0}, length <= buffer, length <= BlockSize
  PROVE  /\ Block(length) \in Blocks
         /\ Block(length).part = block_num
         /\ Block(length).from = total_size
         /\ Block(length).to = total_size + length
<1>1. /\ total_size = received - buffer
      /\ {received, buffer, block_num, total_size} \subseteq Nat
  BY DEF Numbering, Progress, TypeOK
<1>2. received - buffer \in Nat /\ (received - buffer) + length \in Nat
  BY <1>1
<1> QED
  BY <1>1, <1>2 DEF Block, Blocks

(* Numbered block_num, it continues the parts in memory. *)
LEMMA NextPart ==
  ASSUME Numbering, NEW row \in Blocks, row.part = block_num,
         block_set' = block_set \cup {row},
         block_num' = block_num + 1, UNCHANGED file_uploads
  PROVE  StoredIsPrefix'
<1>1. block_num \in Nat
  BY DEF Numbering, TypeOK
<1>2. PICK k \in 0 .. block_num : /\ Parts(file_uploads) = 0 .. (k - 1)
                                  /\ Parts(block_set) = k .. (block_num - 1)
  BY DEF Numbering, StoredIsPrefix
<1>3. Parts({row}) = {block_num}
  BY DEF Parts
<1>4. Parts(block_set') = (k .. (block_num - 1)) \cup {block_num}
  BY <1>2, <1>3 DEF Parts
<1>5. (k .. (block_num - 1)) \cup {block_num} = k .. ((block_num + 1) - 1)
  BY <1>1, <1>2
<1>6. Parts(file_uploads') = Parts(file_uploads)
  BY DEF Parts
<1> QED
  <2>1. k \in 0 .. block_num'
    BY <1>1
  <2> QED
    BY <1>1, <1>2, <1>4, <1>5, <1>6, <2>1 DEF StoredIsPrefix, Parts

(* Its number is the greatest so far, and there was none like it. *)
LEMMA PartsAreNumbered ==
  ASSUME Numbering
  PROVE  \A row \in file_uploads \cup block_set : row.part \in 0 .. (block_num - 1)
<1>1. block_num \in Nat
  BY DEF Numbering, TypeOK
<1>2. PICK k \in 0 .. block_num : /\ Parts(file_uploads) = 0 .. (k - 1)
                                  /\ Parts(block_set) = k .. (block_num - 1)
  BY DEF Numbering, StoredIsPrefix
<1> QED
  BY <1>1, <1>2 DEF Parts

(* It begins where the last one ended. *)
LEMMA NextTile ==
  ASSUME Numbering, NEW row \in Blocks, row.part = block_num,
         row.from = total_size, row.to = total_size',
         row.from < row.to, row.to - row.from <= BlockSize,
         block_set' = block_set \cup {row},
         block_num' = block_num + 1, UNCHANGED file_uploads
  PROVE  BlocksTile'
<1> DEFINE old == file_uploads \cup block_set
<1>1. /\ block_num \in Nat
      /\ total_size \in Nat
      /\ old \subseteq Blocks
      /\ BlockSize \in Nat
  BY BlockSizeAssumption DEF Numbering, TypeOK
<1>2. \A other \in old : other.part \in 0 .. (block_num - 1)
  BY PartsAreNumbered
<1>3. file_uploads' \cup block_set' = old \cup {row}
  OBVIOUS
<1>4. /\ \A other \in old : other.from < other.to /\ other.to - other.from <= BlockSize
      /\ \A other \in old : other.part = 0 => other.from = 0
      /\ \A other \in old : other.part = block_num - 1 => other.to = total_size
      /\ \A other, next \in old : next.part = other.part + 1 => next.from = other.to
  BY DEF Numbering, BlocksTile
<1>5. block_num = 0 => total_size = 0
  BY DEF Numbering, Progress
<1>6. \A other \in old \cup {row} :
        other.from < other.to /\ other.to - other.from <= BlockSize
  BY <1>4
<1>7. \A other \in old \cup {row} : other.part = 0 => other.from = 0
  BY <1>4, <1>5
<1>8. \A other \in old \cup {row} :
        other.part = block_num' - 1 => other.to = total_size'
  BY <1>1, <1>2
<1>9. \A other, next \in old \cup {row} :
        next.part = other.part + 1 => next.from = other.to
  BY <1>1, <1>2, <1>4
<1> HIDE DEF old
<1> QED
  BY <1>3, <1>6, <1>7, <1>8, <1>9 DEF BlocksTile

(* The rows of an INSERT go from memory to the table as they are. *)
LEMMA StoredRows ==
  ASSUME Numbering, pc \in {"store", "store_tail"},
         file_uploads' = file_uploads \cup block_set, block_set' = {},
         UNCHANGED <<block_num, total_size>>
  PROVE  StoredIsPrefix' /\ BlocksTile'
<1>1. block_num \in Nat
  BY DEF Numbering, TypeOK
<1>2. PICK k \in 0 .. block_num : /\ Parts(file_uploads) = 0 .. (k - 1)
                                  /\ Parts(block_set) = k .. (block_num - 1)
  BY DEF Numbering, StoredIsPrefix
<1>3. Parts(file_uploads') = (0 .. (k - 1)) \cup (k .. (block_num - 1))
  BY <1>2 DEF Parts
<1>4. (0 .. (k - 1)) \cup (k .. (block_num - 1)) = 0 .. (block_num - 1)
  BY <1>1, <1>2
<1>5. Parts(block_set') = block_num .. (block_num - 1)
  BY <1>1 DEF Parts
<1>6. StoredIsPrefix'
  BY <1>1, <1>3, <1>4, <1>5 DEF StoredIsPrefix, Parts
<1>7. file_uploads' \cup block_set' = file_uploads \cup block_set
  OBVIOUS
<1>8. BlocksTile'
  BY <1>7 DEF BlocksTile, Numbering
<1> QED
  BY <1>6, <1>8

-----------------------------------------------------------------------------
(* The inductive invariant *)

LEMMA NumberingInit == Init => Numbering
<1> SUFFICES ASSUME Init PROVE Numbering
  OBVIOUS
<1> USE DEF Init
<1>1. TypeOK
  BY DEF TypeOK, Waiting, Blocks
<1>2. StoredIsPrefix
  BY DEF StoredIsPrefix, Parts
<1>3. BlocksTile
  BY DEF BlocksTile
<1>4. Progress
  BY DEF Progress
<1> QED
  BY <1>1, <1>2, <1>3, <1>4 DEF Numbering

(* A step that leaves the blocks alone leaves their invariants alone. *)
LEMMA SameBlocks ==
  ASSUME Numbering, UNCHANGED <<block_set, block_num, total_size, file_uploads>>
  PROVE  StoredIsPrefix' /\ BlocksTile'
BY DEF Numbering, StoredIsPrefix, BlocksTile, Parts

LEMMA NumberingStep == Numbering /\ [Next]_vars => Numbering'
<1> SUFFICES ASSUME Numbering, [Next]_vars PROVE Numbering'
  OBVIOUS
<1> USE BlockSizeAssumption, GroupSizeAssumption, ChunkAssumption
<1>0. /\ TypeOK
      /\ Progress
      /\ BlockSize \in Nat \ {0}
  BY DEF Numbering
<1> SUFFICES TypeOK' /\ Progress' /\ (StoredIsPrefix' /\ BlocksTile')
  BY DEF Numbering
<1>1. CASE NextField
  <2>1. TypeOK' /\ Progress'
    BY <1>0, <1>1 DEF NextField, TypeOK, Progress, Waiting, Final
  <2> QED
    BY <1>1, <2>1, SameBlocks DEF NextField
<1>2. CASE EndOfForm
  <2>1. TypeOK' /\ Progress'
    BY <1>0, <1>2 DEF EndOfForm, TypeOK, Progress, Waiting, Final
  <2> QED
    BY <1>2, <2>1, SameBlocks DEF EndOfForm
<1>3. ASSUME NEW size \in ChunkSizes, Chunk(size)
      PROVE  TypeOK' /\ Progress' /\ (StoredIsPrefix' /\ BlocksTile')
  <2>1. TypeOK' /\ Progress'
    BY <1>0, <1>3 DEF Chunk, Loop, TypeOK, Progress, Waiting, Final
  <2> QED
    BY <1>3, <2>1, SameBlocks DEF Chunk
<1>4. CASE CutBlock
  <2>1. /\ pc = "cut"
        /\ block_set' = block_set \cup {Block(BlockSize)}
        /\ block_num' = block_num + 1
        /\ total_size' = total_size + BlockSize
        /\ UNCHANGED file_uploads
    BY <1>4 DEF CutBlock
  <2>2. /\ Block(BlockSize) \in Blocks
        /\ Block(BlockSize).part = block_num
        /\ Block(BlockSize).from = total_size
        /\ Block(BlockSize).to = total_size + BlockSize
    <3>1. BlockSize <= buffer /\ BlockSize <= BlockSize
      BY <1>0, <2>1 DEF Progress
    <3> QED
      BY <1>0, <2>1, <3>1, BlockIsARow
  <2>3. TypeOK'
    BY <1>0, <1>4, <2>2 DEF CutBlock, Loop, TypeOK, Progress, Waiting, Final
  <2>4. Progress'
    BY <1>0, <1>4 DEF CutBlock, Loop, TypeOK, Progress
  <2>5. StoredIsPrefix'
    BY <2>1, <2>2, NextPart
  <2>6. BlocksTile'
    <3>1. total_size \in Nat
      BY <1>0 DEF TypeOK
    <3> QED
      BY <1>0, <2>1, <2>2, <3>1, NextTile
  <2> QED
    BY <2>3, <2>4, <2>5, <2>6
<1>5. CASE StoreGroup
  <2>1. TypeOK' /\ Progress'
    BY <1>0, <1>5 DEF StoreGroup, Loop, TypeOK, Progress, Waiting, Final
  <2> QED
    BY <1>5, <2>1, StoredRows DEF StoreGroup
<1>6. CASE EndField
  <2>1. CASE buffer = 0
    <3>1. TypeOK' /\ Progress'
      BY <1>0, <1>6, <2>1 DEF EndField, TypeOK, Progress, Waiting, Final
    <3> QED
      BY <1>6, <2>1, <3>1, SameBlocks DEF EndField
  <2>2. CASE buffer # 0
    <3>1. /\ pc = "chunk"
          /\ pc' = "store_tail"
          /\ block_set' = block_set \cup {Block(buffer)}
          /\ block_num' = block_num + 1
          /\ total_size' = total_size + buffer
          /\ UNCHANGED <<fields, received, buffer, file_uploads>>
      BY <1>6, <2>2 DEF EndField
    <3>2. buffer \in Nat \ {0} /\ buffer <= buffer /\ buffer <= BlockSize
      BY <1>0, <2>2, <3>1 DEF TypeOK, Progress
    <3>3. /\ Block(buffer) \in Blocks
          /\ Block(buffer).part = block_num
          /\ Block(buffer).from = total_size
          /\ Block(buffer).to = total_size + buffer
      BY <3>1, <3>2, BlockIsARow
    <3>4. TypeOK' /\ Progress'
      BY <1>0, <3>1, <3>3 DEF TypeOK, Progress, Waiting, Final
    <3>5. StoredIsPrefix'
      BY <3>1, <3>3, NextPart
    <3>6. BlocksTile'
      <4>1. total_size \in Nat
        BY <1>0 DEF TypeOK
      <4> QED
        BY <1>0, <3>1, <3>2, <3>3, <4>1, NextTile
    <3> QED
      BY <3>4, <3>5, <3>6
  <2> QED
    BY <2>1, <2>2
<1>7. CASE StoreTail
  <2>1. TypeOK' /\ Progress'
    BY <1>0, <1>7 DEF StoreTail, TypeOK, Progress, Waiting, Final
  <2> QED
    BY <1>7, <2>1, StoredRows DEF StoreTail
<1>8. CASE Fail
  <2>1. TypeOK' /\ Progress'
    BY <1>0, <1>8 DEF Fail, TypeOK, Progress, Waiting, Final
  <2> QED
    BY <1>8, <2>1, SameBlocks DEF Fail
<1>9. CASE Returned \/ UNCHANGED vars
  <2>1. UNCHANGED vars
    BY <1>9 DEF Returned
  <2>2. TypeOK' /\ Progress'
    BY <1>0, <2>1 DEF vars, TypeOK, Progress
  <2> QED
    BY <2>1, <2>2, SameBlocks DEF vars
<1> QED
  BY <1>1, <1>2, <1>3, <1>4, <1>5, <1>6, <1>7, <1>8, <1>9 DEF Next

(* The inductive invariant holds in every execution. *)
THEOREM NumberingHolds == Spec => []Numbering
<1>1. Init => Numbering
  BY NumberingInit
<1>2. Numbering /\ [Next]_vars => Numbering'
  BY NumberingStep
<1> QED
  BY <1>1, <1>2, PTL DEF Spec

-----------------------------------------------------------------------------
(* The memory *)

(* A block more makes the group one larger, at most. *)
LEMMA OneMore ==
  ASSUME NEW S, NEW x, IsFiniteSet(S)
  PROVE  /\ IsFiniteSet(S \cup {x})
         /\ Cardinality(S) \in Nat
         /\ Cardinality(S \cup {x}) \in Nat
         /\ Cardinality(S \cup {x}) <= Cardinality(S) + 1
<1>1. Cardinality(S) \in Nat
  BY FS_CardinalityType
<1> QED
  BY <1>1, FS_AddElement

LEMMA MemoryInit == Init => Memory
<1> SUFFICES ASSUME Init PROVE Memory
  OBVIOUS
<1>1. IsFiniteSet({}) /\ Cardinality({}) = 0
  BY FS_EmptySet
<1> QED
  BY <1>1, BlockSizeAssumption, GroupSizeAssumption, ChunkAssumption DEF Init, Memory

LEMMA MemoryStep == Numbering /\ Memory /\ [Next]_vars => Memory'
<1> SUFFICES ASSUME Numbering, Memory, [Next]_vars PROVE Memory'
  OBVIOUS
<1> USE BlockSizeAssumption, GroupSizeAssumption, ChunkAssumption
<1>0. /\ TypeOK
      /\ Progress
      /\ IsFiniteSet(block_set)
      /\ Cardinality(block_set) \in Nat
      /\ GroupSize \in Nat \ {0}
      /\ BlockSize \in Nat \ {0}
      /\ 0 \in ChunkSizes \cup {0}
      /\ ChunkSizes \cup {0} \subseteq Nat
  BY FS_CardinalityType DEF Numbering, Memory
<1>a. IsFiniteSet({}) /\ Cardinality({}) = 0
  BY FS_EmptySet
<1>1. CASE NextField
  BY <1>0, <1>1 DEF NextField, Memory
<1>2. CASE EndOfForm
  BY <1>0, <1>2 DEF EndOfForm, Memory
<1>3. ASSUME NEW size \in ChunkSizes, Chunk(size)
      PROVE  Memory'
  <2>1. buffer' = buffer + size /\ buffer \in Nat /\ buffer < BlockSize
    BY <1>0, <1>3 DEF Chunk, TypeOK, Progress
  <2>2. \E piece \in ChunkSizes \cup {0} : buffer' < BlockSize + piece
    BY <1>0, <2>1
  <2> QED
    BY <1>0, <1>3, <2>2 DEF Chunk, Loop, Memory
<1>4. CASE CutBlock
  <2>1. /\ IsFiniteSet(block_set')
        /\ Cardinality(block_set') \in Nat
        /\ Cardinality(block_set') <= Cardinality(block_set) + 1
    BY <1>0, <1>4, OneMore DEF CutBlock
  <2>2. Cardinality(block_set) < GroupSize
    BY <1>4 DEF CutBlock, Memory
  <2>3. \A row \in block_set' : row.to - row.from = BlockSize
    <3>1. Block(BlockSize).to - Block(BlockSize).from = BlockSize
      BY <1>0 DEF Block, TypeOK
    <3> QED
      BY <1>4, <3>1 DEF CutBlock, Memory
  <2>4. /\ pc' \in {"store", "cut", "chunk"}
        /\ pc' # "store" => ~(Cardinality(block_set') >= GroupSize)
    BY <1>4 DEF CutBlock, Loop
  <2>5. PICK piece \in ChunkSizes \cup {0} : buffer < BlockSize + piece
    BY DEF Memory
  <2>6. buffer' <= buffer /\ {buffer, buffer'} \subseteq Int /\ piece \in Nat
    BY <1>0, <1>4 DEF CutBlock, TypeOK
  <2>7. buffer' < BlockSize + piece
    BY <1>0, <2>5, <2>6
  <2>8. Cardinality(block_set') <= GroupSize
    BY <1>0, <2>1, <2>2
  <2>9. pc' # "store" => Cardinality(block_set') < GroupSize
    BY <1>0, <2>1, <2>4
  <2> QED
    BY <2>1, <2>3, <2>4, <2>7, <2>8, <2>9 DEF Memory
<1>5. CASE StoreGroup
  <2>1. PICK piece \in ChunkSizes \cup {0} : buffer < BlockSize + piece
    BY DEF Memory
  <2>2. buffer' < BlockSize + piece
    BY <1>0, <1>5, <2>1 DEF StoreGroup, TypeOK
  <2> QED
    BY <1>0, <1>a, <1>5, <2>2 DEF StoreGroup, Loop, Memory
<1>6. CASE EndField
  <2>1. CASE buffer = 0
    BY <1>0, <1>6, <2>1 DEF EndField, Memory
  <2>2. CASE buffer # 0
    <3>1. /\ pc = "chunk"
          /\ pc' = "store_tail"
          /\ block_set' = block_set \cup {Block(buffer)}
          /\ UNCHANGED buffer
      BY <1>6, <2>2 DEF EndField
    <3>2. /\ IsFiniteSet(block_set')
          /\ Cardinality(block_set') \in Nat
          /\ Cardinality(block_set') <= Cardinality(block_set) + 1
      BY <1>0, <3>1, OneMore
    <3>3. Cardinality(block_set') <= GroupSize
      BY <1>0, <3>1, <3>2 DEF Memory
    <3> QED
      BY <3>1, <3>2, <3>3 DEF Memory
  <2> QED
    BY <2>1, <2>2
<1>7. CASE StoreTail
  BY <1>0, <1>a, <1>7 DEF StoreTail, Memory
<1>8. CASE Fail
  BY <1>8 DEF Fail, Memory
<1>9. CASE Returned \/ UNCHANGED vars
  BY <1>9 DEF Returned, vars, Memory
<1> QED
  BY <1>1, <1>2, <1>3, <1>4, <1>5, <1>6, <1>7, <1>8, <1>9 DEF Next

(* The invariant of the memory holds in every execution. *)
THEOREM MemoryHolds == Spec => []Memory
<1>1. Init => Memory
  BY MemoryInit
<1>2. Numbering /\ Memory /\ [Next]_vars => Memory'
  BY MemoryStep
<1> QED
  BY <1>1, <1>2, NumberingHolds, PTL DEF Spec

-----------------------------------------------------------------------------
(* What the module promises *)

(***************************************************************************)
(* Type correctness of phase 1, for every block size, group size, set of   *)
(* chunk sizes and form: the buffer is never cut below zero.               *)
(***************************************************************************)
THEOREM TypeCorrect == Spec => []TypeOK
<1>1. Numbering => TypeOK
  BY DEF Numbering
<1> QED
  BY <1>1, NumberingHolds, PTL

(***************************************************************************)
(* The rows in the table are the blocks 0 .. k-1 at every moment, and the  *)
(* blocks in memory continue them.                                         *)
(***************************************************************************)
THEOREM PrefixStored == Spec => []StoredIsPrefix
<1>1. Numbering => StoredIsPrefix
  BY DEF Numbering
<1> QED
  BY <1>1, NumberingHolds, PTL

(***************************************************************************)
(* The blocks, in order, are the bytes of the form: no gap, no overlap.    *)
(***************************************************************************)
THEOREM FormTiled == Spec => []BlocksTile
<1>1. Numbering => BlocksTile
  BY DEF Numbering
<1> QED
  BY <1>1, NumberingHolds, PTL

(* The size in the reply is the number of bytes of the form. *)
THEOREM SizeReported == Spec => []ReplyCountsEveryByte
<1>1. Numbering => ReplyCountsEveryByte
  BY DEF Numbering, Progress, ReplyCountsEveryByte
<1> QED
  BY <1>1, NumberingHolds, PTL

(***************************************************************************)
(* What a successful reply leaves out of the table is always less than a   *)
(* group, and always whole blocks.                                         *)
(***************************************************************************)
THEOREM OnlyFullBlocksLost == Spec => []OnlyFullBlocksAreLeftOut
<1>1. Memory => OnlyFullBlocksAreLeftOut
  BY DEF Memory, OnlyFullBlocksAreLeftOut
<1> QED
  BY <1>1, MemoryHolds, PTL

(***************************************************************************)
(* A handler holds at most one group of blocks, and less than a block      *)
(* beside a chunk, however long the form is.                               *)
(***************************************************************************)
THEOREM MemoryBounded == Spec => []BoundedMemory
<1>1. Memory => BoundedMemory
  BY DEF Memory, BoundedMemory
<1> QED
  BY <1>1, MemoryHolds, PTL

-----------------------------------------------------------------------------
(* The refinement *)

(***************************************************************************)
(* The parts in memory have numbers of their own, so a group has no more   *)
(* of them than rows.                                                      *)
(***************************************************************************)
LEMMA PartsOfAGroup ==
  ASSUME Memory, NEW k \in Nat, NEW n \in Nat, k <= n,
         Parts(block_set) = k .. (n - 1)
  PROVE  n - k <= Cardinality(block_set)
<1>1. IsFiniteSet(block_set) /\ Cardinality(block_set) \in Nat
  BY FS_CardinalityType DEF Memory
<1>2. Cardinality(Parts(block_set)) <= Cardinality(block_set)
  <2> DEFINE number == [row \in block_set |-> row.part]
  <2>1. number \in Surjection(block_set, Parts(block_set))
    BY DEF Surjection, Parts
  <2> QED
    BY <1>1, <2>1, FS_Surjection
<1>3. Cardinality(k .. (n - 1)) = n - k
  <2>1. k \in Int /\ n - 1 \in Int
    OBVIOUS
  <2>2. Cardinality(k .. (n - 1)) = IF k > n - 1 THEN 0 ELSE (n - 1) - k + 1
    BY <2>1, FS_Interval
  <2> QED
    BY <2>2
<1> QED
  BY <1>1, <1>2, <1>3

(* How the table and the memory share the numbers below block_num. *)
LEMMA StoredUpTo ==
  ASSUME Numbering, Memory
  PROVE  \E k \in Nat :
           /\ k \in Incoming!NextParts
           /\ Parts(file_uploads) = 0 .. (k - 1)
           /\ block_num \in Nat
           /\ Parts(block_set) = k .. (block_num - 1)
           /\ block_num - k \in 0 .. GroupSize
           /\ Cardinality(block_set) < GroupSize => block_num - k < GroupSize
<1>1. block_num \in Nat /\ GroupSize \in Nat
  BY GroupSizeAssumption DEF Numbering, TypeOK
<1>2. PICK k \in 0 .. block_num : /\ Parts(file_uploads) = 0 .. (k - 1)
                                  /\ Parts(block_set) = k .. (block_num - 1)
  BY DEF Numbering, StoredIsPrefix
<1>3. k \in Nat /\ k <= block_num
  BY <1>1, <1>2
<1>4. k \in Incoming!NextParts
  <2>1. CASE k = 0
    BY <2>1 DEF Incoming!NextParts
  <2>2. CASE k # 0
    <3>1. k - 1 \in 0 .. (k - 1) /\ k = (k - 1) + 1
      BY <1>3, <2>2
    <3> QED
      BY <1>2, <3>1 DEF Incoming!NextParts
  <2> QED
    BY <2>1, <2>2
<1>5. block_num - k <= Cardinality(block_set) /\ Cardinality(block_set) \in Nat
  BY <1>1, <1>2, <1>3, PartsOfAGroup, FS_CardinalityType DEF Memory
<1>6. Cardinality(block_set) <= GroupSize
  BY DEF Memory
<1>7. block_num - k \in 0 .. GroupSize
  BY <1>1, <1>3, <1>5, <1>6
<1>8. Cardinality(block_set) < GroupSize => block_num - k < GroupSize
  BY <1>1, <1>3, <1>5
<1> QED
  BY <1>1, <1>2, <1>3, <1>4, <1>7, <1>8

(* An INSERT, of a group or of the last blocks of a field, is a Receive. *)
LEMMA StoreReceives ==
  ASSUME Numbering, Memory, pc \notin Final, pc' \notin Final,
         file_uploads' = file_uploads \cup block_set
  PROVE  Incoming!Next
<1>1. PICK k \in Nat :
        /\ k \in Incoming!NextParts
        /\ Parts(file_uploads) = 0 .. (k - 1)
        /\ block_num \in Nat
        /\ Parts(block_set) = k .. (block_num - 1)
        /\ block_num - k \in 0 .. GroupSize
  BY StoredUpTo
<1>2. Parts(file_uploads') = Parts(file_uploads) \cup Parts(block_set)
  BY DEF Parts
<1>3. (0 .. (k - 1)) \cup (k .. (block_num - 1)) = 0 .. (k + (block_num - k) - 1)
  BY <1>1, GroupSizeAssumption
<1>4. Parts(file_uploads') = 0 .. (k + (block_num - k) - 1)
  BY <1>1, <1>2, <1>3
<1>5. Parts(file_uploads)' = Parts(file_uploads')
  BY DEF Parts
<1>6. Incoming!Receive(k, block_num - k)
  BY <1>1, <1>4, <1>5 DEF Incoming!Receive, Incoming!Add, Final
<1> QED
  BY <1>1, <1>6 DEF Incoming!Next

LEMMA RefinementInit == Init => Incoming!Init
BY DEF Init, Incoming!Init, Parts, Final

LEMMA RefinementStep ==
  Numbering /\ Memory /\ [Next]_vars => [Incoming!Next]_(Incoming!vars)
<1> SUFFICES ASSUME Numbering, Memory, [Next]_vars
             PROVE  [Incoming!Next]_(Incoming!vars)
  OBVIOUS
<1>a. PICK k \in Nat :
        /\ k \in Incoming!NextParts
        /\ Parts(file_uploads) = 0 .. (k - 1)
        /\ block_num \in Nat
        /\ block_num - k \in 0 .. GroupSize
        /\ Cardinality(block_set) < GroupSize => block_num - k < GroupSize
  BY StoredUpTo
<1>b. GroupSize \in Nat \ {0} /\ 0 \in 0 .. GroupSize /\ k + 0 = k
  BY GroupSizeAssumption
<1>1. CASE EndOfForm
  <2>1. /\ pc = "next_field" /\ pc' = "ok"
        /\ UNCHANGED <<block_num, file_uploads>>
    BY <1>1 DEF EndOfForm
  <2>2. Parts(file_uploads)' = 0 .. (k - 1)
    BY <1>a, <2>1 DEF Parts
  <2>3. block_num - k < GroupSize
    BY <1>a, <2>1 DEF Memory
  <2>4. block_num \in (k + 0) .. (k + 0 + GroupSize - 1)
    BY <1>a, <1>b, <2>3
  <2>5. Incoming!Reply(k, 0)
    BY <1>a, <1>b, <2>1, <2>2, <2>4 DEF Incoming!Reply, Incoming!Add, Final
  <2> QED
    BY <1>a, <1>b, <2>5 DEF Incoming!Next
<1>2. CASE Fail
  <2>1. /\ pc \notin Final /\ pc' = "failed"
        /\ UNCHANGED file_uploads
    BY <1>2 DEF Fail, Final
  <2>2. Parts(file_uploads)' = 0 .. (k - 1)
    BY <1>a, <2>1 DEF Parts
  <2>3. Incoming!Stop(k, 0)
    BY <1>a, <1>b, <2>1, <2>2 DEF Incoming!Stop, Incoming!Add, Final
  <2> QED
    BY <1>a, <1>b, <2>3 DEF Incoming!Next
<1>3. CASE StoreGroup \/ StoreTail
  <2>1. /\ pc \notin Final /\ pc' \notin Final
        /\ file_uploads' = file_uploads \cup block_set
    BY <1>3 DEF StoreGroup, StoreTail, Loop, Final
  <2> QED
    BY <2>1, StoreReceives
<1>4. CASE NextField \/ (\E size \in ChunkSizes : Chunk(size)) \/ CutBlock \/ EndField
  <2>1. /\ pc \notin Final /\ pc' \notin Final
        /\ UNCHANGED file_uploads
    BY <1>4 DEF NextField, Chunk, CutBlock, EndField, Loop, Final
  <2> QED
    BY <2>1 DEF Incoming!vars, Parts, Final
<1>5. CASE Returned \/ UNCHANGED vars
  BY <1>5 DEF Returned, vars, Incoming!vars, Parts
<1> QED
  BY <1>1, <1>2, <1>3, <1>4, <1>5 DEF Next

(***************************************************************************)
(* Phase 1 implements what the pipeline takes it for: the blocks reach     *)
(* file_uploads in groups of consecutive numbers, whatever the sizes of    *)
(* the chunks, the groups and the fields, none is skipped or goes away,    *)
(* and a reply counts fewer than GroupSize blocks that are not there.      *)
(***************************************************************************)
THEOREM UploadImplementsIncoming == Spec => ImplementsIncomingBlocks
<1>1. Init => Incoming!Init
  BY RefinementInit
<1>2. Numbering /\ Memory /\ [Next]_vars => [Incoming!Next]_(Incoming!vars)
  BY RefinementStep
<1> QED
  BY <1>1, <1>2, NumberingHolds, MemoryHolds,
     PTL DEF Spec, Incoming!Spec, ImplementsIncomingBlocks
=============================================================================
