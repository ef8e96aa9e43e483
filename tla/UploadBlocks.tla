---------------------------- MODULE UploadBlocks ----------------------------
(***************************************************************************)
(* Phase 1 of an upload: FileDelegate::read_and_write_incoming_data of the *)
(* file-server.  The handler reads the fields of a multipart form, chunk   *)
(* by chunk, cuts the bytes into blocks of BLOCK_SIZE, gathers the blocks  *)
(* in memory and writes them to the table file_uploads, INSERT_GROUP_SIZE  *)
(* at a time, one transaction for each group.                              *)
(*                                                                         *)
(* A byte is its position in the stream of all the fields, so a piece of   *)
(* data is the interval [from, to) of positions it holds.  The buffer is   *)
(* only ever extended at its end and cut at its front: it holds the last   *)
(* `buffer` bytes that were received.                                      *)
(***************************************************************************)
EXTENDS Integers, FiniteSets

CONSTANTS
  BlockSize,   \* BLOCK_SIZE, 1_048_576 in the code
  GroupSize,   \* INSERT_GROUP_SIZE, 10 in the code
  ChunkSizes,  \* the sizes of the chunks the HTTP layer hands over
  MaxBytes,    \* bound: the bytes of one form
  MaxFields    \* bound: the fields of one form

ASSUME BlockSizeAssumption == BlockSize \in Nat \ {0}
ASSUME GroupSizeAssumption == GroupSize \in Nat \ {0}
ASSUME ChunkAssumption == ChunkSizes \subseteq Nat \ {0}
ASSUME BoundsAssumption == MaxBytes \in Nat /\ MaxFields \in Nat

VARIABLES
  pc,            \* what the handler waits for
  fields,        \* fields opened so far
  received,      \* bytes handed over by the HTTP layer so far
  buffer,        \* buffer.len()
  block_set,     \* the blocks waiting for their INSERT
  block_num,     \* the number of the next block
  total_size,    \* the bytes counted in the reply
  file_uploads   \* the table

vars == <<pc, fields, received, buffer, block_set, block_num, total_size,
          file_uploads>>

(***************************************************************************)
(* "ok" is Ok((total_size, block_num)); "failed" stands for every way the  *)
(* handler stops short: Err from the form or from the database, and the    *)
(* HTTP layer dropping it when the client goes away.                       *)
(***************************************************************************)
Waiting == {"next_field", "chunk", "cut", "store", "store_tail"}
Final   == {"ok", "failed"}

Blocks == [part : Nat, from : Nat, to : Nat]

Parts(rows) == {row.part : row \in rows}

TypeOK ==
  /\ pc \in Waiting \cup Final
  /\ {fields, received, buffer, block_num, total_size} \subseteq Nat
  /\ block_set \subseteq Blocks
  /\ file_uploads \subseteq Blocks

Init ==
  /\ pc = "next_field"
  /\ fields = 0
  /\ received = 0
  /\ buffer = 0
  /\ block_set = {}
  /\ block_num = 0
  /\ total_size = 0
  /\ file_uploads = {}

-----------------------------------------------------------------------------
(* The form and its chunks *)

(* The next field of the form; its buffer is new and empty. *)
NextField ==
  /\ pc = "next_field"
  /\ fields < MaxFields
  /\ fields' = fields + 1
  /\ buffer' = 0
  /\ pc' = "chunk"
  /\ UNCHANGED <<received, block_set, block_num, total_size, file_uploads>>

(* No more fields: the reply counts total_size bytes and block_num blocks. *)
EndOfForm ==
  /\ pc = "next_field"
  /\ pc' = "ok"
  /\ UNCHANGED <<fields, received, buffer, block_set, block_num, total_size,
                 file_uploads>>

(* Where the inner loops go with `rest` bytes in the buffer. *)
Loop(rest) == IF rest >= BlockSize THEN "cut" ELSE "chunk"

(* One chunk is appended to the buffer. *)
Chunk(size) ==
  /\ pc = "chunk"
  /\ received + size <= MaxBytes
  /\ received' = received + size
  /\ buffer' = buffer + size
  /\ pc' = Loop(buffer + size)
  /\ UNCHANGED <<fields, block_set, block_num, total_size, file_uploads>>

(* The first `length` bytes of the buffer, numbered block_num. *)
Block(length) ==
  [part |-> block_num,
   from |-> received - buffer,
   to   |-> (received - buffer) + length]

(* A defect: the number of the block is not advanced. *)
CutBlock_SameNumber ==
  /\ pc = "cut"
  /\ block_set' = block_set \cup {Block(BlockSize)}
  /\ total_size' = total_size + BlockSize
  /\ IF Cardinality(block_set') >= GroupSize
     THEN pc' = "store" /\ UNCHANGED buffer
     ELSE buffer' = buffer - BlockSize /\ pc' = Loop(buffer')
  /\ UNCHANGED <<fields, received, file_uploads, block_num>>

(* A defect: a group is stored when it has one block more. *)
CutBlock_LargerGroup ==
  /\ pc = "cut"
  /\ block_set' = block_set \cup {Block(BlockSize)}
  /\ block_num' = block_num + 1
  /\ total_size' = total_size + BlockSize
  /\ IF Cardinality(block_set') > GroupSize
     THEN pc' = "store" /\ UNCHANGED buffer
     ELSE buffer' = buffer - BlockSize /\ pc' = Loop(buffer')
  /\ UNCHANGED <<fields, received, file_uploads>>

(***************************************************************************)
(* The while loop: a full block moves to block_set.  The buffer gives up   *)
(* the block at once, or after the INSERT when the block completes a group.*)
(***************************************************************************)
CutBlock ==
  /\ pc = "cut"
  /\ block_set' = block_set \cup {Block(BlockSize)}
  /\ block_num' = block_num + 1
  /\ total_size' = total_size + BlockSize
  /\ IF Cardinality(block_set') >= GroupSize
     THEN pc' = "store" /\ UNCHANGED buffer
     ELSE buffer' = buffer - BlockSize /\ pc' = Loop(buffer')
  /\ UNCHANGED <<fields, received, file_uploads>>

-----------------------------------------------------------------------------
(* The table *)

(* The unique index on (file_ref, part_number). *)
NoDuplicate == Parts(block_set) \cap Parts(file_uploads) = {}

(* A defect: the group stays in memory after its INSERT. *)
StoreGroup_Kept ==
  /\ pc = "store"
  /\ NoDuplicate
  /\ file_uploads' = file_uploads \cup block_set
  /\ buffer' = buffer - BlockSize
  /\ pc' = Loop(buffer')
  /\ UNCHANGED <<fields, received, block_num, total_size, block_set>>

(* store_group_block for a full group: all its rows in one transaction. *)
StoreGroup ==
  /\ pc = "store"
  /\ NoDuplicate
  /\ file_uploads' = file_uploads \cup block_set
  /\ block_set' = {}
  /\ buffer' = buffer - BlockSize
  /\ pc' = Loop(buffer')
  /\ UNCHANGED <<fields, received, block_num, total_size>>

(* A defect: the last block of a field waits for the group to be full. *)
EndField_NotStored ==
  /\ pc = "chunk"
  /\ IF buffer = 0
     THEN UNCHANGED <<block_set, block_num, total_size>>
     ELSE /\ block_set' = block_set \cup {Block(buffer)}
          /\ block_num' = block_num + 1
          /\ total_size' = total_size + buffer
  /\ pc' = "next_field"
  /\ UNCHANGED <<fields, received, buffer, file_uploads>>

(***************************************************************************)
(* The end of a field.  What the buffer still holds becomes the last block *)
(* and the blocks in memory are stored; an empty buffer stores nothing.    *)
(***************************************************************************)
EndField ==
  /\ pc = "chunk"
  /\ IF buffer = 0
     THEN pc' = "next_field" /\ UNCHANGED <<block_set, block_num, total_size>>
     ELSE /\ block_set' = block_set \cup {Block(buffer)}
          /\ block_num' = block_num + 1
          /\ total_size' = total_size + buffer
          /\ pc' = "store_tail"
  /\ UNCHANGED <<fields, received, buffer, file_uploads>>

(* A defect: only the last block of the set reaches the table. *)
StoreTail_LastOnly ==
  /\ pc = "store_tail"
  /\ NoDuplicate
  /\ file_uploads' =
       file_uploads \cup {row \in block_set : row.part = block_num - 1}
  /\ block_set' = {}
  /\ pc' = "next_field"
  /\ UNCHANGED <<fields, received, buffer, block_num, total_size>>

(* store_group_block at the end of a field. *)
StoreTail ==
  /\ pc = "store_tail"
  /\ NoDuplicate
  /\ file_uploads' = file_uploads \cup block_set
  /\ block_set' = {}
  /\ pc' = "next_field"
  /\ UNCHANGED <<fields, received, buffer, block_num, total_size>>

(***************************************************************************)
(* At every await the handler may end early: the form cannot be read, the  *)
(* transaction fails and is rolled back, or the client disconnects.        *)
(* Nothing removes the groups already stored.                              *)
(***************************************************************************)
Fail ==
  /\ pc \in {"next_field", "chunk", "store", "store_tail"}
  /\ pc' = "failed"
  /\ UNCHANGED <<fields, received, buffer, block_set, block_num, total_size,
                 file_uploads>>

(* The handler has returned. *)
Returned == pc \in Final /\ UNCHANGED vars

Next ==
  \/ NextField
  \/ EndOfForm
  \/ \E size \in ChunkSizes : Chunk(size)
  \/ CutBlock
  \/ StoreGroup
  \/ EndField
  \/ StoreTail
  \/ Fail
  \/ Returned

Spec == Init /\ [][Next]_vars

-----------------------------------------------------------------------------
(* Properties *)

(***************************************************************************)
(* The rows of the table are always the blocks 0 .. k-1 for some k, and    *)
(* the blocks in memory the ones from k on: whatever the sizes of the      *)
(* chunks and wherever the handler stops, no part number is skipped or     *)
(* used twice.  The download (parallel_decrypt) refuses a file with a      *)
(* missing index, and the unique index refuses one used twice.             *)
(***************************************************************************)
StoredIsPrefix ==
  \E k \in 0 .. block_num :
    /\ Parts(file_uploads) = 0 .. (k - 1)
    /\ Parts(block_set) = k .. (block_num - 1)

(***************************************************************************)
(* The blocks, in the order of their numbers, give back the bytes of the   *)
(* form without a gap, an overlap or a repetition, over the borders of     *)
(* chunks, of groups and of fields.                                        *)
(***************************************************************************)
BlocksTile ==
  LET rows == file_uploads \cup block_set IN
  /\ \A row \in rows : row.from < row.to /\ row.to - row.from <= BlockSize
  /\ \A row \in rows : row.part = 0 => row.from = 0
  /\ \A row \in rows : row.part = block_num - 1 => row.to = total_size
  /\ \A row, next \in rows : next.part = row.part + 1 => next.from = row.to

(***************************************************************************)
(* UploadReply.size: a reply counts every byte of the form.                *)
(***************************************************************************)
ReplyCountsEveryByte == pc = "ok" => total_size = received

(***************************************************************************)
(* How much a successful reply can leave out of the table: fewer than      *)
(* GroupSize blocks, and none of them the shorter last block of a field.   *)
(***************************************************************************)
OnlyFullBlocksAreLeftOut ==
  pc = "ok" =>
    /\ Cardinality(block_set) < GroupSize
    /\ \A row \in block_set : row.to - row.from = BlockSize

(***************************************************************************)
(* The memory of the handler does not grow with the file: at most one      *)
(* group of blocks, and less than a block beside the last chunk.           *)
(***************************************************************************)
BoundedMemory ==
  /\ Cardinality(block_set) <= GroupSize
  /\ \E size \in ChunkSizes \cup {0} : buffer < BlockSize + size

(***************************************************************************)
(* "Phase 1 : Read all the incoming blocks and write them in the DB        *)
(* (file_uploads table)": a successful reply means that every block it     *)
(* counts is in the table.  The code does not keep this: a field whose     *)
(* size is a multiple of BLOCK_SIZE ends with an empty buffer, and the     *)
(* blocks of its last, incomplete group are dropped with the handler.      *)
(***************************************************************************)
EveryCountedBlockIsStored ==
  pc = "ok" => Parts(file_uploads) = 0 .. (block_num - 1)

-----------------------------------------------------------------------------
(* Refinement *)

Incoming == INSTANCE IncomingBlocks WITH
  phase   <- IF pc \in Final THEN pc ELSE "receiving",
  rows    <- Parts(file_uploads),
  counted <- IF pc = "ok" THEN block_num ELSE 0

(***************************************************************************)
(* Phase 1 is what the rest of the pipeline takes it for: groups of at     *)
(* most GroupSize consecutive blocks, nothing after the handler has ended, *)
(* and a reply that counts fewer than GroupSize blocks too many.           *)
(***************************************************************************)
ImplementsIncomingBlocks == Incoming!Spec
=============================================================================
