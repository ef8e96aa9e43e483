-------------------------- MODULE MCUploadBlocks --------------------------
(***************************************************************************)
(* Bounds for TLC: blocks of 2 bytes, 2 blocks to a group, chunks that are *)
(* smaller than a block, equal to one, and longer than two.  13 bytes make *)
(* six blocks and a rest: three groups, so that a group can be complete,   *)
(* incomplete and empty at the end of a field.                             *)
(***************************************************************************)
EXTENDS UploadBlocks

MCChunkSizes == {1, 2, 5}
=============================================================================
