---------------------------- MODULE MCFileServer ----------------------------
(***************************************************************************)
(* Bounds for TLC.  With two blocks to a group, a file of three full       *)
(* blocks and no rest loses its last group, one with a rest has a group    *)
(* and a tail, and a file of one short block has a tail only.              *)
(***************************************************************************)
EXTENDS FileReaders

Shape(full, tail, has_length) ==
  [full |-> full, tail |-> tail, has_length |-> has_length]

MCShapes ==
  {Shape(3, FALSE, TRUE), Shape(2, TRUE, TRUE), Shape(0, TRUE, FALSE)}
=============================================================================
