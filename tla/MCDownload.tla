----------------------------- MODULE MCDownload -----------------------------
(***************************************************************************)
(* Bounds for TLC: up to four parts for up to three tasks, so that shares  *)
(* are equal, unequal and empty; every set of indexes and of damaged parts *)
(* among them.                                                             *)
(***************************************************************************)
EXTENDS Download
=============================================================================
