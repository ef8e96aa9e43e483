----------------------------- MODULE MCSessions -----------------------------
(***************************************************************************)
(* Bounds for TLC: two requests, so that two renewals of a session and the *)
(* cron job meet in every order; a limit of three ticks and transactions   *)
(* of at most one, so that a renewal can be older than the one it          *)
(* overwrites.  One session is enough: sessions meet in the cron job only, *)
(* which can take MaxTx from its start to a row with one row as with many. *)
(***************************************************************************)
EXTENDS Sessions
=============================================================================
