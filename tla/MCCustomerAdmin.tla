-------------------------- MODULE MCCustomerAdmin --------------------------
(***************************************************************************)
(* Bounds for TLC: three requests, so that a code can be given up by one,  *)
(* deleted by another and drawn again by a third.  Requests, codes and     *)
(* logins are only compared: their permutations are a symmetry.            *)
(***************************************************************************)
EXTENDS CustomerAdmin, TLC

Symmetry ==
  Permutations(Requests) \cup Permutations(Codes) \cup Permutations(Logins)
=============================================================================
