--------------------------- MODULE IncomingBlocks ---------------------------
(***************************************************************************)
(* What phase 1 of an upload promises to the rest of the file-server: the  *)
(* blocks reach the table in the order of their numbers, at most a group   *)
(* at a time, none is skipped and none goes away; and when the handler     *)
(* replies, the blocks it has counted are those of the table and fewer     *)
(* than a group more.  UploadBlocks keeps this promise for the bytes of    *)
(* one form, FileServer for each of the files that are uploaded at once.   *)
(***************************************************************************)
EXTENDS Integers

CONSTANT GroupSize  \* INSERT_GROUP_SIZE

VARIABLES
  phase,   \* "receiving", then "ok" or "failed"
  rows,    \* the numbers of the blocks in the table
  counted  \* the number of blocks of a reply

vars == <<phase, rows, counted>>

Init ==
  /\ phase = "receiving"
  /\ rows = {}
  /\ counted = 0

(* The numbers the next block may have. *)
NextParts == {0} \cup {part + 1 : part \in rows}

(* n more blocks in one transaction, the first of them numbered `next`. *)
Add(next, n) ==
  /\ phase = "receiving"
  /\ rows = 0 .. (next - 1)
  /\ rows' = 0 .. (next + n - 1)

Receive(next, n) == Add(next, n) /\ UNCHANGED <<phase, counted>>

(* The reply, which may count blocks of a last group that was not stored. *)
Reply(next, n) ==
  /\ Add(next, n)
  /\ phase' = "ok"
  /\ counted' \in (next + n) .. (next + n + GroupSize - 1)

(* The handler stops short; its last transaction may have been applied. *)
Stop(next, n) == Add(next, n) /\ phase' = "failed" /\ counted' = 0

(* The process dies after the reply. *)
Die ==
  /\ phase = "ok"
  /\ phase' = "failed"
  /\ counted' = 0
  /\ UNCHANGED rows

Next ==
  \/ \E next \in NextParts, n \in 0 .. GroupSize :
       Receive(next, n) \/ Reply(next, n) \/ Stop(next, n)
  \/ Die

Spec == Init /\ [][Next]_vars
=============================================================================
