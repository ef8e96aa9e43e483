----------------------------- MODULE FileStore ------------------------------
(***************************************************************************)
(* What the file-server promises about an uploaded file, seen from the     *)
(* client: the blocks arrive, then the file is processed, and then every   *)
(* download gives all of them; or there never is anything to download.     *)
(* There is no state in which a part of a file can be downloaded, a file   *)
(* that is available stays so, and one that has failed never comes back.   *)
(*                                                                         *)
(* The exception is part of the promise: a file may become doubtful, that  *)
(* is, published whole by a COMMIT that the server takes for a failure.    *)
(* It can be downloaded, and is then withdrawn whole, or stays for good    *)
(* when the server does not get to it.  A client cannot tell a doubtful    *)
(* file from one that is available.                                        *)
(***************************************************************************)
EXTENDS Integers

CONSTANT Files

VARIABLES
  status,    \* of each file
  received,  \* how many of its blocks were stored by the upload
  content    \* the blocks a download gives

vars == <<status, received, content>>

Init ==
  /\ status = [f \in Files |-> "absent"]
  /\ received = [f \in Files |-> 0]
  /\ content = [f \in Files |-> {}]

Become(f, next) == status' = [status EXCEPT ![f] = next]

Begin(f) ==
  /\ status[f] = "absent"
  /\ Become(f, "incoming")
  /\ UNCHANGED <<received, content>>

(* More blocks, and perhaps the last ones. *)
Receive(f) ==
  /\ status[f] = "incoming"
  /\ Become(f, "incoming") \/ Become(f, "processing") \/ Become(f, "failed")
  /\ received[f] <= received'[f]
  /\ received' = [received EXCEPT ![f] = received'[f]]
  /\ UNCHANGED content

(* All the blocks become readable at once. *)
Publish(f) ==
  /\ status[f] = "processing"
  /\ Become(f, "available") \/ Become(f, "doubtful")
  /\ content' = [content EXCEPT ![f] = 0 .. (received[f] - 1)]
  /\ UNCHANGED received

(* All the blocks of a doubtful file disappear at once. *)
Withdraw(f) ==
  /\ status[f] = "doubtful"
  /\ Become(f, "failed")
  /\ content' = [content EXCEPT ![f] = {}]
  /\ UNCHANGED received

(* The server is done with a doubtful file, which is still there. *)
Keep(f) ==
  /\ status[f] = "doubtful"
  /\ Become(f, "available")
  /\ UNCHANGED <<received, content>>

Step(f) == Begin(f) \/ Receive(f) \/ Publish(f) \/ Withdraw(f) \/ Keep(f)

Open(f) == status[f] \in {"absent", "incoming", "processing", "doubtful"}

(***************************************************************************)
(* The server gives up some files, all the open ones at once when its      *)
(* process dies: there is no file, unless it was there already.            *)
(***************************************************************************)
Give_up ==
  \E some \in SUBSET {f \in Files : Open(f)} :
    /\ status' = [f \in Files |->
                   IF f \notin some THEN status[f]
                   ELSE IF status[f] = "doubtful" THEN "available" ELSE "failed"]
    /\ UNCHANGED <<received, content>>

Next == Give_up \/ \E f \in Files : Step(f)

Spec == Init /\ [][Next]_vars
=============================================================================
