---------------------------- MODULE FileReaders -----------------------------
(***************************************************************************)
(* The requests that read the tables of the file-server, each one query,   *)
(* and what a client may conclude from their replies.                      *)
(***************************************************************************)
EXTENDS FileServer

-----------------------------------------------------------------------------
(* The replies *)

Exists(f) == file_reference[f] # NoRow

(***************************************************************************)
(* download: search_parts joins the row of the file with its parts; it     *)
(* fails when the row says not encrypted, without parts the media type is  *)
(* empty, "text" is not a media type either, and parallel_decrypt wants    *)
(* the indexes 0 .. n-1.                                                   *)
(***************************************************************************)
Downloadable(f) ==
  /\ Exists(f)
  /\ file_parts[f] # {}
  /\ file_reference[f].is_encrypted
  /\ file_reference[f].mime_type # "text"
  /\ file_parts[f] = 0 .. (Cardinality(file_parts[f]) - 1)

(* The blocks a download gives; an error gives none. *)
Download(f) == IF Downloadable(f) THEN file_parts[f] ELSE {}

(* The columns of the row that tell how far the task has come. *)
Info(f) ==
  [block_count        |-> file_reference[f].total_part,
   is_encrypted       |-> file_reference[f].is_encrypted,
   is_fulltext_parsed |-> file_reference[f].is_fulltext_parsed]

(* The rows of the files that match the pattern of file_list, '*' for any text. *)
fetch_files_information(matching) == {Info(f) : f \in {g \in matching : Exists(g)}}

(* At most one row: a file_ref that is not known is no error. *)
file_info(f) == fetch_files_information({f})

(* file_stats: a row without total_part is an error. *)
HasStats(f) == Exists(f) /\ file_reference[f].total_part # NULL

Stats(f) ==
  [block_count     |-> file_reference[f].total_part,
   encrypted_count |-> Cardinality(file_parts[f]),
   uploaded_count  |-> Cardinality(file_uploads[f])]

(* A defect: the client does not wait for the upload rows to go away. *)
ExitCondition_EncryptedOnly(f) ==
  HasStats(f) /\ Stats(f).encrypted_count = BlockCount(incoming[f])

(* The exit condition of wait_until_file_processing_complete in ut40. *)
ExitCondition(f) ==
  /\ HasStats(f)
  /\ Stats(f).encrypted_count = BlockCount(incoming[f])
  /\ Stats(f).uploaded_count = 0

(***************************************************************************)
(* file_loading: the uploads of the user.  One without total_part is an     *)
(* error for all of them.                                                  *)
(***************************************************************************)
Loading == {f \in Files : file_uploads[f] # {}}

(* percent_of_completion, which doka-harbor works out from the reply. *)
Percent(f) == (Stats(f).encrypted_count * 100) \div Stats(f).block_count

LoadingFails == \E f \in Loading : file_reference[f].total_part = NULL

-----------------------------------------------------------------------------
(* Safety *)

(***************************************************************************)
(* A download gives every block phase 1 stored, or none: not the parts     *)
(* encrypted so far, not the parts of a file in its rollback, whatever     *)
(* step failed and however its COMMIT was reported.                        *)
(***************************************************************************)
DownloadIsWhole ==
  \A f \in Files : Downloadable(f) => Download(f) = 0 .. (stored[f] - 1)

(***************************************************************************)
(* Until the rollback has begun, every stored block is in file_uploads or  *)
(* in the parts of a file marked encrypted: the task never drops the only  *)
(* copy of a block, and a crash finds them all.                            *)
(***************************************************************************)
NoBlockIsDropped ==
  \A f \in Files :
    ~failed[f] =>
      0 .. (stored[f] - 1) \subseteq
        file_uploads[f] \cup
        (IF Exists(f) /\ file_reference[f].is_encrypted THEN file_parts[f] ELSE {})

(***************************************************************************)
(* The exit condition a client polls for (doka-api-tests, ut40) holds only *)
(* once the task is over, and then the file can be downloaded, unless the  *)
(* upload was rolled back.                                                 *)
(***************************************************************************)
ExitConditionIsFinal ==
  \A f \in Files :
    /\ pc[f] \in Running \cup {"ended", "crashed"}
    /\ BlockCount(incoming[f]) > 0
    /\ ExitCondition(f)
    => pc[f] = "ended" /\ (Downloadable(f) \/ failed[f])

(***************************************************************************)
(* The rollback goes through two servers and ignores its errors.  When it  *)
(* is over, a text is left in the document-server only if its deletion     *)
(* failed, or if the call that indexed it was cut off before its end; and  *)
(* a failed file can still be downloaded only if neither its parts nor its *)
(* row could be undone.  No lost COMMIT, lost answer or end of the session *)
(* before that, and no reading of the tables, makes any other exception.   *)
(***************************************************************************)
RollbackIsClean ==
  \A f \in Files :
    pc[f] = "ended" /\ failed[f] =>
      /\ document[f] => "document" \in missed[f]
      /\ file_metadata[f] => "file_metadata" \in missed[f]
      /\ Downloadable(f) => {"file_parts", "file_reference"} \subseteq missed[f]

(***************************************************************************)
(* The watcher of doka-harbor divides by total_part: until a rollback, the *)
(* divisor is not zero and the result a percentage.                        *)
(***************************************************************************)
ProgressIsAPercentage ==
  ~LoadingFails =>
    \A f \in Loading :
      ~failed[f] =>
        /\ Stats(f).block_count > 0
        /\ Percent(f) \in 0..100

-----------------------------------------------------------------------------
(* Liveness *)

(***************************************************************************)
(* An upload that got its reply does not stay in process for ever: its     *)
(* task ends, with the file available, or rolled back, or with nothing     *)
(* stored to serve; only the death of the process leaves it unfinished.    *)
(***************************************************************************)
EveryAcceptedUploadSettles ==
  \A f \in Files :
    pc[f] = "encrypt_query" ~>
      \/ pc[f] = "crashed"
      \/ pc[f] = "ended" /\ (Downloadable(f) \/ failed[f] \/ stored[f] = 0)

-----------------------------------------------------------------------------
(* Refinement *)

(***************************************************************************)
(* What a client can see of a file.  A last COMMIT that took effect and    *)
(* was reported failed leaves the whole file to be downloaded while the    *)
(* task already undoes it: it is doubtful until the rollback is over.      *)
(***************************************************************************)
Status(f) ==
  CASE pc[f] \in {"idle", "authorised"} -> "absent"
    [] pc[f] = "receiving" -> "incoming"
    [] pc[f] \in {"refused", "abandoned"} -> "failed"
    [] pc[f] \in Running /\ Downloadable(f) -> IF failed[f] THEN "doubtful" ELSE "available"
    [] pc[f] \in Running /\ ~Downloadable(f) -> IF failed[f] THEN "failed" ELSE "processing"
    [] OTHER -> IF Downloadable(f) THEN "available" ELSE "failed"

Store == INSTANCE FileStore WITH
  status   <- [f \in Files |-> Status(f)],
  received <- stored,
  content  <- [f \in Files |-> Download(f)]

(* The pipeline implements the store its clients rely on. *)
ImplementsFileStore == Store!Spec

(***************************************************************************)
(* Phase 1 as the pipeline sees it, for one file: until the task empties   *)
(* file_uploads, its rows are the blocks that were received.               *)
(***************************************************************************)
Incoming(f) == INSTANCE IncomingBlocks WITH
  phase   <- IF pc[f] \in {"idle", "authorised", "receiving"} THEN "receiving"
             ELSE IF pc[f] \in Running \cup {"ended"} THEN "ok" ELSE "failed",
  rows    <- IF pc[f] = "ended" THEN 0 .. (stored[f] - 1) ELSE file_uploads[f],
  counted <- IF pc[f] \in Running \cup {"ended"} THEN BlockCount(incoming[f]) ELSE 0

(***************************************************************************)
(* Each upload, whatever the others do, receives its blocks as phase 1     *)
(* (UploadBlocks) gives them; the task does not touch them before the end. *)
(* It is Incoming(f)!Spec for every file, as one formula for TLC.          *)
(***************************************************************************)
EachImplementsIncomingBlocks ==
  /\ \A f \in Files : Incoming(f)!Init
  /\ [][\A f \in Files : [Incoming(f)!Next]_(Incoming(f)!vars)]_vars

=============================================================================
