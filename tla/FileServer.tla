----------------------------- MODULE FileServer -----------------------------
(***************************************************************************)
(* The life of an uploaded file, over the four services it goes through.   *)
(*                                                                         *)
(* FileDelegate::upload2 checks the session, creates the file's row in     *)
(* file_reference, stores the incoming blocks in file_uploads (phase 1,    *)
(* UploadBlocks in detail), spawns a task and replies.  The task encrypts  *)
(* each block into file_parts, has the file parsed by Tika, stores the     *)
(* metadata, has the text indexed by the document-server, and completes    *)
(* file_reference; when a step fails it undoes what it did, one            *)
(* transaction after the other, and ignores the errors of the undoing.     *)
(* In both cases it ends by emptying file_uploads.                         *)
(*                                                                         *)
(* One action is one transaction or one message between services; between  *)
(* two of them anything may happen: a reader, another upload, the end of   *)
(* the session, the death of the process.  A block is its part number, and *)
(* the readers (download, file_stats, file_loading, the upload watcher of  *)
(* doka-harbor) are operators over the tables, since each of them reads    *)
(* them in one query.                                                      *)
(***************************************************************************)
EXTENDS Integers, FiniteSets

CONSTANTS
  Files,      \* the uploads, each with the file_ref it is given
  Shapes,     \* the files a client may send: see AllShapes
  GroupSize,  \* INSERT_GROUP_SIZE
  Faults,     \* what may go wrong: see AllFaults
  NULL,       \* SQL's NULL
  NoRow       \* stands for a row of file_reference that does not exist

(***************************************************************************)
(* "db_error"  a transaction fails and has no effect                       *)
(* "db_lost"   a transaction takes effect and its COMMIT is reported failed*)
(* "parse"     Tika, or a file it cannot handle, makes the parsing fail    *)
(* "timeout"   a call to the document-server ends without its answer       *)
(* "session"   update_sessions.sh terminates the session of the uploads    *)
(* "crash"     the process of the file-server dies                         *)
(***************************************************************************)
AllFaults == {"db_error", "db_lost", "parse", "timeout", "session", "crash"}

ASSUME GroupAssumption == GroupSize \in Nat \ {0}
ASSUME FaultsAssumption == Faults \subseteq AllFaults
ASSUME NullAssumption == NULL \notin Nat

VARIABLES
  pc,              \* the next step of the handler, then of its task
  incoming,        \* the file the client sends
  stored,          \* how many of its blocks phase 1 has stored
  todo,            \* serial_encrypt: the rows of its query still to encrypt
  failed,          \* the task went into its rollback
  missed,          \* history: what the rollback could not empty for sure
  file_reference,  \* tables of the file-server
  file_uploads,
  file_parts,
  file_metadata,
  document,        \* table of the document-server: whether it has rows of the file
  indexing,        \* the call of fulltext_indexing in the document-server
  session          \* the session the uploads were started with

tables == <<file_reference, file_uploads, file_parts, file_metadata, document>>
vars == <<pc, incoming, stored, todo, failed, missed, tables, indexing, session>>

(* Where the handler of upload2 can be. *)
Handler == {"idle", "authorised", "refused", "receiving", "abandoned"}

(* process_file_blocks, step by step. *)
Forward == {"encrypt_query", "encrypt", "parse", "metadata", "fulltext",
            "fulltext_wait", "indicator", "update"}

(* The rollback of thread_processing_block. *)
Undo == {"undo_parts", "undo_metadata", "undo_reference", "undo_documents"}

(* What the rollback empties, or resets. *)
Undone == {"file_parts", "file_metadata", "file_reference", "document"}

Running == Forward \cup Undo \cup {"cleanup"}

Steps == Handler \cup Running \cup {"ended", "crashed"}

(***************************************************************************)
(* A file: its full blocks, whether a shorter block follows them, and      *)
(* whether the request carries a Content-Length.                           *)
(***************************************************************************)
AllShapes == [full : Nat, tail : BOOLEAN, has_length : BOOLEAN]

ASSUME ShapesAssumption == Shapes \subseteq AllShapes

BlockCount(shape) == IF shape.tail THEN shape.full + 1 ELSE shape.full

(* A defect: content_length / BLOCK_SIZE, without the last part. *)
Estimates_NoLastPart(shape) ==
  IF ~shape.has_length THEN {NULL}
  ELSE IF shape.tail THEN {shape.full, shape.full + 1}
  ELSE {shape.full}

(***************************************************************************)
(* create_file_reference: total_part is content_length / BLOCK_SIZE + 1.   *)
(* The length counts the envelope of the form too (less than a block): a   *)
(* file that ends on a block gets one part more, one that does not may.    *)
(***************************************************************************)
Estimates(shape) ==
  IF ~shape.has_length THEN {NULL}
  ELSE IF shape.tail THEN {shape.full + 1, shape.full + 2}
  ELSE {shape.full + 1}

References ==
  [total_part : Nat \cup {NULL}, mime_type : {"text", "media"},
   is_encrypted : BOOLEAN, is_fulltext_parsed : BOOLEAN]

ASSUME NoRowAssumption == NoRow \notin References

TypeOK ==
  /\ pc \in [Files -> Steps]
  /\ incoming \in [Files -> Shapes]
  /\ stored \in [Files -> Nat]
  /\ todo \in [Files -> SUBSET Nat]
  /\ failed \in [Files -> BOOLEAN]
  /\ missed \in [Files -> SUBSET Undone]
  /\ file_reference \in [Files -> References \cup {NoRow}]
  /\ file_uploads \in [Files -> SUBSET Nat]
  /\ file_parts \in [Files -> SUBSET Nat]
  /\ file_metadata \in [Files -> BOOLEAN]
  /\ document \in [Files -> BOOLEAN]
  /\ indexing \in [Files -> {"none", "sent", "running", "done", "refused"}]
  /\ session \in {"open", "terminated"}

Init ==
  /\ pc = [f \in Files |-> "idle"]
  /\ incoming \in [Files -> Shapes]
  /\ stored = [f \in Files |-> 0]
  /\ todo = [f \in Files |-> {}]
  /\ failed = [f \in Files |-> FALSE]
  /\ missed = [f \in Files |-> {}]
  /\ file_reference = [f \in Files |-> NoRow]
  /\ file_uploads = [f \in Files |-> {}]
  /\ file_parts = [f \in Files |-> {}]
  /\ file_metadata = [f \in Files |-> FALSE]
  /\ document = [f \in Files |-> FALSE]
  /\ indexing = [f \in Files |-> "none"]
  /\ session = "open"

Goto(f, step) == pc' = [pc EXCEPT ![f] = step]

-----------------------------------------------------------------------------
(* Transactions *)

(* How a transaction can end, as the code sees it: Ok, or Err twice over. *)
Outcomes ==
  {"ok"} \cup (IF "db_error" \in Faults THEN {"error"} ELSE {})
         \cup (IF "db_lost" \in Faults THEN {"lost"} ELSE {})

(* Whether the transaction has had its effect. *)
Applied(outcome) == outcome # "error"

(***************************************************************************)
(* The end of a step of process_file_blocks: Ok leads to the next step, an *)
(* Err out of it and into the rollback.                                    *)
(***************************************************************************)
Proceed(f, outcome, next) ==
  IF outcome = "ok"
  THEN Goto(f, next) /\ UNCHANGED failed
  ELSE Goto(f, "undo_parts") /\ failed' = [failed EXCEPT ![f] = TRUE]

-----------------------------------------------------------------------------
(* upload2: the handler *)

(* valid_sid_get_session, then fetch_customer_key: no table is written. *)
Authorise(f) ==
  /\ pc[f] = "idle"
  /\ \/ session = "open" /\ Goto(f, "authorised")
     \/ Goto(f, "refused")
  /\ UNCHANGED <<incoming, stored, todo, failed, missed, tables, indexing, session>>

(* A defect: the row claims to be encrypted from the start. *)
CreateFileReference_Encrypted(f) ==
  /\ pc[f] = "authorised"
  /\ \E outcome \in Outcomes, total \in Estimates(incoming[f]) :
       /\ file_reference' =
            IF Applied(outcome)
            THEN [file_reference EXCEPT ![f] =
                   [total_part |-> total, mime_type |-> "media",
                    is_encrypted |-> TRUE, is_fulltext_parsed |-> FALSE]]
            ELSE file_reference
       /\ Goto(f, IF outcome = "ok" THEN "receiving" ELSE "refused")
  /\ UNCHANGED <<incoming, stored, todo, failed, missed, file_uploads, file_parts,
                 file_metadata, document, indexing, session>>

(* create_file_reference: the row, not encrypted yet. *)
CreateFileReference(f) ==
  /\ pc[f] = "authorised"
  /\ \E outcome \in Outcomes, total \in Estimates(incoming[f]) :
       /\ file_reference' =
            IF Applied(outcome)
            THEN [file_reference EXCEPT ![f] =
                   [total_part |-> total, mime_type |-> "text",
                    is_encrypted |-> FALSE, is_fulltext_parsed |-> FALSE]]
            ELSE file_reference
       /\ Goto(f, IF outcome = "ok" THEN "receiving" ELSE "refused")
  /\ UNCHANGED <<incoming, stored, todo, failed, missed, file_uploads, file_parts,
                 file_metadata, document, indexing, session>>

(* The blocks from stored[f] up to, not including, `upto`, in one transaction. *)
StoreBlocks(f, upto) ==
  /\ file_uploads' =
       [file_uploads EXCEPT ![f] = @ \cup stored[f] .. (upto - 1)]
  /\ stored' = [stored EXCEPT ![f] = upto]

(* Phase 1, store_group_block: a full group of blocks. *)
StoreGroup(f) ==
  /\ pc[f] = "receiving"
  /\ stored[f] + GroupSize <= incoming[f].full
  /\ StoreBlocks(f, stored[f] + GroupSize)
  /\ UNCHANGED <<pc, incoming, todo, failed, missed, file_reference, file_parts,
                 file_metadata, document, indexing, session>>

(***************************************************************************)
(* The end of phase 1: a shorter last block is stored with the incomplete  *)
(* group before it; without one the incomplete group is not stored.  The   *)
(* task is spawned and the reply sent in the same step of the handler.     *)
(***************************************************************************)
EndOfUpload(f) ==
  /\ pc[f] = "receiving"
  /\ stored[f] + GroupSize > incoming[f].full
  /\ \E outcome \in Outcomes \ {"error"} :
       IF incoming[f].tail
       THEN /\ StoreBlocks(f, incoming[f].full + 1)
            /\ Goto(f, IF outcome = "ok" THEN "encrypt_query" ELSE "abandoned")
       ELSE /\ UNCHANGED <<file_uploads, stored>>
            /\ Goto(f, "encrypt_query")
  /\ UNCHANGED <<incoming, todo, failed, missed, file_reference, file_parts,
                 file_metadata, document, indexing, session>>

(***************************************************************************)
(* Phase 1 stops short: item_info cannot be decoded, the form cannot be    *)
(* read, a group cannot be stored, or the client goes away.  What is in    *)
(* the tables stays there.                                                 *)
(***************************************************************************)
Abandon(f) ==
  /\ pc[f] = "receiving"
  /\ Goto(f, "abandoned")
  /\ UNCHANGED <<incoming, stored, todo, failed, missed, tables, indexing, session>>

-----------------------------------------------------------------------------
(* process_file_blocks: the task *)

(* Noted of a part of the rollback that may not hold. *)
Miss(f, what, condition) ==
  missed' = [missed EXCEPT ![f] = IF condition THEN @ \cup {what} ELSE @]

(* serial_encrypt asks for the rows of file_uploads, once. *)
EncryptQuery(f) ==
  /\ pc[f] = "encrypt_query"
  /\ \E outcome \in Outcomes :
       /\ todo' = [todo EXCEPT ![f] = IF outcome = "ok" THEN file_uploads[f] ELSE {}]
       /\ Proceed(f, outcome, "encrypt")
  /\ UNCHANGED <<incoming, stored, missed, tables, indexing, session>>

(* A defect: a part that cannot be written is tried again. *)
WritePart_Retried(f) ==
  /\ pc[f] = "encrypt"
  /\ \E block \in todo[f], outcome \in Outcomes :
       /\ \A other \in todo[f] : block <= other
       /\ Applied(outcome) => block \notin file_parts[f]
       /\ file_parts' = [file_parts EXCEPT ![f] =
                           IF Applied(outcome) THEN @ \cup {block} ELSE @]
       /\ todo' = [todo EXCEPT ![f] = IF outcome = "ok" THEN @ \ {block} ELSE @]
  /\ UNCHANGED <<pc, failed, missed, incoming, stored, file_reference, file_uploads,
                 file_metadata, document, indexing, session>>

(***************************************************************************)
(* write_part: the next block in part_number order goes to file_parts, in  *)
(* a transaction of its own.  The unique index refuses a part twice.       *)
(***************************************************************************)
WritePart(f) ==
  /\ pc[f] = "encrypt"
  /\ \E block \in todo[f], outcome \in Outcomes :
       /\ \A other \in todo[f] : block <= other
       /\ Applied(outcome) => block \notin file_parts[f]
       /\ file_parts' = [file_parts EXCEPT ![f] =
                           IF Applied(outcome) THEN @ \cup {block} ELSE @]
       /\ todo' = [todo EXCEPT ![f] = IF outcome = "ok" THEN @ \ {block} ELSE {}]
       /\ Proceed(f, outcome, "encrypt")
  /\ UNCHANGED <<incoming, stored, missed, file_reference, file_uploads, file_metadata,
                 document, indexing, session>>

(* A defect: the uploads are emptied as soon as they are encrypted. *)
EncryptDone_Emptied(f) ==
  /\ pc[f] = "encrypt"
  /\ todo[f] = {}
  /\ Goto(f, "parse")
  /\ file_uploads' = [file_uploads EXCEPT ![f] = {}]
  /\ UNCHANGED <<incoming, stored, todo, failed, missed, file_reference, file_parts,
                 file_metadata, document, indexing, session>>

(* No row left: serial_encrypt is done. *)
EncryptDone(f) ==
  /\ pc[f] = "encrypt"
  /\ todo[f] = {}
  /\ Goto(f, "parse")
  /\ UNCHANGED <<incoming, stored, todo, failed, missed, tables, indexing, session>>

(* serial_parse_content reads the blocks again and has Tika parse them. *)
ParseContent(f) ==
  /\ pc[f] = "parse"
  /\ \/ Proceed(f, "ok", "metadata")
     \/ "parse" \in Faults /\ Proceed(f, "error", "metadata")
     \/ \E outcome \in Outcomes : Proceed(f, outcome, "metadata")
  /\ UNCHANGED <<incoming, stored, todo, missed, tables, indexing, session>>

(* insert_metadata: all the pairs in one transaction. *)
InsertMetadata(f) ==
  /\ pc[f] = "metadata"
  /\ \E outcome \in Outcomes :
       /\ file_metadata' = [file_metadata EXCEPT ![f] = @ \/ Applied(outcome)]
       /\ Proceed(f, outcome, "fulltext")
  /\ UNCHANGED <<incoming, stored, todo, missed, file_reference, file_uploads,
                 file_parts, document, indexing, session>>

(* The request of fulltext_indexing leaves for the document-server. *)
SendText(f) ==
  /\ pc[f] = "fulltext"
  /\ indexing' = [indexing EXCEPT ![f] = "sent"]
  /\ Goto(f, "fulltext_wait")
  /\ UNCHANGED <<incoming, stored, todo, failed, missed, tables, session>>

(* Its answer: Ok, or any error. *)
TextIndexed(f) ==
  /\ pc[f] = "fulltext_wait"
  /\ \/ indexing[f] = "done" /\ Proceed(f, "ok", "indicator")
     \/ indexing[f] = "refused" /\ Proceed(f, "error", "indicator")
  /\ indexing' = [indexing EXCEPT ![f] = "none"]
  /\ UNCHANGED <<incoming, stored, todo, missed, tables, session>>

(***************************************************************************)
(* The call ends without the answer: TIMEOUT, or a broken connection.  An  *)
(* answer the document-server gave is lost; when it has not finished yet,  *)
(* it may store the text after the rollback has deleted it.                *)
(***************************************************************************)
TextTimeout(f) ==
  /\ "timeout" \in Faults
  /\ pc[f] = "fulltext_wait"
  /\ Proceed(f, "error", "indicator")
  /\ indexing' = [indexing EXCEPT ![f] =
                    IF @ \in {"done", "refused"} THEN "none" ELSE @]
  /\ Miss(f, "document", indexing[f] \in {"sent", "running"})
  /\ UNCHANGED <<incoming, stored, todo, tables, session>>

(* set_file_reference_fulltext_indicator *)
SetIndicator(f) ==
  /\ pc[f] = "indicator"
  /\ \E outcome \in Outcomes :
       /\ file_reference' =
            IF Applied(outcome)
            THEN [file_reference EXCEPT ![f].is_fulltext_parsed = TRUE]
            ELSE file_reference
       /\ Proceed(f, outcome, "update")
  /\ UNCHANGED <<incoming, stored, todo, missed, file_uploads, file_parts,
                 file_metadata, document, indexing, session>>

(* update_file_reference: the row as it is after it. *)
Updated(row, total_part, mime_type) ==
  [row EXCEPT !.total_part = total_part, !.mime_type = mime_type,
              !.is_encrypted = TRUE]

(* The last step of process_file_blocks. *)
UpdateReference(f) ==
  /\ pc[f] = "update"
  /\ \E outcome \in Outcomes :
       /\ file_reference' =
            IF Applied(outcome)
            THEN [file_reference EXCEPT ![f] =
                   Updated(@, BlockCount(incoming[f]), "media")]
            ELSE file_reference
       /\ Proceed(f, outcome, "cleanup")
  /\ UNCHANGED <<incoming, stored, todo, missed, file_uploads, file_parts,
                 file_metadata, document, indexing, session>>

-----------------------------------------------------------------------------
(* thread_processing_block: the rollback, its errors ignored *)

(* delete_from_target_table("file_parts") *)
UndoParts(f) ==
  /\ pc[f] = "undo_parts"
  /\ \E outcome \in Outcomes :
       /\ file_parts' = [file_parts EXCEPT ![f] = IF Applied(outcome) THEN {} ELSE @]
       /\ Miss(f, "file_parts", ~Applied(outcome))
  /\ Goto(f, "undo_metadata")
  /\ UNCHANGED <<incoming, stored, todo, failed, file_reference, file_uploads,
                 file_metadata, document, indexing, session>>

(* delete_from_target_table("file_metadata") *)
UndoMetadata(f) ==
  /\ pc[f] = "undo_metadata"
  /\ \E outcome \in Outcomes :
       /\ file_metadata' = [file_metadata EXCEPT ![f] = @ /\ ~Applied(outcome)]
       /\ Miss(f, "file_metadata", ~Applied(outcome))
  /\ Goto(f, "undo_reference")
  /\ UNCHANGED <<incoming, stored, todo, failed, file_reference, file_uploads,
                 file_parts, document, indexing, session>>

(* A defect: the rollback leaves the media type to the next reader. *)
UndoReference_KeepsType(f) ==
  /\ pc[f] = "undo_reference"
  /\ \E outcome \in Outcomes :
       /\ file_reference' =
            IF Applied(outcome)
            THEN [file_reference EXCEPT ![f] = Updated(@, 0, "media")]
            ELSE file_reference
       /\ Miss(f, "file_reference", ~Applied(outcome))
  /\ Goto(f, "undo_documents")
  /\ UNCHANGED <<incoming, stored, todo, failed, file_uploads, file_parts,
                 file_metadata, document, indexing, session>>

(* update_file_reference(file_id, 0, 0, "text") *)
UndoReference(f) ==
  /\ pc[f] = "undo_reference"
  /\ \E outcome \in Outcomes :
       /\ file_reference' =
            IF Applied(outcome)
            THEN [file_reference EXCEPT ![f] = Updated(@, 0, "text")]
            ELSE file_reference
       /\ Miss(f, "file_reference", ~Applied(outcome))
  /\ Goto(f, "undo_documents")
  /\ UNCHANGED <<incoming, stored, todo, failed, file_uploads, file_parts,
                 file_metadata, document, indexing, session>>

(* A defect: only a file that is marked as parsed has its text deleted. *)
UndoDocuments_IfParsed(f) ==
  /\ pc[f] = "undo_documents"
  /\ \E outcome \in Outcomes :
       LET asked == file_reference[f].is_fulltext_parsed
           deleted == asked /\ session = "open" /\ Applied(outcome)
       IN /\ document' = [document EXCEPT ![f] = @ /\ ~deleted]
          /\ Miss(f, "document", asked /\ ~deleted)
  /\ Goto(f, "cleanup")
  /\ UNCHANGED <<incoming, stored, todo, failed, file_reference, file_uploads,
                 file_parts, file_metadata, indexing, session>>

(***************************************************************************)
(* delete_text_indexing of the document-server, which checks the session   *)
(* again, and whose delete_document may fail as well.                      *)
(***************************************************************************)
UndoDocuments(f) ==
  /\ pc[f] = "undo_documents"
  /\ \E outcome \in Outcomes :
       LET deleted == session = "open" /\ Applied(outcome)
       IN /\ document' = [document EXCEPT ![f] = @ /\ ~deleted]
          /\ Miss(f, "document", ~deleted)
  /\ Goto(f, "cleanup")
  /\ UNCHANGED <<incoming, stored, todo, failed, file_reference, file_uploads,
                 file_parts, file_metadata, indexing, session>>

(* delete_from_file_uploads, after a success and after a rollback. *)
Cleanup(f) ==
  /\ pc[f] = "cleanup"
  /\ \E outcome \in Outcomes :
       file_uploads' = [file_uploads EXCEPT ![f] = IF Applied(outcome) THEN {} ELSE @]
  /\ Goto(f, "ended")
  /\ UNCHANGED <<incoming, stored, todo, failed, missed, file_reference, file_parts,
                 file_metadata, document, indexing, session>>

-----------------------------------------------------------------------------
(* The document-server, and the environment *)

(* fulltext_indexing starts with valid_sid_get_session. *)
AcceptText(f) ==
  /\ indexing[f] = "sent"
  /\ indexing' = [indexing EXCEPT ![f] =
                    IF session = "open" THEN "running" ELSE "refused"]
  /\ UNCHANGED <<pc, incoming, stored, todo, failed, missed, tables, session>>

(***************************************************************************)
(* It ends with the COMMIT of its one transaction, or with an error (the   *)
(* unique index on (file_ref, part_no) refuses a file indexed before).     *)
(* Words are read up to the first block without any: a text that begins    *)
(* with such a block, or has no words at all, is indexed without a row,    *)
(* and the reply is Ok like that of any other (FullText).                  *)
(***************************************************************************)
IndexText(f) ==
  /\ indexing[f] = "running"
  /\ \E outcome \in Outcomes, has_rows \in BOOLEAN :
       LET inserts == has_rows /\ Applied(outcome)
       IN /\ inserts => ~document[f]
          /\ document' = [document EXCEPT ![f] = @ \/ inserts]
          /\ indexing' = [indexing EXCEPT ![f] =
                            IF pc[f] # "fulltext_wait" THEN "none"
                            ELSE IF outcome = "ok" THEN "done" ELSE "refused"]
  /\ UNCHANGED <<pc, incoming, stored, todo, failed, missed, file_reference,
                 file_uploads, file_parts, file_metadata, session>>

(* The caller is gone: the HTTP layer may drop the request. *)
DropText(f) ==
  /\ indexing[f] # "none"
  /\ pc[f] # "fulltext_wait"
  /\ indexing' = [indexing EXCEPT ![f] = "none"]
  /\ UNCHANGED <<pc, incoming, stored, todo, failed, missed, tables, session>>

(* update_sessions.sh: the session has not been renewed for two hours. *)
TerminateSession ==
  /\ "session" \in Faults
  /\ session = "open"
  /\ session' = "terminated"
  /\ UNCHANGED <<pc, incoming, stored, todo, failed, missed, tables, indexing>>

(* The process dies: handlers and tasks are gone, and nothing resumes them. *)
Crash ==
  /\ "crash" \in Faults
  /\ \E f \in Files : pc[f] \in Running \cup {"authorised", "receiving"}
  /\ pc' = [f \in Files |->
              IF pc[f] \in Running \cup {"authorised", "receiving"}
              THEN "crashed" ELSE pc[f]]
  /\ UNCHANGED <<incoming, stored, todo, failed, missed, tables, indexing, session>>

Upload(f) ==
  \/ Authorise(f)
  \/ CreateFileReference(f)
  \/ StoreGroup(f)
  \/ EndOfUpload(f)
  \/ Abandon(f)

Task(f) ==
  \/ EncryptQuery(f)
  \/ WritePart(f)
  \/ EncryptDone(f)
  \/ ParseContent(f)
  \/ InsertMetadata(f)
  \/ SendText(f)
  \/ TextIndexed(f)
  \/ TextTimeout(f)
  \/ SetIndicator(f)
  \/ UpdateReference(f)
  \/ UndoParts(f)
  \/ UndoMetadata(f)
  \/ UndoReference(f)
  \/ UndoDocuments(f)
  \/ Cleanup(f)

DocumentServer(f) ==
  \/ AcceptText(f)
  \/ IndexText(f)
  \/ DropText(f)

Next ==
  \/ \E f \in Files : Upload(f)
  \/ \E f \in Files : Task(f)
  \/ \E f \in Files : DocumentServer(f)
  \/ TerminateSession
  \/ Crash

Spec == Init /\ [][Next]_vars

(***************************************************************************)
(* The runtime polls every spawned task, and every database or HTTP call   *)
(* returns (TIMEOUT at the latest): the task and the document-server keep  *)
(* moving.  Nothing makes a client send the rest of its file, and nothing  *)
(* makes a session end or a process die.                                   *)
(***************************************************************************)
Fairness ==
  \A f \in Files : WF_vars(Task(f)) /\ WF_vars(DocumentServer(f))

FairSpec == Spec /\ Fairness

=============================================================================
