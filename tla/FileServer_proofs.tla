-------------------------- MODULE FileServer_proofs --------------------------
(***************************************************************************)
(* What a client of the file-server can rely on, for any number of         *)
(* uploads, any files, any group size and any of the faults.  The          *)
(* properties of the readers are not inductive: that a download is whole   *)
(* depends on which tables each step of the task has already written, and  *)
(* on the row being marked as encrypted after the last part and unmarked   *)
(* (its type set back to "text") only once the rollback has begun.         *)
(***************************************************************************)
EXTENDS FileReaders, FiniteSetTheorems, TLAPS

All(f) == 0 .. (stored[f] - 1)

Encrypted(f) == Exists(f) /\ file_reference[f].is_encrypted

(* The uploads are whole groups at first, and complete until the task ends. *)
UploadsKept(f) ==
  /\ pc[f] \in {"idle", "authorised", "receiving"} => stored[f] <= incoming[f].full
  /\ pc[f] # "ended" => file_uploads[f] = All(f)

(* The parts, step by step. *)
PartsWritten(f) ==
  /\ file_parts[f] \subseteq All(f)
  /\ pc[f] \in Handler \cup {"encrypt_query"} => file_parts[f] = {}
  /\ pc[f] = "encrypt" => file_parts[f] \cup todo[f] = All(f)
  /\ pc[f] \in {"parse", "metadata", "fulltext", "fulltext_wait", "indicator", "update"} =>
       file_parts[f] = All(f)

(* The row, step by step. *)
RowWritten(f) ==
  /\ pc[f] \in {"idle", "authorised"} => ~Exists(f)
  /\ pc[f] \in Running \cup {"receiving", "ended"} => Exists(f)
  /\ pc[f] \in Handler \cup Forward => ~Encrypted(f)
  /\ Encrypted(f) /\ file_reference[f].mime_type # "text" =>
       file_parts[f] \in {{}, All(f)}

(* The rollback, and a success. *)
Outcome(f) ==
  /\ pc[f] \in Handler \cup Forward => ~failed[f]
  /\ pc[f] \in Undo => failed[f]
  /\ pc[f] \in {"cleanup", "ended"} /\ ~failed[f] =>
       /\ Encrypted(f)
       /\ file_reference[f].mime_type # "text"
       /\ file_parts[f] = All(f)

FileInv(f) ==
  /\ UploadsKept(f)
  /\ PartsWritten(f)
  /\ RowWritten(f)
  /\ Outcome(f)

Inv == TypeOK /\ \A f \in Files : FileInv(f)

-----------------------------------------------------------------------------
(* Type correctness *)

(* The number of blocks and of estimated parts are numbers, or NULL. *)
LEMMA ShapeTypes ==
  ASSUME NEW shape \in Shapes
  PROVE  /\ shape \in AllShapes
         /\ shape.full \in Nat
         /\ BlockCount(shape) \in Nat
         /\ Estimates(shape) \subseteq Nat \cup {NULL}
BY ShapesAssumption DEF AllShapes, BlockCount, Estimates

(* A row that update_file_reference has rewritten is a row. *)
LEMMA UpdatedType ==
  ASSUME NEW row \in References, NEW total \in Nat, NEW type \in {"text", "media"}
  PROVE  /\ Updated(row, total, type) \in References
         /\ Updated(row, total, type).is_encrypted
         /\ Updated(row, total, type).mime_type = type
         /\ Updated(row, total, type).is_fulltext_parsed = row.is_fulltext_parsed
BY DEF Updated, References

(* While its task is running, a file has its row. *)
LEMMA RowExists ==
  ASSUME Inv, NEW f \in Files, pc[f] \in Running
  PROVE  file_reference[f] \in References
BY DEF Inv, FileInv, RowWritten, Exists, TypeOK

(* Any step that is one file's: of its handler, its task or its indexing. *)
Step(f) == Upload(f) \/ Task(f) \/ DocumentServer(f)

(* The end of a step of the task keeps the types of pc and failed. *)
LEMMA ProceedType ==
  ASSUME TypeOK, NEW f \in Files, NEW outcome, NEW next \in Steps,
         Proceed(f, outcome, next)
  PROVE  pc' \in [Files -> Steps] /\ failed' \in [Files -> BOOLEAN]
BY DEF TypeOK, Proceed, Goto, Steps, Running, Undo

(* What is noted of the rollback names a part of it. *)
LEMMA MissType ==
  ASSUME TypeOK, NEW f \in Files, NEW condition, NEW what \in Undone,
         Miss(f, what, condition)
  PROVE  missed' \in [Files -> SUBSET Undone]
<1>1. missed[f] \in SUBSET Undone
  BY DEF TypeOK
<1>2. (IF condition THEN missed[f] \cup {what} ELSE missed[f]) \in SUBSET Undone
  BY <1>1
<1> QED
  BY <1>2 DEF TypeOK, Miss

LEMMA TypeStep ==
  ASSUME Inv, NEW f \in Files, Step(f)
  PROVE  TypeOK'
<1>1. CASE Authorise(f)
  BY <1>1
     DEF Authorise, Inv, FileInv, TypeOK, Goto, Proceed, tables, Steps, Handler, Running,
         Forward, Undo
<1>2. CASE CreateFileReference(f)
  BY <1>2, ShapeTypes
     DEF CreateFileReference, References, Inv, FileInv, TypeOK, Goto, Proceed, tables, Steps, Handler, Running,
         Forward, Undo
<1>3. CASE StoreGroup(f)
  BY <1>3, ShapeTypes, GroupAssumption
     DEF StoreGroup, StoreBlocks, Inv, FileInv, TypeOK, Goto, Proceed, tables, Steps, Handler, Running,
         Forward, Undo
<1>4. CASE EndOfUpload(f)
  BY <1>4, ShapeTypes
     DEF EndOfUpload, StoreBlocks, Inv, FileInv, TypeOK, Goto, Proceed, tables, Steps, Handler, Running,
         Forward, Undo
<1>5. CASE Abandon(f)
  BY <1>5
     DEF Abandon, Inv, FileInv, TypeOK, Goto, Proceed, tables, Steps, Handler, Running,
         Forward, Undo
<1>6. CASE EncryptQuery(f)
  <2>1. PICK outcome \in Outcomes :
          /\ todo' = [todo EXCEPT ![f] = IF outcome = "ok" THEN file_uploads[f] ELSE {}]
          /\ Proceed(f, outcome, "encrypt")
    BY <1>6 DEF EncryptQuery
  <2>2. (IF outcome = "ok" THEN file_uploads[f] ELSE {}) \in SUBSET Nat
    BY DEF Inv, TypeOK
  <2>3. todo' \in [Files -> SUBSET Nat]
    BY <2>1, <2>2 DEF Inv, TypeOK
  <2>4. pc' \in [Files -> Steps] /\ failed' \in [Files -> BOOLEAN]
    BY <2>1 DEF Inv, TypeOK, Goto, Proceed, Steps, Handler, Running, Forward, Undo
  <2> QED
    BY <1>6, <2>3, <2>4 DEF EncryptQuery, Inv, TypeOK, tables
<1>7. CASE WritePart(f)
  <2>1. PICK block \in todo[f], outcome \in Outcomes :
          /\ file_parts' = [file_parts EXCEPT ![f] =
                              IF Applied(outcome) THEN @ \cup {block} ELSE @]
          /\ todo' = [todo EXCEPT ![f] = IF outcome = "ok" THEN @ \ {block} ELSE {}]
          /\ Proceed(f, outcome, "encrypt")
    BY <1>7 DEF WritePart
  <2>2. todo[f] \in SUBSET Nat /\ file_parts[f] \in SUBSET Nat /\ block \in Nat
    BY <2>1 DEF Inv, TypeOK
  <2>3. todo' \in [Files -> SUBSET Nat]
    BY <2>1, <2>2 DEF Inv, TypeOK
  <2>4. file_parts' \in [Files -> SUBSET Nat]
    BY <2>1, <2>2 DEF Inv, TypeOK
  <2>5. pc' \in [Files -> Steps] /\ failed' \in [Files -> BOOLEAN]
    BY <2>1 DEF Inv, TypeOK, Goto, Proceed, Steps, Handler, Running, Forward, Undo
  <2> QED
    BY <1>7, <2>3, <2>4, <2>5 DEF WritePart, Inv, TypeOK
<1>8. CASE EncryptDone(f)
  <2>1. pc' \in [Files -> Steps]
    BY <1>8 DEF EncryptDone, Inv, TypeOK, Goto, Steps, Handler, Running, Forward, Undo
  <2> QED
    BY <1>8, <2>1 DEF EncryptDone, Inv, TypeOK, tables
<1>9. CASE ParseContent(f)
  <2>1. pc' \in [Files -> Steps] /\ failed' \in [Files -> BOOLEAN]
    BY <1>9, ProceedType DEF ParseContent, Inv, Steps, Running, Forward
  <2> QED
    BY <1>9, <2>1 DEF ParseContent, Inv, TypeOK, tables
<1>10. CASE InsertMetadata(f)
  <2>1. PICK outcome \in Outcomes :
          /\ file_metadata' = [file_metadata EXCEPT ![f] = @ \/ Applied(outcome)]
          /\ Proceed(f, outcome, "fulltext")
    BY <1>10 DEF InsertMetadata
  <2>2. file_metadata' \in [Files -> BOOLEAN]
    BY <2>1 DEF Inv, TypeOK, Applied
  <2>3. pc' \in [Files -> Steps] /\ failed' \in [Files -> BOOLEAN]
    BY <2>1 DEF Inv, TypeOK, Goto, Proceed, Steps, Handler, Running, Forward, Undo
  <2> QED
    BY <1>10, <2>2, <2>3 DEF InsertMetadata, Inv, TypeOK
<1>11. CASE SendText(f)
  <2>1. pc' \in [Files -> Steps]
    BY <1>11 DEF SendText, Inv, TypeOK, Goto, Steps, Handler, Running, Forward, Undo
  <2>2. indexing' \in [Files -> {"none", "sent", "running", "done", "refused"}]
    BY <1>11 DEF SendText, Inv, TypeOK
  <2> QED
    BY <1>11, <2>1, <2>2 DEF SendText, Inv, TypeOK, tables
<1>12. CASE TextIndexed(f)
  <2>1. pc' \in [Files -> Steps] /\ failed' \in [Files -> BOOLEAN]
    BY <1>12, ProceedType DEF TextIndexed, Inv, Steps, Running, Forward
  <2>2. indexing' \in [Files -> {"none", "sent", "running", "done", "refused"}]
    BY <1>12 DEF TextIndexed, Inv, TypeOK
  <2> QED
    BY <1>12, <2>1, <2>2 DEF TextIndexed, Inv, TypeOK, tables
<1>13. CASE TextTimeout(f)
  <2>1. pc' \in [Files -> Steps] /\ failed' \in [Files -> BOOLEAN]
    BY <1>13, ProceedType DEF TextTimeout, Inv, Steps, Running, Forward
  <2>2. indexing' \in [Files -> {"none", "sent", "running", "done", "refused"}]
    BY <1>13 DEF TextTimeout, Inv, TypeOK
  <2>9. missed' \in [Files -> SUBSET Undone]
    BY <1>13, MissType DEF TextTimeout, Inv, Undone
  <2> QED
    BY <1>13, <2>1, <2>9, <2>2 DEF TextTimeout, Inv, TypeOK, tables
<1>14. CASE SetIndicator(f)
  <2>1. file_reference[f] \in References
    BY <1>14, RowExists DEF SetIndicator, Running, Forward
  <2>2. PICK outcome \in Outcomes :
          /\ file_reference' =
               IF Applied(outcome)
               THEN [file_reference EXCEPT ![f].is_fulltext_parsed = TRUE]
               ELSE file_reference
          /\ Proceed(f, outcome, "update")
    BY <1>14 DEF SetIndicator
  <2>3. [file_reference[f] EXCEPT !.is_fulltext_parsed = TRUE] \in References
    BY <2>1 DEF References
  <2>4. file_reference' \in [Files -> References \cup {NoRow}]
    BY <2>2, <2>3 DEF Inv, TypeOK
  <2>5. pc' \in [Files -> Steps] /\ failed' \in [Files -> BOOLEAN]
    BY <2>2 DEF Inv, TypeOK, Goto, Proceed, Steps, Handler, Running, Forward, Undo
  <2> QED
    BY <1>14, <2>4, <2>5 DEF SetIndicator, Inv, TypeOK
<1>15. CASE UpdateReference(f)
  <2>1. file_reference[f] \in References
    BY <1>15, RowExists DEF UpdateReference, Running, Forward
  <2>2. PICK outcome \in Outcomes :
          /\ file_reference' =
               IF Applied(outcome)
               THEN [file_reference EXCEPT ![f] =
                      Updated(@, BlockCount(incoming[f]), "media")]
               ELSE file_reference
          /\ Proceed(f, outcome, "cleanup")
    BY <1>15 DEF UpdateReference
  <2>3. Updated(file_reference[f], BlockCount(incoming[f]), "media") \in References
    BY <2>1, ShapeTypes, UpdatedType DEF Inv, TypeOK
  <2>4. file_reference' \in [Files -> References \cup {NoRow}]
    BY <2>2, <2>3 DEF Inv, TypeOK
  <2>5. pc' \in [Files -> Steps] /\ failed' \in [Files -> BOOLEAN]
    BY <2>2 DEF Inv, TypeOK, Goto, Proceed, Steps, Handler, Running, Forward, Undo
  <2> QED
    BY <1>15, <2>4, <2>5 DEF UpdateReference, Inv, TypeOK
<1>16. CASE UndoParts(f)
  <2>1. pc' \in [Files -> Steps]
    BY <1>16 DEF UndoParts, Inv, TypeOK, Goto, Steps, Handler, Running, Forward, Undo
  <2>2. file_parts' \in [Files -> SUBSET Nat]
    BY <1>16 DEF UndoParts, Inv, TypeOK
  <2>9. missed' \in [Files -> SUBSET Undone]
    BY <1>16, MissType DEF UndoParts, Inv, Undone
  <2> QED
    BY <1>16, <2>1, <2>9, <2>2 DEF UndoParts, Inv, TypeOK, tables
<1>17. CASE UndoMetadata(f)
  <2>1. pc' \in [Files -> Steps]
    BY <1>17 DEF UndoMetadata, Inv, TypeOK, Goto, Steps, Handler, Running, Forward, Undo
  <2>2. file_metadata' \in [Files -> BOOLEAN]
    BY <1>17 DEF UndoMetadata, Inv, TypeOK
  <2>9. missed' \in [Files -> SUBSET Undone]
    BY <1>17, MissType DEF UndoMetadata, Inv, Undone
  <2> QED
    BY <1>17, <2>1, <2>9, <2>2 DEF UndoMetadata, Inv, TypeOK, tables
<1>18. CASE UndoReference(f)
  <2>1. file_reference[f] \in References
    BY <1>18, RowExists DEF UndoReference, Running, Undo
  <2>2. PICK outcome \in Outcomes :
          file_reference' =
            IF Applied(outcome)
            THEN [file_reference EXCEPT ![f] = Updated(@, 0, "text")]
            ELSE file_reference
    BY <1>18 DEF UndoReference
  <2>3. Updated(file_reference[f], 0, "text") \in References
    BY <2>1, UpdatedType
  <2>4. file_reference' \in [Files -> References \cup {NoRow}]
    BY <2>2, <2>3 DEF Inv, TypeOK
  <2>5. pc' \in [Files -> Steps]
    BY <1>18 DEF UndoReference, Inv, TypeOK, Goto, Proceed, Steps, Handler, Running, Forward, Undo
  <2>9. missed' \in [Files -> SUBSET Undone]
    BY <1>18, MissType DEF UndoReference, Inv, Undone
  <2> QED
    BY <1>18, <2>4, <2>9, <2>5 DEF UndoReference, Inv, TypeOK
<1>19. CASE UndoDocuments(f)
  <2>1. pc' \in [Files -> Steps]
    BY <1>19 DEF UndoDocuments, Inv, TypeOK, Goto, Steps, Handler, Running, Forward, Undo
  <2>2. document' \in [Files -> BOOLEAN]
    BY <1>19 DEF UndoDocuments, Inv, TypeOK
  <2>9. missed' \in [Files -> SUBSET Undone]
    BY <1>19, MissType DEF UndoDocuments, Inv, Undone
  <2> QED
    BY <1>19, <2>1, <2>9, <2>2 DEF UndoDocuments, Inv, TypeOK, tables
<1>20. CASE Cleanup(f)
  <2>1. pc' \in [Files -> Steps]
    BY <1>20 DEF Cleanup, Inv, TypeOK, Goto, Steps, Handler, Running, Forward, Undo
  <2>2. file_uploads' \in [Files -> SUBSET Nat]
    BY <1>20 DEF Cleanup, Inv, TypeOK
  <2> QED
    BY <1>20, <2>1, <2>2 DEF Cleanup, Inv, TypeOK, tables
<1>21. CASE AcceptText(f)
  <2>1. indexing' \in [Files -> {"none", "sent", "running", "done", "refused"}]
    BY <1>21 DEF AcceptText, Inv, TypeOK
  <2> QED
    BY <1>21, <2>1 DEF AcceptText, Inv, TypeOK, tables
<1>22. CASE IndexText(f)
  <2>1. indexing' \in [Files -> {"none", "sent", "running", "done", "refused"}]
    BY <1>22 DEF IndexText, Inv, TypeOK
  <2>2. document' \in [Files -> BOOLEAN]
    BY <1>22 DEF IndexText, Inv, TypeOK, Applied
  <2> QED
    BY <1>22, <2>1, <2>2 DEF IndexText, Inv, TypeOK, tables
<1>23. CASE DropText(f)
  <2>1. indexing' \in [Files -> {"none", "sent", "running", "done", "refused"}]
    BY <1>23 DEF DropText, Inv, TypeOK
  <2> QED
    BY <1>23, <2>1 DEF DropText, Inv, TypeOK, tables
<1> QED
  BY <1>1, <1>2, <1>3, <1>4, <1>5, <1>6, <1>7, <1>8, <1>9, <1>10, <1>11, <1>12, <1>13, <1>14, <1>15, <1>16, <1>17, <1>18, <1>19, <1>20, <1>21, <1>22, <1>23
     DEF Step, Upload, Task, DocumentServer

-----------------------------------------------------------------------------
(* The steps of one file leave the others alone *)

(* What the invariant says of a file depends on these alone. *)
Same(g) ==
  /\ pc'[g] = pc[g]
  /\ incoming'[g] = incoming[g]
  /\ stored'[g] = stored[g]
  /\ todo'[g] = todo[g]
  /\ failed'[g] = failed[g]
  /\ file_reference'[g] = file_reference[g]
  /\ file_uploads'[g] = file_uploads[g]
  /\ file_parts'[g] = file_parts[g]
  /\ file_metadata'[g] = file_metadata[g]
  /\ missed'[g] = missed[g]
  /\ document'[g] = document[g]
  /\ indexing'[g] = indexing[g]

LEMMA SameKeeps ==
  ASSUME NEW g \in Files, FileInv(g), Same(g)
  PROVE  FileInv(g)'
BY DEF FileInv, Same, UploadsKept, PartsWritten, RowWritten, Outcome,
       All, Encrypted, Exists

LEMMA OthersAreSame ==
  ASSUME Inv, NEW f \in Files, Step(f), NEW g \in Files, g # f
  PROVE  Same(g)
<1>1. CASE Authorise(f)
  BY <1>1 DEF Authorise, Inv, TypeOK, Same, Goto, Proceed, tables
<1>2. CASE CreateFileReference(f)
  BY <1>2 DEF CreateFileReference, Inv, TypeOK, Same, Goto, Proceed, tables
<1>3. CASE StoreGroup(f)
  BY <1>3 DEF StoreGroup, Inv, TypeOK, Same, Goto, Proceed, tables, StoreBlocks
<1>4. CASE EndOfUpload(f)
  BY <1>4 DEF EndOfUpload, Inv, TypeOK, Same, Goto, Proceed, tables, StoreBlocks
<1>5. CASE Abandon(f)
  BY <1>5 DEF Abandon, Inv, TypeOK, Same, Goto, Proceed, tables
<1>6. CASE EncryptQuery(f)
  BY <1>6 DEF EncryptQuery, Inv, TypeOK, Same, Goto, Proceed, tables
<1>7. CASE WritePart(f)
  BY <1>7 DEF WritePart, Inv, TypeOK, Same, Goto, Proceed, tables
<1>8. CASE EncryptDone(f)
  BY <1>8 DEF EncryptDone, Inv, TypeOK, Same, Goto, Proceed, tables
<1>9. CASE ParseContent(f)
  BY <1>9 DEF ParseContent, Inv, TypeOK, Same, Goto, Proceed, tables
<1>10. CASE InsertMetadata(f)
  BY <1>10 DEF InsertMetadata, Inv, TypeOK, Same, Goto, Proceed, tables
<1>11. CASE SendText(f)
  BY <1>11 DEF SendText, Inv, TypeOK, Same, Goto, Proceed, tables
<1>12. CASE TextIndexed(f)
  BY <1>12 DEF TextIndexed, Inv, TypeOK, Same, Goto, Proceed, tables
<1>13. CASE TextTimeout(f)
  BY <1>13 DEF TextTimeout, Inv, TypeOK, Same, Miss, Goto, Proceed, tables
<1>14. CASE SetIndicator(f)
  BY <1>14 DEF SetIndicator, Inv, TypeOK, Same, Goto, Proceed, tables
<1>15. CASE UpdateReference(f)
  BY <1>15 DEF UpdateReference, Inv, TypeOK, Same, Goto, Proceed, tables
<1>16. CASE UndoParts(f)
  BY <1>16 DEF UndoParts, Inv, TypeOK, Same, Miss, Goto, Proceed, tables
<1>17. CASE UndoMetadata(f)
  BY <1>17 DEF UndoMetadata, Inv, TypeOK, Same, Miss, Goto, Proceed, tables
<1>18. CASE UndoReference(f)
  BY <1>18 DEF UndoReference, Inv, TypeOK, Same, Miss, Goto, Proceed, tables
<1>19. CASE UndoDocuments(f)
  BY <1>19 DEF UndoDocuments, Inv, TypeOK, Same, Miss, Goto, Proceed, tables
<1>20. CASE Cleanup(f)
  BY <1>20 DEF Cleanup, Inv, TypeOK, Same, Goto, Proceed, tables
<1>21. CASE AcceptText(f)
  BY <1>21 DEF AcceptText, Inv, TypeOK, Same, Goto, Proceed, tables
<1>22. CASE IndexText(f)
  BY <1>22 DEF IndexText, Inv, TypeOK, Same, Goto, Proceed, tables
<1>23. CASE DropText(f)
  BY <1>23 DEF DropText, Inv, TypeOK, Same, Goto, Proceed, tables
<1> QED
  BY <1>1, <1>2, <1>3, <1>4, <1>5, <1>6, <1>7, <1>8, <1>9, <1>10, <1>11,
     <1>12, <1>13, <1>14, <1>15, <1>16, <1>17, <1>18, <1>19, <1>20, <1>21, <1>22, <1>23
     DEF Step, Upload, Task, DocumentServer

-----------------------------------------------------------------------------
(* The steps of a file keep its invariant *)

LEMMA FileStep ==
  ASSUME Inv, NEW f \in Files, Step(f)
  PROVE  FileInv(f)'
<1>1. CASE Authorise(f)
  BY <1>1
     DEF Authorise, FileInv, UploadsKept, PartsWritten, RowWritten, Outcome,
         All, Encrypted, Exists, Inv, TypeOK, Goto, Proceed, tables, Applied,
         Handler, Running, Forward, Undo
<1>2. CASE CreateFileReference(f)
  <2>1. /\ pc[f] = "authorised"
        /\ pc'[f] \in {"receiving", "refused"}
        /\ UNCHANGED <<incoming, stored, todo, failed, file_uploads, file_parts,
                      document, indexing>>
    BY <1>2 DEF CreateFileReference, Goto, Inv, TypeOK
  <2>2. \/ file_reference'[f] = file_reference[f] /\ pc'[f] = "refused"
        \/ /\ file_reference'[f] \in References
           /\ ~file_reference'[f].is_encrypted
           /\ ~file_reference'[f].is_fulltext_parsed
    <3>1. PICK outcome \in Outcomes, total \in Estimates(incoming[f]) :
            /\ file_reference' =
                 IF Applied(outcome)
                 THEN [file_reference EXCEPT ![f] =
                        [total_part |-> total, mime_type |-> "text",
                         is_encrypted |-> FALSE, is_fulltext_parsed |-> FALSE]]
                 ELSE file_reference
            /\ Goto(f, IF outcome = "ok" THEN "receiving" ELSE "refused")
      BY <1>2 DEF CreateFileReference
    <3>2. total \in Nat \cup {NULL}
      BY ShapeTypes DEF Inv, TypeOK
    <3> QED
      BY <3>1, <3>2 DEF Applied, Goto, Inv, TypeOK, References
  <2>3. FileInv(f)
    BY DEF Inv
  <2> QED
    BY <2>1, <2>2, <2>3, NoRowAssumption
       DEF FileInv, UploadsKept, PartsWritten, RowWritten, Outcome, All,
           Encrypted, Exists, Handler, Running, Forward, Undo
<1>3. CASE StoreGroup(f)
  BY <1>3, ShapeTypes, GroupAssumption
     DEF StoreGroup, StoreBlocks, FileInv, UploadsKept, PartsWritten, RowWritten, Outcome,
         All, Encrypted, Exists, Inv, TypeOK, Goto, Proceed, tables, Applied,
         Handler, Running, Forward, Undo
<1>4. CASE EndOfUpload(f)
  <2>1. /\ pc[f] = "receiving"
        /\ pc'[f] \in {"encrypt_query", "abandoned"}
        /\ UNCHANGED <<incoming, todo, failed, file_reference, file_parts, document,
                      indexing>>
    BY <1>4 DEF EndOfUpload, Goto, Inv, TypeOK
  <2>2. \/ UNCHANGED <<file_uploads, stored>>
        \/ StoreBlocks(f, incoming[f].full + 1)
    BY <1>4 DEF EndOfUpload
  <2>3. stored[f] \in Nat /\ file_uploads[f] = All(f) /\ incoming[f].full \in Nat
    BY <2>1, ShapeTypes DEF Inv, TypeOK, FileInv, UploadsKept
  <2>4. file_uploads'[f] = All(f)'
    <3>1. CASE UNCHANGED <<file_uploads, stored>>
      BY <2>3, <3>1 DEF All
    <3>2. CASE StoreBlocks(f, incoming[f].full + 1)
      <4>1. /\ file_uploads'[f] = (0 .. (stored[f] - 1)) \cup stored[f] .. incoming[f].full
            /\ stored'[f] = incoming[f].full + 1
        BY <2>3, <3>2 DEF StoreBlocks, All, Inv, TypeOK
      <4>2. stored[f] <= incoming[f].full + 1
        BY <2>1, <2>3 DEF Inv, FileInv, UploadsKept
      <4> QED
        BY <2>3, <4>1, <4>2 DEF All
    <3> QED
      BY <2>2, <3>1, <3>2
  <2>5. FileInv(f)
    BY DEF Inv
  <2> QED
    BY <2>1, <2>4, <2>5
       DEF FileInv, UploadsKept, PartsWritten, RowWritten, Outcome, All,
           Encrypted, Exists, Handler, Running, Forward, Undo
<1>5. CASE Abandon(f)
  BY <1>5
     DEF Abandon, FileInv, UploadsKept, PartsWritten, RowWritten, Outcome,
         All, Encrypted, Exists, Inv, TypeOK, Goto, Proceed, tables, Applied,
         Handler, Running, Forward, Undo
<1>6. CASE EncryptQuery(f)
  BY <1>6
     DEF EncryptQuery, FileInv, UploadsKept, PartsWritten, RowWritten, Outcome,
         All, Encrypted, Exists, Inv, TypeOK, Goto, Proceed, tables, Applied,
         Handler, Running, Forward, Undo
<1>7. CASE WritePart(f)
  BY <1>7
     DEF WritePart, FileInv, UploadsKept, PartsWritten, RowWritten, Outcome,
         All, Encrypted, Exists, Inv, TypeOK, Goto, Proceed, tables, Applied,
         Handler, Running, Forward, Undo
<1>8. CASE EncryptDone(f)
  BY <1>8
     DEF EncryptDone, FileInv, UploadsKept, PartsWritten, RowWritten, Outcome,
         All, Encrypted, Exists, Inv, TypeOK, Goto, Proceed, tables, Applied,
         Handler, Running, Forward, Undo
<1>9. CASE ParseContent(f)
  BY <1>9
     DEF ParseContent, FileInv, UploadsKept, PartsWritten, RowWritten, Outcome,
         All, Encrypted, Exists, Inv, TypeOK, Goto, Proceed, tables, Applied,
         Handler, Running, Forward, Undo
<1>10. CASE InsertMetadata(f)
  BY <1>10
     DEF InsertMetadata, FileInv, UploadsKept, PartsWritten, RowWritten, Outcome,
         All, Encrypted, Exists, Inv, TypeOK, Goto, Proceed, tables, Applied,
         Handler, Running, Forward, Undo
<1>11. CASE SendText(f)
  BY <1>11
     DEF SendText, FileInv, UploadsKept, PartsWritten, RowWritten, Outcome,
         All, Encrypted, Exists, Inv, TypeOK, Goto, Proceed, tables, Applied,
         Handler, Running, Forward, Undo
<1>12. CASE TextIndexed(f)
  BY <1>12
     DEF TextIndexed, FileInv, UploadsKept, PartsWritten, RowWritten, Outcome,
         All, Encrypted, Exists, Inv, TypeOK, Goto, Proceed, tables, Applied,
         Handler, Running, Forward, Undo
<1>13. CASE TextTimeout(f)
  BY <1>13
     DEF TextTimeout, FileInv, UploadsKept, PartsWritten, RowWritten, Outcome,
         All, Encrypted, Exists, Inv, TypeOK, Goto, Proceed, tables, Applied,
         Handler, Running, Forward, Undo
<1>14. CASE SetIndicator(f)
  <2>1. file_reference[f] \in References
    BY <1>14, RowExists DEF SetIndicator, Running, Forward
  <2>2. /\ pc[f] = "indicator"
        /\ \/ pc'[f] = "update" /\ failed'[f] = failed[f]
           \/ pc'[f] = "undo_parts" /\ failed'[f]
        /\ UNCHANGED <<incoming, stored, todo, file_uploads, file_parts, document,
                      indexing>>
    BY <1>14 DEF SetIndicator, Goto, Proceed, Inv, TypeOK
  <2>3. /\ file_reference'[f] \in References
        /\ file_reference'[f].is_encrypted = file_reference[f].is_encrypted
        /\ file_reference'[f].mime_type = file_reference[f].mime_type
    <3>1. \/ file_reference' = [file_reference EXCEPT ![f].is_fulltext_parsed = TRUE]
          \/ file_reference' = file_reference
      BY <1>14 DEF SetIndicator
    <3>2. file_reference'[f] \in {file_reference[f],
                                 [file_reference[f] EXCEPT !.is_fulltext_parsed = TRUE]}
      BY <3>1 DEF Inv, TypeOK
    <3> QED
      BY <2>1, <3>2 DEF References
  <2>4. FileInv(f)
    BY DEF Inv
  <2> QED
    BY <2>1, <2>2, <2>3, <2>4, NoRowAssumption
       DEF FileInv, UploadsKept, PartsWritten, RowWritten, Outcome, All,
           Encrypted, Exists, Handler, Running, Forward, Undo
<1>15. CASE UpdateReference(f)
  <2> DEFINE new == Updated(file_reference[f], BlockCount(incoming[f]), "media")
  <2>1. file_reference[f] \in References
    BY <1>15, RowExists DEF UpdateReference, Running, Forward
  <2>2. /\ new \in References
        /\ new.is_encrypted
        /\ new.mime_type = "media"
        /\ new.is_fulltext_parsed = file_reference[f].is_fulltext_parsed
    <3>1. BlockCount(incoming[f]) \in Nat
      BY ShapeTypes DEF Inv, TypeOK
    <3>2. "media" \in {"text", "media"}
      OBVIOUS
    <3> QED
      BY <2>1, <3>1, <3>2, UpdatedType
  <2> HIDE DEF new
  <2>3. /\ pc[f] = "update"
        /\ \/ pc'[f] = "cleanup" /\ failed'[f] = failed[f] /\ file_reference'[f] = new
           \/ pc'[f] = "undo_parts" /\ failed'[f]
        /\ UNCHANGED <<incoming, stored, todo, file_uploads, file_parts, document,
                      indexing>>
    BY <1>15 DEF new, UpdateReference, Goto, Proceed, Applied, Inv, TypeOK
  <2>4. file_reference'[f] \in {file_reference[f], new}
    BY <1>15 DEF new, UpdateReference, Inv, TypeOK
  <2>5. FileInv(f)
    BY DEF Inv
  <2> QED
    BY <2>1, <2>2, <2>3, <2>4, <2>5, NoRowAssumption
       DEF FileInv, UploadsKept, PartsWritten, RowWritten, Outcome, All,
           Encrypted, Exists, Handler, Running, Forward, Undo
<1>16. CASE UndoParts(f)
  BY <1>16
     DEF UndoParts, FileInv, UploadsKept, PartsWritten, RowWritten, Outcome,
         All, Encrypted, Exists, Inv, TypeOK, Goto, Proceed, tables, Applied,
         Handler, Running, Forward, Undo
<1>17. CASE UndoMetadata(f)
  BY <1>17
     DEF UndoMetadata, FileInv, UploadsKept, PartsWritten, RowWritten, Outcome,
         All, Encrypted, Exists, Inv, TypeOK, Goto, Proceed, tables, Applied,
         Handler, Running, Forward, Undo
<1>18. CASE UndoReference(f)
  <2> DEFINE new == Updated(file_reference[f], 0, "text")
  <2>1. file_reference[f] \in References
    BY <1>18, RowExists DEF UndoReference, Running, Undo
  <2>2. /\ new \in References
        /\ new.is_encrypted
        /\ new.mime_type = "text"
        /\ new.is_fulltext_parsed = file_reference[f].is_fulltext_parsed
    <3>1. BlockCount(incoming[f]) \in Nat
      BY ShapeTypes DEF Inv, TypeOK
    <3>2. "media" \in {"text", "media"}
      OBVIOUS
    <3> QED
      BY <2>1, <3>1, <3>2, UpdatedType
  <2> HIDE DEF new
  <2>3. /\ pc[f] = "undo_reference"
        /\ pc'[f] = "undo_documents"
        /\ UNCHANGED <<incoming, stored, todo, failed, file_uploads, file_parts,
                      document, indexing>>
    BY <1>18 DEF new, UndoReference, Goto, Inv, TypeOK
  <2>4. file_reference'[f] \in {file_reference[f], new}
    BY <1>18 DEF new, UndoReference, Inv, TypeOK
  <2>5. FileInv(f)
    BY DEF Inv
  <2> QED
    BY <2>1, <2>2, <2>3, <2>4, <2>5, NoRowAssumption
       DEF FileInv, UploadsKept, PartsWritten, RowWritten, Outcome, All,
           Encrypted, Exists, Handler, Running, Forward, Undo
<1>19. CASE UndoDocuments(f)
  BY <1>19
     DEF UndoDocuments, FileInv, UploadsKept, PartsWritten, RowWritten, Outcome,
         All, Encrypted, Exists, Inv, TypeOK, Goto, Proceed, tables, Applied,
         Handler, Running, Forward, Undo
<1>20. CASE Cleanup(f)
  BY <1>20
     DEF Cleanup, FileInv, UploadsKept, PartsWritten, RowWritten, Outcome,
         All, Encrypted, Exists, Inv, TypeOK, Goto, Proceed, tables, Applied,
         Handler, Running, Forward, Undo
<1>21. CASE AcceptText(f)
  BY <1>21, SMTT(20)
     DEF AcceptText, FileInv, UploadsKept, PartsWritten, RowWritten, Outcome,
         All, Encrypted, Exists, Inv, TypeOK, Goto, Proceed, tables, Applied,
         Handler, Running, Forward, Undo
<1>22. CASE IndexText(f)
  BY <1>22
     DEF IndexText, FileInv, UploadsKept, PartsWritten, RowWritten, Outcome,
         All, Encrypted, Exists, Inv, TypeOK, Goto, Proceed, tables, Applied,
         Handler, Running, Forward, Undo
<1>23. CASE DropText(f)
  BY <1>23
     DEF DropText, FileInv, UploadsKept, PartsWritten, RowWritten, Outcome,
         All, Encrypted, Exists, Inv, TypeOK, Goto, Proceed, tables, Applied,
         Handler, Running, Forward, Undo
<1> QED
  BY <1>1, <1>2, <1>3, <1>4, <1>5, <1>6, <1>7, <1>8, <1>9, <1>10, <1>11,
     <1>12, <1>13, <1>14, <1>15, <1>16, <1>17, <1>18, <1>19, <1>20, <1>21, <1>22, <1>23
     DEF Step, Upload, Task, DocumentServer

-----------------------------------------------------------------------------
(* The inductive invariant *)

LEMMA InvInit == Init => Inv
<1> SUFFICES ASSUME Init PROVE Inv
  OBVIOUS
<1>1. TypeOK
  BY DEF Init, TypeOK, Steps, Handler
<1>2. ASSUME NEW f \in Files PROVE FileInv(f)
  <2>1. incoming[f].full \in Nat
    BY ShapeTypes DEF Init
  <2> QED
    BY <2>1 DEF Init, FileInv, UploadsKept, PartsWritten, RowWritten, Outcome,
       All, Encrypted, Exists, Handler, Running, Forward, Undo
<1> QED
  BY <1>1, <1>2 DEF Inv

(* The process dies: the tables stay, and every pc that moves is "crashed". *)
LEMMA CrashStep == Inv /\ Crash => Inv'
<1> SUFFICES ASSUME Inv, Crash PROVE Inv'
  OBVIOUS
<1>1. TypeOK'
  BY DEF Inv, TypeOK, Crash, tables, Steps
<1>2. ASSUME NEW f \in Files PROVE FileInv(f)'
  <2>1. FileInv(f)
    BY DEF Inv
  <2>2. pc'[f] = pc[f] \/ (pc'[f] = "crashed" /\ pc[f] # "ended")
    BY DEF Crash, Running, Forward, Undo, Inv, TypeOK
  <2> QED
    BY <2>1, <2>2 DEF Crash, tables, FileInv, UploadsKept, PartsWritten, RowWritten,
       Outcome, All, Encrypted, Exists, Handler, Running, Forward, Undo
<1> QED
  BY <1>1, <1>2 DEF Inv

LEMMA InvStep == Inv /\ [Next]_vars => Inv'
<1> SUFFICES ASSUME Inv, [Next]_vars PROVE Inv'
  OBVIOUS
<1>1. ASSUME NEW f \in Files, Step(f)
      PROVE  Inv'
  <2>1. TypeOK'
    BY <1>1, TypeStep
  <2>2. ASSUME NEW g \in Files PROVE FileInv(g)'
    <3>1. CASE g = f
      BY <1>1, <3>1, FileStep
    <3>2. CASE g # f
      <4>1. FileInv(g) /\ Same(g)
        BY <1>1, <3>2, OthersAreSame DEF Inv
      <4> QED
        BY <4>1, SameKeeps
    <3> QED
      BY <3>1, <3>2
  <2> QED
    BY <2>1, <2>2 DEF Inv
<1>2. CASE TerminateSession \/ UNCHANGED vars
  <2>1. /\ UNCHANGED <<pc, incoming, stored, todo, failed, missed, tables, indexing>>
        /\ session' \in {session, "terminated"}
    BY <1>2 DEF TerminateSession, vars
  <2>2. TypeOK'
    BY <2>1 DEF Inv, TypeOK, tables
  <2>3. ASSUME NEW g \in Files PROVE FileInv(g)'
    BY <2>1, SameKeeps DEF Inv, Same, tables
  <2> QED
    BY <2>2, <2>3 DEF Inv
<1>3. CASE Crash
  BY <1>3, CrashStep
<1> QED
  BY <1>1, <1>2, <1>3 DEF Next, Step

(* The inductive invariant holds in every execution. *)
THEOREM InvHolds == Spec => []Inv
<1>1. Init => Inv
  BY InvInit
<1>2. Inv /\ [Next]_vars => Inv'
  BY InvStep
<1> QED
  BY <1>1, <1>2, PTL DEF Spec

-----------------------------------------------------------------------------
(* What the clients rely on *)

(***************************************************************************)
(* Type correctness of the pipeline: the tables only ever hold rows of     *)
(* their types, whatever fails.                                            *)
(***************************************************************************)
THEOREM TypeCorrect == Spec => []TypeOK
<1>1. Inv => TypeOK
  BY DEF Inv
<1> QED
  BY <1>1, InvHolds, PTL

(***************************************************************************)
(* A download gives all the blocks of the upload or none, for any number   *)
(* of uploads, whatever fails and wherever the task is.                    *)
(***************************************************************************)
THEOREM DownloadsAreWhole == Spec => []DownloadIsWhole
<1>1. Inv => DownloadIsWhole
  BY DEF Inv, FileInv, RowWritten, Encrypted, All, DownloadIsWhole, Downloadable,
     Download
<1> QED
  BY <1>1, InvHolds, PTL

(***************************************************************************)
(* Until a rollback, every block is still in the uploads or in the parts   *)
(* of a file marked as encrypted.                                          *)
(***************************************************************************)
THEOREM BlocksAreKept == Spec => []NoBlockIsDropped
<1>1. Inv => NoBlockIsDropped
  <2> SUFFICES ASSUME Inv, NEW f \in Files, ~failed[f]
               PROVE  All(f) \subseteq file_uploads[f] \cup
                        (IF Encrypted(f) THEN file_parts[f] ELSE {})
    BY DEF NoBlockIsDropped, All, Encrypted
  <2>1. CASE pc[f] = "ended"
    BY <2>1 DEF Inv, FileInv, Outcome
  <2>2. CASE pc[f] # "ended"
    BY <2>2 DEF Inv, FileInv, UploadsKept
  <2> QED
    BY <2>1, <2>2
<1> QED
  BY <1>1, InvHolds, PTL

(***************************************************************************)
(* The exit condition a client polls for is only met when the task is      *)
(* over, with the file to download or rolled back.                         *)
(***************************************************************************)
THEOREM ExitIsFinal == Spec => []ExitConditionIsFinal
<1>1. Inv => ExitConditionIsFinal
  <2> SUFFICES ASSUME Inv, NEW f \in Files,
                      pc[f] \in Running \cup {"ended", "crashed"},
                      BlockCount(incoming[f]) > 0,
                      ExitCondition(f)
               PROVE  pc[f] = "ended" /\ (Downloadable(f) \/ failed[f])
    BY DEF ExitConditionIsFinal
  <2>1. /\ FileInv(f)
        /\ stored[f] \in Nat
        /\ Exists(f)
        /\ Cardinality(file_parts[f]) > 0
        /\ Cardinality(file_uploads[f]) = 0
    BY DEF Inv, TypeOK, ExitCondition, HasStats, Stats
  <2>2. /\ IsFiniteSet(All(f))
        /\ Cardinality(All(f)) = stored[f]
    <3>1. 0 \in Int /\ stored[f] - 1 \in Int
      BY <2>1
    <3>2. /\ IsFiniteSet(0 .. (stored[f] - 1))
          /\ Cardinality(0 .. (stored[f] - 1)) =
               IF 0 > stored[f] - 1 THEN 0 ELSE (stored[f] - 1) - 0 + 1
      BY <3>1, FS_Interval
    <3> QED
      BY <2>1, <3>2 DEF All
  <2>3. stored[f] > 0
    <3>1. file_parts[f] \subseteq All(f)
      BY <2>1 DEF FileInv, PartsWritten
    <3>2. Cardinality(file_parts[f]) <= stored[f]
      BY <2>2, <3>1, FS_Subset
    <3>3. Cardinality(file_parts[f]) \in Nat
      BY <2>2, <3>1, FS_Subset, FS_CardinalityType
    <3> QED
      BY <2>1, <3>2, <3>3
  <2>4. pc[f] = "ended"
    BY <2>1, <2>2, <2>3 DEF FileInv, UploadsKept
  <2>5. ASSUME ~failed[f] PROVE Downloadable(f)
    <3>1. /\ file_parts[f] = All(f)
          /\ file_reference[f].is_encrypted
          /\ file_reference[f].mime_type # "text"
      BY <2>1, <2>4, <2>5 DEF FileInv, Outcome, Encrypted
    <3>2. Cardinality(file_parts[f]) = stored[f]
      BY <2>2, <3>1
    <3>3. file_parts[f] = 0 .. (Cardinality(file_parts[f]) - 1)
      BY <3>1, <3>2 DEF All
    <3>4. file_parts[f] # {}
      BY <2>1, <2>3, <3>1 DEF All
    <3> QED
      BY <2>1, <3>1, <3>3, <3>4 DEF Downloadable
  <2> QED
    BY <2>4, <2>5
<1> QED
  BY <1>1, InvHolds, PTL

-----------------------------------------------------------------------------
(***************************************************************************)
(* The pipeline implements the store its clients rely on, and the progress *)
(* that is shown while it works is a percentage.  The first rests on the   *)
(* invariant above alone.  Path says how far one step can take a file,     *)
(* Moves what that is for a client.                                        *)
(***************************************************************************)

(* Nothing can be downloaded before the last step, and then all or nothing. *)
AllOrNothing ==
  \A f \in Files :
    /\ pc[f] \in Handler \cup Forward => ~Downloadable(f)
    /\ Download(f) = IF Downloadable(f) THEN All(f) ELSE {}

LEMMA InvOffers == Inv => AllOrNothing
<1> SUFFICES ASSUME Inv, NEW f \in Files
             PROVE  /\ pc[f] \in Handler \cup Forward => ~Downloadable(f)
                    /\ Download(f) = IF Downloadable(f) THEN All(f) ELSE {}
  BY DEF AllOrNothing
<1>1. FileInv(f)
  BY DEF Inv
<1> QED
  BY <1>1 DEF FileInv, RowWritten, Encrypted, Downloadable, Download

(* A step that no reader of the file can see. *)
Kept(f) ==
  /\ pc'[f] = pc[f]
  /\ failed'[f] = failed[f]
  /\ stored'[f] = stored[f]
  /\ file_reference'[f] = file_reference[f]
  /\ file_parts'[f] = file_parts[f]

(* The ways through the handler, the task and its rollback. *)
Path(f) ==
  \/ Kept(f)
  \/ /\ pc[f] = "idle" /\ pc'[f] \in {"authorised", "refused"}
     /\ stored'[f] = stored[f]
  \/ /\ pc[f] = "authorised" /\ pc'[f] \in {"receiving", "refused"}
     /\ stored'[f] = stored[f]
  \/ /\ pc[f] = "receiving" /\ pc'[f] \in {"receiving", "encrypt_query", "abandoned"}
     /\ stored[f] <= stored'[f]
  \/ /\ pc[f] \in Forward /\ pc'[f] \in Forward \cup {"undo_parts", "cleanup"}
     /\ ~failed[f] /\ failed'[f] = (pc'[f] = "undo_parts")
     /\ stored'[f] = stored[f]
  \/ /\ pc[f] \in Undo /\ pc'[f] \in Undo \cup {"cleanup"}
     /\ failed[f] /\ failed'[f]
     /\ stored'[f] = stored[f]
     /\ Downloadable(f)' => Downloadable(f)
  \/ /\ pc[f] = "cleanup" /\ pc'[f] = "ended"
     /\ failed'[f] = failed[f]
     /\ stored'[f] = stored[f]
     /\ file_reference'[f] = file_reference[f]
     /\ file_parts'[f] = file_parts[f]

LEMMA StepPath ==
  ASSUME Inv, NEW f \in Files, Step(f)
  PROVE  Path(f)
<1>a. /\ pc \in [Files -> Steps] /\ failed \in [Files -> BOOLEAN]
      /\ stored \in [Files -> Nat] /\ incoming[f].full \in Nat
      /\ stored[f] \in Nat
      /\ pc[f] \in {"idle", "authorised", "receiving"} => stored[f] <= incoming[f].full
      /\ pc[f] \in Undo => failed[f]
      /\ pc[f] \in Forward => ~failed[f]
  BY ShapeTypes DEF Inv, TypeOK, FileInv, UploadsKept, Outcome
<1>1. CASE Authorise(f)
  BY <1>a, <1>1
     DEF Authorise, Path, Kept, Goto, tables
<1>2. CASE CreateFileReference(f)
  BY <1>a, <1>2
     DEF CreateFileReference, Path, Kept, Goto, tables
<1>3. CASE StoreGroup(f)
  BY <1>a, <1>3, GroupAssumption
     DEF StoreGroup, StoreBlocks, Path, Kept, tables
<1>4. CASE EndOfUpload(f)
  BY <1>a, <1>4
     DEF EndOfUpload, StoreBlocks, Path, Kept, Goto, tables
<1>5. CASE Abandon(f)
  BY <1>a, <1>5
     DEF Abandon, Path, Kept, Goto, tables
<1>6. CASE EncryptQuery(f)
  BY <1>a, <1>6
     DEF EncryptQuery, Path, Kept, Goto, Proceed, tables, Forward
<1>7. CASE WritePart(f)
  BY <1>a, <1>7
     DEF WritePart, Path, Kept, Goto, Proceed, tables, Forward
<1>8. CASE EncryptDone(f)
  BY <1>a, <1>8
     DEF EncryptDone, Path, Kept, Goto, tables, Forward
<1>9. CASE ParseContent(f)
  BY <1>a, <1>9
     DEF ParseContent, Path, Kept, Goto, Proceed, tables, Forward
<1>10. CASE InsertMetadata(f)
  BY <1>a, <1>10
     DEF InsertMetadata, Path, Kept, Goto, Proceed, tables, Forward
<1>11. CASE SendText(f)
  BY <1>a, <1>11
     DEF SendText, Path, Kept, Goto, tables, Forward
<1>12. CASE TextIndexed(f)
  BY <1>a, <1>12
     DEF TextIndexed, Path, Kept, Goto, Proceed, tables, Forward
<1>13. CASE TextTimeout(f)
  BY <1>a, <1>13
     DEF TextTimeout, Path, Kept, Goto, Proceed, tables, Forward
<1>14. CASE SetIndicator(f)
  BY <1>a, <1>14
     DEF SetIndicator, Path, Kept, Goto, Proceed, tables, Forward
<1>15. CASE UpdateReference(f)
  BY <1>a, <1>15
     DEF UpdateReference, Path, Kept, Goto, Proceed, tables, Forward
<1>16. CASE UndoParts(f)
  <2>1. Downloadable(f)' => Downloadable(f)
    BY <1>16 DEF UndoParts, Inv, TypeOK, Downloadable, Exists
  <2> QED
    BY <1>a, <1>16, <2>1 DEF UndoParts, Path, Goto, Undo
<1>17. CASE UndoMetadata(f)
  <2>1. Downloadable(f)' => Downloadable(f)
    BY <1>17 DEF UndoMetadata, Downloadable, Exists
  <2> QED
    BY <1>a, <1>17, <2>1 DEF UndoMetadata, Path, Goto, Undo
<1>18. CASE UndoReference(f)
  <2>1. Downloadable(f)' => Downloadable(f)
    <3>1. file_reference[f] \in References
      BY <1>18, RowExists DEF UndoReference, Running, Undo
    <3>2. Updated(file_reference[f], 0, "text").mime_type = "text"
      BY <3>1, UpdatedType
    <3>3. /\ file_reference'[f] \in {file_reference[f], Updated(file_reference[f], 0, "text")}
          /\ file_parts'[f] = file_parts[f]
      BY <1>18 DEF UndoReference, Inv, TypeOK
    <3> QED
      BY <3>2, <3>3 DEF Downloadable, Exists
  <2> QED
    BY <1>a, <1>18, <2>1 DEF UndoReference, Path, Goto, Undo
<1>19. CASE UndoDocuments(f)
  <2>1. Downloadable(f)' => Downloadable(f)
    BY <1>19 DEF UndoDocuments, Downloadable, Exists
  <2> QED
    BY <1>a, <1>19, <2>1 DEF UndoDocuments, Path, Goto, Undo
<1>20. CASE Cleanup(f)
  BY <1>a, <1>20
     DEF Cleanup, Path, Kept, Goto, tables
<1>21. CASE AcceptText(f)
  BY <1>a, <1>21
     DEF AcceptText, Path, Kept, tables
<1>22. CASE IndexText(f)
  BY <1>a, <1>22
     DEF IndexText, Path, Kept, tables
<1>23. CASE DropText(f)
  BY <1>a, <1>23
     DEF DropText, Path, Kept, tables
<1> QED
  BY <1>1, <1>2, <1>3, <1>4, <1>5, <1>6, <1>7, <1>8, <1>9, <1>10, <1>11, <1>12,
     <1>13, <1>14, <1>15, <1>16, <1>17, <1>18, <1>19, <1>20, <1>21, <1>22, <1>23
     DEF Step, Upload, Task, DocumentServer

(* What a step can be to a client of the file: nothing, ... *)
Stays(f) ==
  /\ Status(f)' = Status(f)
  /\ stored'[f] = stored[f]
  /\ Download(f)' = Download(f)

(* ... the beginning of the upload, ... *)
Begins(f) ==
  /\ Status(f) = "absent" /\ Status(f)' = "incoming"
  /\ stored'[f] = stored[f]
  /\ Download(f)' = Download(f)

(* ... some of its blocks, ... *)
Receives(f) ==
  /\ Status(f) = "incoming" /\ Status(f)' \in {"incoming", "processing", "failed"}
  /\ stored[f] <= stored'[f]
  /\ Download(f)' = Download(f)

(* ... all of them at once, ... *)
Publishes(f) ==
  /\ Status(f) = "processing" /\ Status(f)' \in {"available", "doubtful"}
  /\ stored'[f] = stored[f]
  /\ Download(f)' = All(f)

(* ... the rollback of what was published, ... *)
Withdraws(f) ==
  /\ Status(f) = "doubtful" /\ Status(f)' = "failed"
  /\ stored'[f] = stored[f]
  /\ Download(f)' = {}

(* ... which may be left as it is, ... *)
Keeps(f) ==
  /\ Status(f) = "doubtful" /\ Status(f)' = "available"
  /\ stored'[f] = stored[f]
  /\ Download(f)' = Download(f)

(* ... or the end without a file. *)
Fails(f) ==
  /\ Status(f) \in {"absent", "incoming", "processing"} /\ Status(f)' = "failed"
  /\ stored'[f] = stored[f]
  /\ Download(f)' = Download(f)

Moves(f) ==
  \/ Stays(f) \/ Begins(f) \/ Receives(f) \/ Publishes(f)
  \/ Withdraws(f) \/ Keeps(f) \/ Fails(f)

LEMMA KeptStays ==
  ASSUME NEW f \in Files, Kept(f)
  PROVE  Stays(f)
BY DEF Kept, Stays, Status, Download, Downloadable, Exists

LEMMA PathMoves ==
  ASSUME TypeOK, AllOrNothing, AllOrNothing', NEW f \in Files, Path(f)
  PROVE  Moves(f)
<1> USE DEF Running
<1>a. /\ pc[f] \in Handler \cup Forward => ~Downloadable(f)
      /\ pc'[f] \in Handler \cup Forward => ~Downloadable(f)'
      /\ Download(f) = IF Downloadable(f) THEN All(f) ELSE {}
      /\ Download(f)' = IF Downloadable(f)' THEN All(f)' ELSE {}
  BY DEF AllOrNothing
<1>b. stored'[f] = stored[f] => All(f)' = All(f)
  BY DEF All
<1>1. CASE Kept(f)
  BY <1>1, KeptStays DEF Moves
<1>2. CASE /\ pc[f] = "idle" /\ pc'[f] \in {"authorised", "refused"}
           /\ stored'[f] = stored[f]
  BY <1>a, <1>2 DEF Moves, Stays, Fails, Status, Handler, Forward, Undo
<1>3. CASE /\ pc[f] = "authorised" /\ pc'[f] \in {"receiving", "refused"}
           /\ stored'[f] = stored[f]
  BY <1>a, <1>3 DEF Moves, Begins, Fails, Status, Handler, Forward, Undo
<1>4. CASE /\ pc[f] = "receiving"
           /\ pc'[f] \in {"receiving", "encrypt_query", "abandoned"}
           /\ stored[f] <= stored'[f]
  BY <1>a, <1>4 DEF Moves, Receives, Status, Handler, Forward, Undo
<1>5. CASE /\ pc[f] \in Forward /\ pc'[f] \in Forward \cup {"undo_parts", "cleanup"}
           /\ ~failed[f] /\ failed'[f] = (pc'[f] = "undo_parts")
           /\ stored'[f] = stored[f]
  <2>1. Status(f) = "processing"
    BY <1>a, <1>5 DEF Status, Forward
  <2>2. Status(f)' = IF Downloadable(f)'
                     THEN IF failed'[f] THEN "doubtful" ELSE "available"
                     ELSE IF failed'[f] THEN "failed" ELSE "processing"
    BY <1>5 DEF Status, Forward, Undo
  <2> QED
    BY <1>a, <1>b, <1>5, <2>1, <2>2 DEF Moves, Stays, Publishes, Fails
<1>6. CASE /\ pc[f] \in Undo /\ pc'[f] \in Undo \cup {"cleanup"}
           /\ failed[f] /\ failed'[f]
           /\ stored'[f] = stored[f]
           /\ Downloadable(f)' => Downloadable(f)
  <2>1. Status(f) = IF Downloadable(f) THEN "doubtful" ELSE "failed"
    BY <1>6 DEF Status, Undo
  <2>2. Status(f)' = IF Downloadable(f)' THEN "doubtful" ELSE "failed"
    BY <1>6 DEF Status, Undo
  <2> QED
    BY <1>a, <1>b, <1>6, <2>1, <2>2 DEF Moves, Stays, Withdraws
<1>7. CASE /\ pc[f] = "cleanup" /\ pc'[f] = "ended"
           /\ failed'[f] = failed[f]
           /\ stored'[f] = stored[f]
           /\ file_reference'[f] = file_reference[f]
           /\ file_parts'[f] = file_parts[f]
  <2>1. Downloadable(f)' = Downloadable(f)
    BY <1>7 DEF Downloadable, Exists
  <2>2. Status(f) = IF Downloadable(f)
                    THEN IF failed[f] THEN "doubtful" ELSE "available"
                    ELSE IF failed[f] THEN "failed" ELSE "processing"
    BY <1>7 DEF Status
  <2>3. Status(f)' = IF Downloadable(f) THEN "available" ELSE "failed"
    BY <1>7, <2>1 DEF Status, Forward, Undo
  <2> QED
    BY <1>a, <1>b, <1>7, <2>1, <2>2, <2>3 DEF Moves, Stays, Keeps, Fails
<1> QED
  BY <1>1, <1>2, <1>3, <1>4, <1>5, <1>6, <1>7 DEF Path

-----------------------------------------------------------------------------
(* From a file to the store *)

LEMMA MovesStore ==
  ASSUME TypeOK, TypeOK', NEW f \in Files, Moves(f),
         \A g \in Files \ {f} : Stays(g)
  PROVE  [Store!Next]_(Store!vars)
<1> DEFINE status == [g \in Files |-> Status(g)]
           content == [g \in Files |-> Download(g)]
<1>1. /\ status' = [status EXCEPT ![f] = Status(f)']
      /\ content' = [content EXCEPT ![f] = Download(f)']
      /\ stored' = [stored EXCEPT ![f] = stored'[f]]
  BY DEF TypeOK, Stays
<1>2. ASSUME Download(f)' = Download(f) PROVE content' = content
  BY <1>1, <1>2
<1>3. ASSUME stored'[f] = stored[f] PROVE stored' = stored
  BY <1>1, <1>3 DEF TypeOK
<1>4. CASE Stays(f)
  <2>1. status' = status
    BY <1>1, <1>4 DEF Stays
  <2>2. content' = content /\ stored' = stored
    BY <1>2, <1>3, <1>4 DEF Stays
  <2> QED
    BY <2>1, <2>2 DEF Store!vars
<1>5. CASE Begins(f)
  <2>1. content' = content /\ stored' = stored
    BY <1>2, <1>3, <1>5 DEF Begins
  <2>2. Store!Begin(f)
    BY <1>1, <1>5, <2>1 DEF Store!Begin, Store!Become, Begins
  <2> QED
    BY <2>2 DEF Store!Next, Store!Step
<1>6. CASE Receives(f)
  <2>1. content' = content
    BY <1>2, <1>6 DEF Receives
  <2>2. Store!Receive(f)
    BY <1>1, <1>6, <2>1 DEF Store!Receive, Store!Become, Receives
  <2> QED
    BY <2>2 DEF Store!Next, Store!Step
<1>7. CASE Publishes(f)
  <2>1. stored' = stored
    BY <1>3, <1>7 DEF Publishes
  <2>2. Store!Publish(f)
    BY <1>1, <1>7, <2>1 DEF Store!Publish, Store!Become, Publishes, All
  <2> QED
    BY <2>2 DEF Store!Next, Store!Step
<1>8. CASE Withdraws(f)
  <2>1. stored' = stored
    BY <1>3, <1>8 DEF Withdraws
  <2>2. Store!Withdraw(f)
    BY <1>1, <1>8, <2>1 DEF Store!Withdraw, Store!Become, Withdraws
  <2> QED
    BY <2>2 DEF Store!Next, Store!Step
<1>9. CASE Keeps(f)
  <2>1. content' = content /\ stored' = stored
    BY <1>2, <1>3, <1>9 DEF Keeps
  <2>2. Store!Keep(f)
    BY <1>1, <1>9, <2>1 DEF Store!Keep, Store!Become, Keeps
  <2> QED
    BY <2>2 DEF Store!Next, Store!Step
<1>10. CASE Fails(f)
  <2>1. content' = content /\ stored' = stored
    BY <1>2, <1>3, <1>10 DEF Fails
  <2>2. Status(f) # "doubtful" /\ Store!Open(f)
    BY <1>10 DEF Store!Open, Fails
  <2>3. status' = [g \in Files |->
                    IF g \notin {f} THEN status[g]
                    ELSE IF status[g] = "doubtful" THEN "available" ELSE "failed"]
    BY <1>1, <1>10, <2>2 DEF Fails
  <2>4. {f} \in SUBSET {g \in Files : Store!Open(g)}
    BY <2>2
  <2>5. Store!Give_up
    BY <2>1, <2>3, <2>4 DEF Store!Give_up
  <2> QED
    BY <2>5 DEF Store!Next
<1> QED
  BY <1>4, <1>5, <1>6, <1>7, <1>8, <1>9, <1>10 DEF Moves

(***************************************************************************)
(* The process dies: what can be downloaded then is there for good, even   *)
(* of a file in its rollback, and all other open uploads have failed.      *)
(***************************************************************************)
LEMMA CrashStore ==
  ASSUME TypeOK, AllOrNothing, Crash
  PROVE  Store!Give_up
<1> DEFINE status == [g \in Files |-> Status(g)]
           content == [g \in Files |-> Download(g)]
           some == {g \in Files : /\ pc[g] \in Running \cup {"authorised", "receiving"}
                                  /\ Status(g) \notin {"available", "failed"}}
<1>1. ASSUME NEW g \in Files
      PROVE  /\ Downloadable(g)' = Downloadable(g)
             /\ Download(g)' = Download(g)
             /\ pc'[g] = IF pc[g] \in Running \cup {"authorised", "receiving"}
                         THEN "crashed" ELSE pc[g]
  BY DEF Crash, tables, Downloadable, Download, Exists
<1>2. ASSUME NEW g \in Files, pc[g] \in {"authorised", "receiving"}
      PROVE  ~Downloadable(g)
  BY <1>2 DEF AllOrNothing, Handler
<1>3. ASSUME NEW g \in Files, pc[g] \in Running \cup {"authorised", "receiving"}
      PROVE  Status(g)' = IF Downloadable(g) THEN "available" ELSE "failed"
  BY <1>1, <1>3 DEF Status, Running, Forward, Undo
<1>4. ASSUME NEW g \in some
      PROVE  /\ Status(g)' = IF Status(g) = "doubtful" THEN "available" ELSE "failed"
             /\ Status(g) \in {"absent", "incoming", "processing", "doubtful"}
  <2>1. CASE pc[g] \in {"authorised", "receiving"}
    BY <1>2, <1>3, <2>1 DEF Status, Running, Forward, Undo
  <2>2. CASE pc[g] \in Running
    <3>1. Status(g) = IF Downloadable(g)
                      THEN IF failed[g] THEN "doubtful" ELSE "available"
                      ELSE IF failed[g] THEN "failed" ELSE "processing"
      BY <2>2 DEF Status, Running, Forward, Undo
    <3> QED
      BY <1>3, <2>2, <3>1
  <2> QED
    BY <2>1, <2>2
<1>5. ASSUME NEW g \in Files, g \notin some
      PROVE  Status(g)' = Status(g)
  <2>1. CASE pc[g] \in {"authorised", "receiving"}
    BY <1>5, <2>1 DEF Status, Running, Forward, Undo
  <2>2. CASE pc[g] \in Running
    <3>1. Status(g) = IF Downloadable(g)
                      THEN IF failed[g] THEN "doubtful" ELSE "available"
                      ELSE IF failed[g] THEN "failed" ELSE "processing"
      BY <2>2 DEF Status, Running, Forward, Undo
    <3> QED
      BY <1>3, <1>5, <2>2, <3>1
  <2>3. CASE pc[g] \notin Running \cup {"authorised", "receiving"}
    BY <1>1, <2>3 DEF Status, Running
  <2> QED
    BY <2>1, <2>2, <2>3
<1>6. status' = [g \in Files |->
                  IF g \notin some THEN status[g]
                  ELSE IF status[g] = "doubtful" THEN "available" ELSE "failed"]
  BY <1>4, <1>5
<1>7. content' = content
  BY <1>1
<1>8. stored' = stored
  BY DEF Crash
<1>9. some \in SUBSET {g \in Files : Store!Open(g)}
  BY <1>4 DEF Store!Open
<1> HIDE DEF some
<1> QED
  BY <1>6, <1>7, <1>8, <1>9 DEF Store!Give_up

(* A step of the pipeline is a step of the store, or nothing that it shows. *)
LEMMA StoreStep ==
  Inv /\ Inv' /\ AllOrNothing /\ AllOrNothing' /\ [Next]_vars => [Store!Next]_(Store!vars)
<1> SUFFICES ASSUME Inv, Inv', AllOrNothing, AllOrNothing', [Next]_vars
             PROVE  [Store!Next]_(Store!vars)
  OBVIOUS
<1>a. TypeOK /\ TypeOK'
  BY DEF Inv
<1>1. ASSUME NEW f \in Files, Step(f)
      PROVE  [Store!Next]_(Store!vars)
  <2>1. Moves(f)
    BY <1>a, <1>1, StepPath, PathMoves
  <2>2. ASSUME NEW g \in Files \ {f} PROVE Stays(g)
    <3>1. Same(g)
      BY <1>1, OthersAreSame
    <3> QED
      BY <3>1, KeptStays DEF Same, Kept
  <2> QED
    BY <1>a, <2>1, <2>2, MovesStore
<1>2. CASE TerminateSession \/ UNCHANGED vars
  <2>1. UNCHANGED <<pc, failed, stored, tables>>
    BY <1>2 DEF TerminateSession, vars
  <2>2. ASSUME NEW g \in Files PROVE Stays(g)
    BY <2>1, KeptStays DEF Kept, tables
  <2> QED
    BY <2>1, <2>2 DEF Stays, Store!vars
<1>3. CASE Crash
  BY <1>a, <1>3, CrashStore DEF Store!Next
<1> QED
  BY <1>1, <1>2, <1>3 DEF Next, Step

LEMMA StoreInit == Init => Store!Init
<1> SUFFICES ASSUME Init PROVE Store!Init
  OBVIOUS
<1>1. \A f \in Files : Status(f) = "absent"
  BY DEF Init, Status, Running, Forward, Undo
<1>2. \A f \in Files : Download(f) = {}
  BY DEF Init, Download, Downloadable, Exists
<1> QED
  BY <1>1, <1>2 DEF Init, Store!Init

(***************************************************************************)
(* The pipeline implements FileStore: for a client there is no state in    *)
(* which a part of a file can be downloaded, a file that is available      *)
(* stays so, and an upload that has failed never comes back, whichever     *)
(* steps, faults and crashes there are between the transactions.  What can *)
(* be downloaded is all there at each moment, the doubtful file after a    *)
(* lost COMMIT included, which alone may be withdrawn, as a whole.         *)
(***************************************************************************)
THEOREM PipelineImplementsStore == Spec => ImplementsFileStore
<1>1. Init => Store!Init
  BY StoreInit
<1>2. Inv /\ Inv' /\ AllOrNothing /\ AllOrNothing' /\ [Next]_vars
        => [Store!Next]_(Store!vars)
  BY StoreStep
<1>3. Inv => AllOrNothing
  BY InvOffers
<1> QED
  BY <1>1, <1>2, <1>3, InvHolds, PTL DEF Spec, Store!Spec, ImplementsFileStore

-----------------------------------------------------------------------------
(* What the rollback leaves behind *)

(***************************************************************************)
(* Behind each step of the rollback, what it undoes is gone or noted; and  *)
(* the document-server does not work on a text behind the back of a task,  *)
(* unless that has been noted too.                                         *)
(***************************************************************************)
Noted(f) ==
  /\ pc[f] \in Handler => indexing[f] = "none"
  /\ pc[f] \in (Running \cup {"ended"}) \ {"fulltext_wait"} /\ indexing[f] \in {"sent", "running"} =>
       "document" \in missed[f]
  /\ failed[f] =>
       /\ pc[f] \in {"undo_metadata", "undo_reference", "undo_documents", "cleanup", "ended"} =>
            file_parts[f] = {} \/ "file_parts" \in missed[f]
       /\ pc[f] \in {"undo_reference", "undo_documents", "cleanup", "ended"} =>
            ~file_metadata[f] \/ "file_metadata" \in missed[f]
       /\ pc[f] \in {"undo_documents", "cleanup", "ended"} =>
            file_reference[f].mime_type = "text" \/ "file_reference" \in missed[f]
       /\ pc[f] \in {"cleanup", "ended"} => ~document[f] \/ "document" \in missed[f]

Noting == \A f \in Files : Noted(f)

LEMMA NotedStep ==
  ASSUME Inv, NEW f \in Files, Step(f), Noted(f)
  PROVE  Noted(f)'
<1> USE DEF Inv, TypeOK
<1>a. /\ FileInv(f)
      /\ pc[f] \in Handler \cup Forward => ~failed[f]
      /\ pc[f] \in Undo => failed[f]
  BY DEF FileInv, Outcome
<1>1. CASE Authorise(f)
  BY <1>a, <1>1 DEF Authorise, Noted, Goto, Proceed, Miss, Applied, tables,
     Handler, Running, Forward, Undo, Undone
<1>2. CASE CreateFileReference(f)
  BY <1>a, <1>2 DEF CreateFileReference, Noted, Goto, Proceed, Miss, Applied, tables,
     Handler, Running, Forward, Undo, Undone
<1>3. CASE StoreGroup(f)
  BY <1>a, <1>3 DEF StoreGroup, StoreBlocks, Noted, Goto, Proceed, Miss, Applied, tables,
     Handler, Running, Forward, Undo, Undone
<1>4. CASE EndOfUpload(f)
  BY <1>a, <1>4 DEF EndOfUpload, StoreBlocks, Noted, Goto, Proceed, Miss, Applied, tables,
     Handler, Running, Forward, Undo, Undone
<1>5. CASE Abandon(f)
  BY <1>a, <1>5 DEF Abandon, Noted, Goto, Proceed, Miss, Applied, tables,
     Handler, Running, Forward, Undo, Undone
<1>6. CASE EncryptQuery(f)
  BY <1>a, <1>6 DEF EncryptQuery, Noted, Goto, Proceed, Miss, Applied, tables,
     Handler, Running, Forward, Undo, Undone
<1>7. CASE WritePart(f)
  BY <1>a, <1>7 DEF WritePart, Noted, Goto, Proceed, Miss, Applied, tables,
     Handler, Running, Forward, Undo, Undone
<1>8. CASE EncryptDone(f)
  BY <1>a, <1>8 DEF EncryptDone, Noted, Goto, Proceed, Miss, Applied, tables,
     Handler, Running, Forward, Undo, Undone
<1>9. CASE ParseContent(f)
  BY <1>a, <1>9 DEF ParseContent, Noted, Goto, Proceed, Miss, Applied, tables,
     Handler, Running, Forward, Undo, Undone
<1>10. CASE InsertMetadata(f)
  BY <1>a, <1>10 DEF InsertMetadata, Noted, Goto, Proceed, Miss, Applied, tables,
     Handler, Running, Forward, Undo, Undone
<1>11. CASE SendText(f)
  BY <1>a, <1>11 DEF SendText, Noted, Goto, Proceed, Miss, Applied, tables,
     Handler, Running, Forward, Undo, Undone
<1>12. CASE TextIndexed(f)
  BY <1>a, <1>12 DEF TextIndexed, Noted, Goto, Proceed, Miss, Applied, tables,
     Handler, Running, Forward, Undo, Undone
<1>13. CASE TextTimeout(f)
  BY <1>a, <1>13 DEF TextTimeout, Noted, Goto, Proceed, Miss, Applied, tables,
     Handler, Running, Forward, Undo, Undone
<1>14. CASE SetIndicator(f)
  BY <1>a, <1>14 DEF SetIndicator, Noted, Goto, Proceed, Miss, Applied, tables,
     Handler, Running, Forward, Undo, Undone
<1>15. CASE UpdateReference(f)
  BY <1>a, <1>15 DEF UpdateReference, Noted, Goto, Proceed, Miss, Applied, tables,
     Handler, Running, Forward, Undo, Undone
<1>16. CASE UndoParts(f)
  <2>1. file_parts'[f] = {} \/ "file_parts" \in missed'[f]
    BY <1>16 DEF UndoParts, Miss, Undone
  <2>2. missed[f] \subseteq missed'[f]
    BY <1>16 DEF UndoParts, Miss
  <2>3. /\ pc[f] = "undo_parts" /\ pc'[f] = "undo_metadata"
        /\ failed'[f] = failed[f]
        /\ indexing'[f] = indexing[f]
    BY <1>16 DEF UndoParts, Goto
  <2> QED
    BY <1>a, <2>1, <2>2, <2>3 DEF Noted, Handler, Running, Forward, Undo
<1>17. CASE UndoMetadata(f)
  <2>1. ~file_metadata'[f] \/ "file_metadata" \in missed'[f]
    <3>1. PICK outcome \in Outcomes :
            /\ file_metadata' = [file_metadata EXCEPT ![f] = @ /\ ~Applied(outcome)]
            /\ Miss(f, "file_metadata", ~Applied(outcome))
      BY <1>17 DEF UndoMetadata
    <3>2. CASE Applied(outcome)
      BY <3>1, <3>2
    <3>3. CASE ~Applied(outcome)
      BY <3>1, <3>3 DEF Miss, Undone
    <3> QED
      BY <3>2, <3>3
  <2>2. missed[f] \subseteq missed'[f]
    BY <1>17 DEF UndoMetadata, Miss
  <2>3. /\ pc[f] = "undo_metadata" /\ pc'[f] = "undo_reference"
        /\ failed'[f] = failed[f]
        /\ UNCHANGED <<indexing, file_parts>>
    BY <1>17 DEF UndoMetadata, Goto
  <2> QED
    BY <1>a, <2>1, <2>2, <2>3 DEF Noted, Handler, Running, Forward, Undo
<1>18. CASE UndoReference(f)
  <2>1. file_reference[f] \in References
    BY <1>18, RowExists DEF UndoReference, Running, Undo
  <2>2. Updated(file_reference[f], 0, "text").mime_type = "text"
    BY <2>1, UpdatedType
  <2>3. file_reference'[f].mime_type = "text" \/ "file_reference" \in missed'[f]
    BY <1>18, <2>2 DEF UndoReference, Miss, Applied, Undone
  <2>4. /\ pc[f] = "undo_reference" /\ pc'[f] = "undo_documents"
        /\ failed'[f] = failed[f]
        /\ indexing'[f] = indexing[f] /\ file_parts'[f] = file_parts[f]
        /\ file_metadata'[f] = file_metadata[f]
        /\ missed[f] \subseteq missed'[f]
    BY <1>18 DEF UndoReference, Goto, Miss
  <2> QED
    BY <1>a, <2>3, <2>4 DEF Noted, Handler, Running, Forward, Undo
<1>19. CASE UndoDocuments(f)
  <2>1. PICK deleted \in BOOLEAN :
          /\ document' = [document EXCEPT ![f] = @ /\ ~deleted]
          /\ Miss(f, "document", ~deleted)
    BY <1>19 DEF UndoDocuments
  <2>2. ~document'[f] \/ "document" \in missed'[f]
    BY <2>1 DEF Miss, Undone
  <2>3. missed[f] \subseteq missed'[f]
    BY <2>1 DEF Miss
  <2>4. /\ pc[f] = "undo_documents" /\ pc'[f] = "cleanup"
        /\ failed'[f] = failed[f]
        /\ UNCHANGED <<indexing, file_parts, file_metadata, file_reference>>
    BY <1>19 DEF UndoDocuments, Goto
  <2> QED
    BY <1>a, <2>2, <2>3, <2>4 DEF Noted, Handler, Running, Forward, Undo
<1>20. CASE Cleanup(f)
  BY <1>a, <1>20 DEF Cleanup, Noted, Goto, Proceed, Miss, Applied, tables,
     Handler, Running, Forward, Undo, Undone
<1>21. CASE AcceptText(f)
  BY <1>a, <1>21 DEF AcceptText, Noted, Goto, Proceed, Miss, Applied, tables,
     Handler, Running, Forward, Undo, Undone
<1>22. CASE IndexText(f)
  BY <1>a, <1>22 DEF IndexText, Noted, Goto, Proceed, Miss, Applied, tables,
     Handler, Running, Forward, Undo, Undone
<1>23. CASE DropText(f)
  BY <1>a, <1>23 DEF DropText, Noted, Goto, Proceed, Miss, Applied, tables,
     Handler, Running, Forward, Undo, Undone
<1> QED
  BY <1>1, <1>2, <1>3, <1>4, <1>5, <1>6, <1>7, <1>8, <1>9, <1>10, <1>11, <1>12,
     <1>13, <1>14, <1>15, <1>16, <1>17, <1>18, <1>19, <1>20, <1>21, <1>22, <1>23
     DEF Step, Upload, Task, DocumentServer

LEMMA NotingStep == Inv /\ Noting /\ [Next]_vars => Noting'
<1> SUFFICES ASSUME Inv, Noting, [Next]_vars, NEW g \in Files PROVE Noted(g)'
  BY DEF Noting
<1>a. Noted(g)
  BY DEF Noting
<1>1. ASSUME NEW f \in Files, Step(f)
      PROVE  Noted(g)'
  <2>1. CASE g = f
    BY <1>a, <1>1, <2>1, NotedStep
  <2>2. CASE g # f
    BY <1>a, <1>1, <2>2, OthersAreSame DEF Same, Noted
  <2> QED
    BY <2>1, <2>2
<1>2. CASE TerminateSession \/ UNCHANGED vars
  BY <1>a, <1>2 DEF TerminateSession, vars, tables, Noted
<1>3. CASE Crash
  <2>1. pc'[g] = pc[g] \/ pc'[g] = "crashed"
    BY <1>3 DEF Crash, Inv, TypeOK
  <2> QED
    BY <1>a, <1>3, <2>1 DEF Crash, tables, Noted, Handler, Running, Forward, Undo
<1> QED
  BY <1>1, <1>2, <1>3 DEF Next, Step

(***************************************************************************)
(* When the rollback of a file is over, its text is left in the            *)
(* document-server only if the deletion failed or the indexing call was    *)
(* cut off, and it can still be downloaded only if neither its parts nor   *)
(* its row could be undone, for any uploads and any of the faults.         *)
(***************************************************************************)
THEOREM RollbackLeavesNothing == Spec => []RollbackIsClean
<1>1. Init => Noting
  BY DEF Init, Noting, Noted, Running, Forward, Undo
<1>2. Inv /\ Noting /\ [Next]_vars => Noting'
  BY NotingStep
<1>3. Noting => RollbackIsClean
  BY DEF Noting, Noted, RollbackIsClean, Downloadable
<1> QED
  BY <1>1, <1>2, <1>3, InvHolds, PTL DEF Spec

-----------------------------------------------------------------------------
(* The progress that is shown *)

(***************************************************************************)
(* The total of a row is an estimate first and the number of blocks later; *)
(* neither is less than what is stored, until the rollback makes it 0.     *)
(***************************************************************************)
Counted(f) ==
  /\ stored[f] <= BlockCount(incoming[f])
  /\ stored[f] > 0 => Exists(f)
  /\ file_uploads[f] \subseteq All(f)
  /\ Exists(f) /\ ~failed[f] =>
       file_reference[f].total_part
         \in Estimates(incoming[f]) \cup {BlockCount(incoming[f])}

Counting == \A f \in Files : Counted(f)

(* A step that neither counts nor stores. *)
Uncounted(f) ==
  /\ incoming'[f] = incoming[f]
  /\ stored'[f] = stored[f]
  /\ file_uploads'[f] = file_uploads[f]
  /\ file_reference'[f] = file_reference[f]
  /\ failed[f] => failed'[f]

LEMMA UncountedKeeps ==
  ASSUME NEW f \in Files, Counted(f), failed[f] \in BOOLEAN, Uncounted(f)
  PROVE  Counted(f)'
BY DEF Counted, Uncounted, Exists, All

LEMMA CountStep ==
  ASSUME Inv, NEW f \in Files, Step(f), Counted(f)
  PROVE  Counted(f)'
<1> USE DEF Inv, TypeOK
<1>a. /\ FileInv(f)
      /\ failed[f] \in BOOLEAN
      /\ incoming[f] \in Shapes
      /\ incoming[f].full \in Nat
      /\ stored[f] \in Nat
  BY ShapeTypes
<1>1. CASE Authorise(f)
  BY <1>a, <1>1, UncountedKeeps DEF Authorise, Uncounted, tables
<1>2. CASE CreateFileReference(f)
  <2>1. PICK total \in Estimates(incoming[f]) :
          file_reference'[f] \in {file_reference[f],
            [total_part |-> total, mime_type |-> "text",
             is_encrypted |-> FALSE, is_fulltext_parsed |-> FALSE]}
    BY <1>2 DEF CreateFileReference
  <2>a. [total_part |-> total, mime_type |-> "text",
         is_encrypted |-> FALSE, is_fulltext_parsed |-> FALSE] \in References
    BY <1>a, ShapeTypes DEF References
  <2>2. /\ UNCHANGED <<incoming, stored, file_uploads, failed>>
        /\ ~Exists(f)
    BY <1>a, <1>2 DEF CreateFileReference, FileInv, RowWritten
  <2> QED
    BY <2>1, <2>a, <2>2, NoRowAssumption DEF Counted, Exists, All
<1>3. CASE StoreGroup(f)
  <2>1. /\ stored'[f] = stored[f] + GroupSize
        /\ stored[f] + GroupSize <= incoming[f].full
        /\ file_uploads'[f] = file_uploads[f] \cup stored[f] .. (stored[f] + GroupSize - 1)
        /\ UNCHANGED <<incoming, file_reference, failed>>
    BY <1>3, GroupAssumption DEF StoreGroup, StoreBlocks
  <2>2. incoming[f].full <= BlockCount(incoming[f])
    BY <1>a DEF BlockCount
  <2>3. Exists(f)
    BY <1>a, <1>3 DEF StoreGroup, FileInv, RowWritten
  <2> QED
    BY <1>a, <2>1, <2>2, <2>3, ShapeTypes, GroupAssumption DEF Counted, Exists, All
<1>4. CASE EndOfUpload(f)
  <2>1. UNCHANGED <<incoming, file_reference, failed>>
    BY <1>4 DEF EndOfUpload
  <2>2. stored[f] <= incoming[f].full
    BY <1>a, <1>4 DEF EndOfUpload, FileInv, UploadsKept
  <2>a. Exists(f)
    BY <1>a, <1>4 DEF EndOfUpload, FileInv, RowWritten
  <2>3. CASE incoming[f].tail
    <3> DEFINE upto == incoming[f].full + 1
    <3>1. StoreBlocks(f, upto)
      BY <1>4, <2>3 DEF EndOfUpload
    <3>2. upto \in Nat /\ stored[f] <= upto /\ upto = BlockCount(incoming[f])
      BY <1>a, <2>2, <2>3 DEF BlockCount
    <3> HIDE DEF upto
    <3>3. /\ stored'[f] = upto
          /\ file_uploads'[f] = file_uploads[f] \cup stored[f] .. (upto - 1)
      BY <3>1 DEF StoreBlocks
    <3> QED
      BY <1>a, <2>1, <2>a, <3>2, <3>3 DEF Counted, Exists, All
  <2>4. CASE ~incoming[f].tail
    BY <1>a, <1>4, <2>1, <2>4, UncountedKeeps DEF EndOfUpload, Uncounted
  <2> QED
    BY <2>3, <2>4
<1>5. CASE Abandon(f)
  BY <1>a, <1>5, UncountedKeeps DEF Abandon, Uncounted, tables
<1>6. CASE EncryptQuery(f)
  BY <1>a, <1>6, UncountedKeeps DEF EncryptQuery, Uncounted, Proceed, tables
<1>7. CASE WritePart(f)
  BY <1>a, <1>7, UncountedKeeps DEF WritePart, Uncounted, Proceed, tables
<1>8. CASE EncryptDone(f)
  BY <1>a, <1>8, UncountedKeeps DEF EncryptDone, Uncounted, tables
<1>9. CASE ParseContent(f)
  BY <1>a, <1>9, UncountedKeeps DEF ParseContent, Uncounted, Proceed, tables
<1>10. CASE InsertMetadata(f)
  BY <1>a, <1>10, UncountedKeeps DEF InsertMetadata, Uncounted, Proceed, tables
<1>11. CASE SendText(f)
  BY <1>a, <1>11, UncountedKeeps DEF SendText, Uncounted, tables
<1>12. CASE TextIndexed(f)
  BY <1>a, <1>12, UncountedKeeps DEF TextIndexed, Uncounted, Proceed, tables
<1>13. CASE TextTimeout(f)
  BY <1>a, <1>13, UncountedKeeps DEF TextTimeout, Uncounted, Proceed, tables
<1>14. CASE SetIndicator(f)
  <2>1. file_reference[f] \in References
    BY <1>14, RowExists DEF SetIndicator, Running, Forward
  <2>2. /\ file_reference'[f] \in References
        /\ file_reference'[f].total_part = file_reference[f].total_part
    <3>1. file_reference'[f] \in {file_reference[f],
                                 [file_reference[f] EXCEPT !.is_fulltext_parsed = TRUE]}
      BY <1>14 DEF SetIndicator
    <3> QED
      BY <2>1, <3>1 DEF References
  <2>3. /\ UNCHANGED <<incoming, stored, file_uploads>>
        /\ failed[f] => failed'[f]
    BY <1>14 DEF SetIndicator, Proceed
  <2>4. Exists(f)
    BY <2>1, NoRowAssumption DEF Exists
  <2> QED
    BY <1>a, <2>2, <2>3, <2>4, NoRowAssumption DEF Counted, All, Exists
<1>15. CASE UpdateReference(f)
  <2>1. file_reference[f] \in References
    BY <1>15, RowExists DEF UpdateReference, Running, Forward
  <2>2. /\ file_reference'[f] \in References
        /\ file_reference'[f].total_part
             \in {file_reference[f].total_part, BlockCount(incoming[f])}
    <3>1. file_reference'[f] \in {file_reference[f],
             Updated(file_reference[f], BlockCount(incoming[f]), "media")}
      BY <1>15 DEF UpdateReference
    <3>2. BlockCount(incoming[f]) \in Nat
      BY <1>a, ShapeTypes
    <3> QED
      BY <2>1, <3>1, <3>2 DEF Updated, References
  <2>3. /\ UNCHANGED <<incoming, stored, file_uploads>>
        /\ failed[f] => failed'[f]
    BY <1>15 DEF UpdateReference, Proceed
  <2>4. Exists(f)
    BY <2>1, NoRowAssumption DEF Exists
  <2> QED
    BY <1>a, <2>2, <2>3, <2>4, NoRowAssumption DEF Counted, All, Exists
<1>16. CASE UndoParts(f)
  BY <1>a, <1>16, UncountedKeeps DEF UndoParts, Uncounted, tables
<1>17. CASE UndoMetadata(f)
  BY <1>a, <1>17, UncountedKeeps DEF UndoMetadata, Uncounted, tables
<1>18. CASE UndoReference(f)
  <2>1. failed[f]
    BY <1>a, <1>18 DEF UndoReference, FileInv, Outcome, Undo
  <2>2. UNCHANGED <<incoming, stored, file_uploads, failed>>
    BY <1>18 DEF UndoReference
  <2>3. file_reference[f] \in References
    BY <1>18, RowExists DEF UndoReference, Running, Undo
  <2>4. file_reference'[f] \in References
    <3>1. file_reference'[f] \in {file_reference[f], Updated(file_reference[f], 0, "text")}
      BY <1>18 DEF UndoReference
    <3>2. Updated(file_reference[f], 0, "text") \in References
      BY <2>3, UpdatedType
    <3> QED
      BY <2>3, <3>1, <3>2
  <2> QED
    BY <2>1, <2>2, <2>4, NoRowAssumption DEF Counted, All, Exists
<1>19. CASE UndoDocuments(f)
  BY <1>a, <1>19, UncountedKeeps DEF UndoDocuments, Uncounted, tables
<1>20. CASE Cleanup(f)
  <2>1. /\ UNCHANGED <<incoming, stored, file_reference, failed>>
        /\ file_uploads'[f] \in {{}, file_uploads[f]}
    BY <1>20 DEF Cleanup
  <2> QED
    BY <2>1 DEF Counted, All, Exists
<1>21. CASE AcceptText(f)
  BY <1>a, <1>21, UncountedKeeps DEF AcceptText, Uncounted, tables
<1>22. CASE IndexText(f)
  BY <1>a, <1>22, UncountedKeeps DEF IndexText, Uncounted, tables
<1>23. CASE DropText(f)
  BY <1>a, <1>23, UncountedKeeps DEF DropText, Uncounted, tables
<1> QED
  BY <1>1, <1>2, <1>3, <1>4, <1>5, <1>6, <1>7, <1>8, <1>9, <1>10, <1>11, <1>12,
     <1>13, <1>14, <1>15, <1>16, <1>17, <1>18, <1>19, <1>20, <1>21, <1>22, <1>23
     DEF Step, Upload, Task, DocumentServer

LEMMA CountingInit == Init => Counting
<1> SUFFICES ASSUME Init, NEW f \in Files PROVE Counted(f)
  BY DEF Counting
<1>1. BlockCount(incoming[f]) \in Nat
  BY ShapeTypes DEF Init
<1> QED
  BY <1>1 DEF Init, Counted, Exists, All

LEMMA CountingStep == Inv /\ Counting /\ [Next]_vars => Counting'
<1> SUFFICES ASSUME Inv, Counting, [Next]_vars, NEW g \in Files PROVE Counted(g)'
  BY DEF Counting
<1>a. Counted(g) /\ failed[g] \in BOOLEAN
  BY DEF Counting, Inv, TypeOK
<1>1. ASSUME NEW f \in Files, Step(f)
      PROVE  Counted(g)'
  <2>1. CASE g = f
    BY <1>a, <1>1, <2>1, CountStep
  <2>2. CASE g # f
    <3>1. Same(g)
      BY <1>1, <2>2, OthersAreSame
    <3> QED
      BY <1>a, <3>1, UncountedKeeps DEF Same, Uncounted
  <2> QED
    BY <2>1, <2>2
<1>2. CASE TerminateSession \/ Crash \/ UNCHANGED vars
  BY <1>a, <1>2, UncountedKeeps DEF TerminateSession, Crash, vars, tables, Uncounted
<1> QED
  BY <1>1, <1>2 DEF Next, Step

(* The parts are as many as their numbers allow. *)
LEMMA PartsAreCounted ==
  ASSUME NEW f \in Files, stored[f] \in Nat, file_parts[f] \subseteq All(f)
  PROVE  Cardinality(file_parts[f]) \in Nat /\ Cardinality(file_parts[f]) <= stored[f]
<1>1. 0 \in Int /\ stored[f] - 1 \in Int
  OBVIOUS
<1>2. /\ IsFiniteSet(0 .. (stored[f] - 1))
      /\ Cardinality(0 .. (stored[f] - 1)) =
           IF 0 > stored[f] - 1 THEN 0 ELSE (stored[f] - 1) - 0 + 1
  BY <1>1, FS_Interval
<1>3. IsFiniteSet(All(f)) /\ Cardinality(All(f)) = stored[f]
  BY <1>2 DEF All
<1> QED
  BY <1>3, FS_Subset, FS_CardinalityType

(* A part of a whole, as the watcher computes it. *)
LEMMA PartOfWhole ==
  ASSUME NEW part \in Nat, NEW whole \in Nat, part <= whole, whole > 0
  PROVE  (part * 100) \div whole \in 0..100
<1> DEFINE q == (part * 100) \div whole
<1>1. q \in Int /\ whole * q <= part * 100 /\ part * 100 < whole * (q + 1)
  OBVIOUS
<1>2. q >= 0
  BY <1>1
<1>3. q <= 100
  BY <1>1
<1> QED
  BY <1>1, <1>2, <1>3

(***************************************************************************)
(* The progress that doka-harbor shows for an upload is a percentage until *)
(* its rollback, and the division is never by zero: the estimate made from *)
(* the Content-Length is not less than the blocks that arrive.             *)
(***************************************************************************)
THEOREM ProgressIsShown == Spec => []ProgressIsAPercentage
<1>1. Inv /\ Counting => ProgressIsAPercentage
  <2> SUFFICES ASSUME Inv, Counting, ~LoadingFails,
                      NEW f \in Loading, ~failed[f]
               PROVE  /\ Stats(f).block_count > 0
                      /\ Percent(f) \in 0..100
    BY DEF ProgressIsAPercentage
  <2> DEFINE total == file_reference[f].total_part
  <2>1. /\ f \in Files
        /\ FileInv(f) /\ Counted(f)
        /\ file_uploads[f] # {}
        /\ total # NULL
        /\ stored[f] \in Nat
        /\ incoming[f] \in Shapes
    BY DEF Loading, LoadingFails, Inv, TypeOK, Counting
  <2>2. stored[f] > 0
    BY <2>1 DEF Counted, All
  <2>3. Exists(f)
    BY <2>1, <2>2 DEF Counted
  <2>4. /\ total \in Nat
        /\ stored[f] <= total
    BY <2>1, <2>3, ShapeTypes DEF Counted, Estimates, BlockCount
  <2>5. /\ Cardinality(file_parts[f]) \in Nat
        /\ Cardinality(file_parts[f]) <= stored[f]
    BY <2>1, PartsAreCounted DEF FileInv, PartsWritten
  <2>6. /\ Stats(f).block_count = total
        /\ Percent(f) = (Cardinality(file_parts[f]) * 100) \div total
    BY DEF Stats, Percent
  <2> HIDE DEF total
  <2>7. total > 0 /\ Cardinality(file_parts[f]) <= total
    BY <2>1, <2>2, <2>4, <2>5
  <2> QED
    BY <2>4, <2>5, <2>6, <2>7, PartOfWhole
<1> QED
  BY <1>1, CountingInit, CountingStep, InvHolds, PTL DEF Spec

-----------------------------------------------------------------------------
(* Phase 1 of one file *)

Receiving(f) == pc[f] \in {"idle", "authorised", "receiving"}

Replied(f) == pc[f] \in Running \cup {"ended"}

(* The rows of file_uploads, until the task empties the table. *)
Rows(f) == IF pc[f] = "ended" THEN All(f) ELSE file_uploads[f]

Phase(f) ==
  IF Receiving(f) THEN "receiving" ELSE IF Replied(f) THEN "ok" ELSE "failed"

Count(f) == IF Replied(f) THEN BlockCount(incoming[f]) ELSE 0

(* The rows are those that were received, at every step of the pipeline. *)
LEMMA RowsAreAll ==
  ASSUME Inv, Inv', NEW f \in Files
  PROVE  Rows(f) = All(f) /\ Rows(f)' = All(f)'
BY DEF Inv, FileInv, UploadsKept, Rows

(* A step of the pipeline that IncomingBlocks does not see. *)
Unseen(f) ==
  /\ Phase(f)' = Phase(f)
  /\ Rows(f)' = Rows(f)
  /\ Count(f)' = Count(f)

(* n blocks more. *)
Adds(f, n) ==
  /\ Phase(f) = "receiving"
  /\ stored[f] \in Nat
  /\ n \in 0 .. GroupSize
  /\ Rows(f) = 0 .. (stored[f] - 1)
  /\ Rows(f)' = 0 .. (stored[f] + n - 1)

Shows(f) ==
  \/ Unseen(f)
  \/ \E n \in 0 .. GroupSize :
       /\ Adds(f, n)
       /\ \/ Phase(f)' = "receiving" /\ Count(f)' = Count(f)
          \/ /\ Phase(f)' = "ok"
             /\ Count(f)' \in (stored[f] + n) .. (stored[f] + n + GroupSize - 1)
          \/ Phase(f)' = "failed" /\ Count(f)' = 0
  \/ /\ Phase(f) = "ok" /\ Phase(f)' = "failed"
     /\ Count(f)' = 0
     /\ Rows(f)' = Rows(f)

(* What a file shows of its uploads is a step of IncomingBlocks. *)
LEMMA ShowsIncoming ==
  ASSUME NEW f \in Files, Shows(f)
  PROVE  [Incoming(f)!Next]_(Incoming(f)!vars)
<1> USE DEF Phase, Rows, Count, Receiving, Replied, All
<1>1. CASE Unseen(f)
  BY <1>1 DEF Unseen, Incoming!vars
<1>2. ASSUME NEW n \in 0 .. GroupSize, Adds(f, n),
             \/ Phase(f)' = "receiving" /\ Count(f)' = Count(f)
             \/ /\ Phase(f)' = "ok"
                /\ Count(f)' \in (stored[f] + n) .. (stored[f] + n + GroupSize - 1)
             \/ Phase(f)' = "failed" /\ Count(f)' = 0
      PROVE  Incoming(f)!Next
  <2>1. stored[f] \in Incoming(f)!NextParts
    <3>1. CASE stored[f] = 0
      BY <3>1 DEF Incoming!NextParts
    <3>2. CASE stored[f] # 0
      <4>1. stored[f] - 1 \in 0 .. (stored[f] - 1) /\ stored[f] = (stored[f] - 1) + 1
        BY <1>2, <3>2 DEF Adds
      <4> QED
        BY <1>2, <4>1 DEF Adds, Incoming!NextParts
    <3> QED
      BY <3>1, <3>2
  <2>2. Incoming(f)!Add(stored[f], n)
    BY <1>2 DEF Adds, Incoming!Add
  <2>3. \/ Incoming(f)!Receive(stored[f], n)
        \/ Incoming(f)!Reply(stored[f], n)
        \/ Incoming(f)!Stop(stored[f], n)
    BY <1>2, <2>2 DEF Adds, Incoming!Receive, Incoming!Reply, Incoming!Stop
  <2> QED
    BY <2>1, <2>3 DEF Incoming!Next
<1>3. CASE /\ Phase(f) = "ok" /\ Phase(f)' = "failed"
           /\ Count(f)' = 0
           /\ Rows(f)' = Rows(f)
  BY <1>3 DEF Incoming!Next, Incoming!Die
<1> QED
  BY <1>1, <1>2, <1>3 DEF Shows

LEMMA StepIncoming ==
  ASSUME NEW f \in Files, Step(f)
  PROVE  UNCHANGED incoming
<1>1. CASE Upload(f)
  BY <1>1 DEF Upload, Authorise, CreateFileReference, StoreGroup, EndOfUpload, Abandon
<1>2. CASE Task(f)
  BY <1>2 DEF Task, EncryptQuery, WritePart, EncryptDone, ParseContent, InsertMetadata,
     SendText, TextIndexed, TextTimeout, SetIndicator, UpdateReference,
     UndoParts, UndoMetadata, UndoReference, UndoDocuments, Cleanup
<1>3. CASE DocumentServer(f)
  BY <1>3 DEF DocumentServer, AcceptText, IndexText, DropText
<1> QED
  BY <1>1, <1>2, <1>3 DEF Step

(* While the blocks arrive, only the handler moves. *)
LEMMA OnlyTheHandler ==
  ASSUME NEW f \in Files, Step(f), pc[f] = "receiving"
  PROVE  StoreGroup(f) \/ EndOfUpload(f) \/ Abandon(f) \/ Kept(f)
<1>1. CASE Upload(f)
  BY <1>1 DEF Upload, Authorise, CreateFileReference
<1>2. ~Task(f)
  BY DEF Task, EncryptQuery, WritePart, EncryptDone, ParseContent, InsertMetadata,
     SendText, TextIndexed, TextTimeout, SetIndicator, UpdateReference,
     UndoParts, UndoMetadata, UndoReference, UndoDocuments, Cleanup
<1>3. CASE DocumentServer(f)
  BY <1>3 DEF DocumentServer, AcceptText, IndexText, DropText, Kept, tables
<1> QED
  BY <1>1, <1>2, <1>3 DEF Step

(* A step that stores nothing shows as none, or as the end of phase 1. *)
LEMMA PathShows ==
  ASSUME Inv, Inv', NEW f \in Files, UNCHANGED incoming, Path(f),
         pc[f] = "receiving" => Kept(f)
  PROVE  Shows(f)
<1>a. /\ Rows(f) = All(f) /\ Rows(f)' = All(f)'
      /\ stored[f] \in Nat
      /\ 0 \in 0 .. GroupSize
      /\ stored[f] + 0 = stored[f]
  BY RowsAreAll, GroupAssumption DEF Inv, TypeOK
<1>b. Count(f)' = IF Replied(f)' THEN BlockCount(incoming[f]) ELSE 0
  BY DEF Count, BlockCount, Replied
<1>1. CASE stored'[f] = stored[f] /\ pc'[f] = pc[f]
  BY <1>a, <1>b, <1>1 DEF Shows, Unseen, Phase, Count, Receiving, Replied, All
<1>2. CASE /\ stored'[f] = stored[f]
           /\ pc[f] \in {"idle", "authorised"}
           /\ pc'[f] \in {"authorised", "receiving"}
  <2>1. Unseen(f)
    BY <1>a, <1>b, <1>2 DEF Unseen, Phase, Count, Receiving, Replied, All,
       Running, Forward, Undo
  <2> QED
    BY <2>1 DEF Shows
<1>3. CASE /\ stored'[f] = stored[f]
           /\ pc[f] \in {"idle", "authorised"}
           /\ pc'[f] = "refused"
  <2>1. Adds(f, 0)
    BY <1>a, <1>3 DEF Adds, Phase, Receiving, All
  <2>2. Phase(f)' = "failed" /\ Count(f)' = 0
    BY <1>b, <1>3 DEF Phase, Receiving, Replied, Running, Forward, Undo
  <2> QED
    BY <1>a, <2>1, <2>2 DEF Shows
<1>4. CASE /\ stored'[f] = stored[f]
           /\ pc[f] \in Running \cup {"ended"}
           /\ pc'[f] \in Running \cup {"ended"}
  <2>1. Unseen(f)
    BY <1>a, <1>b, <1>4 DEF Unseen, Phase, Count, Receiving, Replied, All,
       Running, Forward, Undo
  <2> QED
    BY <2>1 DEF Shows
<1> QED
  BY <1>1, <1>2, <1>3, <1>4 DEF Path, Kept, Running, Forward, Undo

(* A group, or the end of phase 1. *)
LEMMA HandlerShows ==
  ASSUME Inv, Inv', NEW f \in Files, UNCHANGED incoming,
         StoreGroup(f) \/ EndOfUpload(f) \/ Abandon(f)
  PROVE  Shows(f)
<1>a. /\ Rows(f) = All(f) /\ Rows(f)' = All(f)'
      /\ stored \in [Files -> Nat] /\ stored[f] \in Nat
      /\ pc \in [Files -> Steps]
      /\ GroupSize \in Nat \ {0}
      /\ incoming[f] \in Shapes
      /\ incoming[f].full \in Nat
  BY RowsAreAll, GroupAssumption, ShapeTypes DEF Inv, TypeOK
<1>b. Count(f)' = IF Replied(f)' THEN BlockCount(incoming[f]) ELSE 0
  BY DEF Count, BlockCount, Replied
<1>c. /\ pc[f] = "receiving"
      /\ Phase(f) = "receiving" /\ Count(f) = 0
      /\ stored[f] <= incoming[f].full
  BY DEF StoreGroup, EndOfUpload, Abandon, Phase, Receiving, Count, Replied,
     Running, Forward, Undo, Inv, FileInv, UploadsKept
<1>d. ASSUME NEW n \in 0 .. GroupSize, stored'[f] = stored[f] + n
      PROVE  Adds(f, n)
  BY <1>a, <1>c, <1>d DEF Adds, All
<1>e. /\ pc'[f] = "abandoned" => Phase(f)' = "failed" /\ Count(f)' = 0
      /\ pc'[f] = "encrypt_query" =>
           Phase(f)' = "ok" /\ Count(f)' = BlockCount(incoming[f])
  BY <1>b DEF Phase, Receiving, Replied, Running, Forward, Undo
<1>1. CASE StoreGroup(f)
  <2>1. stored'[f] = stored[f] + GroupSize /\ UNCHANGED pc
    BY <1>a, <1>1 DEF StoreGroup, StoreBlocks
  <2>2. GroupSize \in 0 .. GroupSize
    BY <1>a
  <2>3. Adds(f, GroupSize)
    BY <1>d, <2>1, <2>2
  <2>4. Phase(f)' = "receiving" /\ Count(f)' = Count(f)
    BY <1>b, <1>c, <2>1 DEF Phase, Receiving, Replied, Running, Forward, Undo
  <2> QED
    BY <2>2, <2>3, <2>4 DEF Shows
<1>2. CASE EndOfUpload(f)
  <2>1. incoming[f].full < stored[f] + GroupSize
    BY <1>a, <1>2 DEF EndOfUpload
  <2>2. CASE incoming[f].tail
    <3>1. stored'[f] = incoming[f].full + 1 /\ pc'[f] \in {"encrypt_query", "abandoned"}
      BY <1>a, <1>2, <2>2 DEF EndOfUpload, StoreBlocks, Goto
    <3>2. PICK n \in 0 .. GroupSize : stored[f] + n = incoming[f].full + 1
      <4>1. (incoming[f].full + 1) - stored[f] \in 0 .. GroupSize
        BY <1>a, <1>c, <2>1
      <4>2. stored[f] + ((incoming[f].full + 1) - stored[f]) = incoming[f].full + 1
        BY <1>a
      <4> QED
        BY <4>1, <4>2
    <3>3. Adds(f, n)
      BY <1>d, <3>1, <3>2
    <3>4. BlockCount(incoming[f]) \in (stored[f] + n) .. (stored[f] + n + GroupSize - 1)
      BY <1>a, <2>2, <3>2 DEF BlockCount
    <3> QED
      BY <1>e, <3>1, <3>3, <3>4 DEF Shows
  <2>3. CASE ~incoming[f].tail
    <3>1. UNCHANGED stored /\ pc'[f] = "encrypt_query"
      BY <1>a, <1>2, <2>3 DEF EndOfUpload, Goto
    <3>2. 0 \in 0 .. GroupSize /\ stored[f] + 0 = stored[f]
      BY <1>a
    <3>3. Adds(f, 0)
      BY <1>d, <3>1, <3>2
    <3>4. BlockCount(incoming[f]) \in (stored[f] + 0) .. (stored[f] + 0 + GroupSize - 1)
      BY <1>a, <1>c, <2>1, <2>3 DEF BlockCount
    <3> QED
      BY <1>e, <3>1, <3>2, <3>3, <3>4 DEF Shows
  <2> QED
    BY <2>2, <2>3
<1>3. CASE Abandon(f)
  <2>1. UNCHANGED stored /\ pc'[f] = "abandoned"
    BY <1>a, <1>3 DEF Abandon, Goto
  <2>2. 0 \in 0 .. GroupSize /\ stored[f] + 0 = stored[f]
    BY <1>a
  <2>3. Adds(f, 0)
    BY <1>d, <2>1, <2>2
  <2> QED
    BY <1>e, <2>1, <2>2, <2>3 DEF Shows
<1> QED
  BY <1>1, <1>2, <1>3

(* The death of the process ends the uploads that were under way. *)
LEMMA CrashShows ==
  ASSUME Inv, Inv', NEW f \in Files, Crash
  PROVE  Shows(f)
<1>a. /\ Rows(f) = All(f) /\ Rows(f)' = All(f)'
      /\ UNCHANGED <<incoming, stored>>
      /\ stored[f] \in Nat
      /\ 0 \in 0 .. GroupSize
      /\ stored[f] + 0 = stored[f]
  BY RowsAreAll, GroupAssumption DEF Inv, TypeOK, Crash
<1>b. Count(f)' = IF Replied(f)' THEN BlockCount(incoming[f]) ELSE 0
  BY <1>a DEF Count, BlockCount, Replied
<1>c. Rows(f)' = Rows(f)
  BY <1>a DEF All
<1>1. CASE pc[f] \in Running \cup {"authorised", "receiving"}
  <2>1. pc'[f] = "crashed"
    BY <1>1 DEF Crash
  <2>2. Phase(f)' = "failed" /\ Count(f)' = 0
    BY <1>b, <2>1 DEF Phase, Receiving, Replied, Running, Forward, Undo
  <2>3. CASE pc[f] \in Running
    <3>1. Phase(f) = "ok"
      BY <2>3 DEF Phase, Receiving, Replied, Running, Forward, Undo
    <3> QED
      BY <1>c, <2>2, <3>1 DEF Shows
  <2>4. CASE pc[f] \in {"authorised", "receiving"}
    <3>1. Adds(f, 0)
      BY <1>a, <1>c, <2>4 DEF Adds, Phase, Receiving, All
    <3> QED
      BY <1>a, <2>2, <3>1 DEF Shows
  <2> QED
    BY <1>1, <2>3, <2>4
<1>2. CASE pc[f] \notin Running \cup {"authorised", "receiving"}
  <2>1. pc'[f] = pc[f]
    BY <1>2 DEF Crash
  <2>2. Unseen(f)
    BY <1>b, <1>c, <2>1 DEF Unseen, Phase, Count, Receiving, Replied
  <2> QED
    BY <2>2 DEF Shows
<1> QED
  BY <1>1, <1>2

LEMMA SameShows ==
  ASSUME NEW f \in Files, Same(f)
  PROVE  Shows(f)
<1>1. Unseen(f)
  BY DEF Same, Unseen, Phase, Rows, Count, Receiving, Replied, All, BlockCount
<1> QED
  BY <1>1 DEF Shows

LEMMA IncomingStep ==
  ASSUME NEW f \in Files, Inv, Inv', [Next]_vars
  PROVE  [Incoming(f)!Next]_(Incoming(f)!vars)
<1>1. ASSUME NEW g \in Files, Step(g)
      PROVE  Shows(f)
  <2>1. UNCHANGED incoming
    BY <1>1, StepIncoming
  <2>2. CASE g # f
    BY <1>1, <2>2, OthersAreSame, SameShows
  <2>3. CASE g = f /\ (StoreGroup(f) \/ EndOfUpload(f) \/ Abandon(f))
    BY <2>1, <2>3, HandlerShows
  <2>4. CASE g = f /\ ~(StoreGroup(f) \/ EndOfUpload(f) \/ Abandon(f))
    <3>1. Path(f) /\ (pc[f] = "receiving" => Kept(f))
      BY <1>1, <2>4, StepPath, OnlyTheHandler
    <3> QED
      BY <2>1, <3>1, PathShows
  <2> QED
    BY <2>2, <2>3, <2>4
<1>2. ASSUME TerminateSession \/ UNCHANGED vars
      PROVE  Shows(f)
  <2>1. Same(f)
    BY <1>2 DEF TerminateSession, vars, tables, Same
  <2> QED
    BY <2>1, SameShows
<1>3. ASSUME Crash
      PROVE  Shows(f)
  BY <1>3, CrashShows
<1>4. Shows(f)
  BY <1>1, <1>2, <1>3 DEF Next, Step
<1> QED
  BY <1>4, ShowsIncoming

LEMMA IncomingInit ==
  ASSUME NEW f \in Files, Init
  PROVE  Incoming(f)!Init
BY DEF Init, Incoming!Init, Running, Forward, Undo

(***************************************************************************)
(* What the pipeline takes phase 1 for is what UploadBlocks implements:    *)
(* in every upload, whatever the other uploads, their tasks and the        *)
(* crashes do, the blocks arrive as IncomingBlocks says, and the task      *)
(* leaves them in file_uploads until it empties the table.                 *)
(***************************************************************************)
THEOREM PipelineImplementsIncoming == Spec => EachImplementsIncomingBlocks
<1>1. Init => \A f \in Files : Incoming(f)!Init
  BY IncomingInit
<1>2. Inv /\ Inv' /\ [Next]_vars
        => [\A f \in Files : [Incoming(f)!Next]_(Incoming(f)!vars)]_vars
  BY IncomingStep
<1> QED
  BY <1>1, <1>2, InvHolds, PTL DEF Spec, EachImplementsIncomingBlocks
=============================================================================
