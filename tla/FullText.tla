------------------------------- MODULE FullText ------------------------------
(***************************************************************************)
(* fulltext_indexing of fulltext.rs: the text of a file is read in blocks  *)
(* of words, the Tika server detects the language of each block, and the   *)
(* words of each language become rows of the table document, all of them   *)
(* in one transaction.                                                     *)
(*                                                                         *)
(* What other requests do meanwhile, and what the file-server does with a  *)
(* late answer, is in FileServer: here one request indexes one file.       *)
(***************************************************************************)
EXTENDS Tokenizer, FiniteSets, SequencesExt

CONSTANTS
  Graphemes,                  \* what a text is made of
  Texts,                      \* the texts to look at
  Detected,                   \* the codes of the languages that Tika may detect
  FINESSE_LANGUAGE_BLOCK,     \* graphemes in a block: 1000 in the code
  MAX_LANGUAGE_BUFFER_BLOCK,  \* size of the words in a part: 200000 in the code
  Faults                      \* what may fail: see AllFaults

(***************************************************************************)
(* "session"   the session or the key of the customer cannot be read       *)
(* "tika"      the language of a block cannot be detected                  *)
(* "database"  a connection, BEGIN, a statement or COMMIT fails            *)
(* "reply"     a COMMIT that took effect is reported as failed             *)
(***************************************************************************)
AllFaults == {"session", "tika", "database", "reply"}

ASSUME FullTextAssumption ==
  /\ FINESSE_LANGUAGE_BLOCK \in Nat \ {0} /\ MAX_LANGUAGE_BUFFER_BLOCK \in Nat \ {0}
  /\ Texts \subseteq Seq(Graphemes)
  /\ Faults \subseteq AllFaults

-----------------------------------------------------------------------------
(* language.rs *)

LANGUAGES ==
  [ar |-> "arabic", da |-> "danish", nl |-> "dutch", en |-> "english", fi |-> "finnish", fr |-> "french",
   de |-> "german", el |-> "greek", hu |-> "hungarian", id |-> "indonesian", ga |-> "irish", it |-> "italian",
   lt |-> "lithuanian", ne |-> "nepali", nb |-> "norwegian", pt |-> "portuguese", ro |-> "romanian",
   ru |-> "russian", es |-> "spanish", sv |-> "swedish", ta |-> "tamil", tr |-> "turkish"]

(* search_from_code_2 *)
Known(code) == IF code \in DOMAIN LANGUAGES THEN code ELSE "en"

map_code(code) == IF code = "ht" THEN "fr" ELSE Known(code)

lang_name_from_code_2(code) == LANGUAGES[Known(code)]

Names == {LANGUAGES[code] : code \in DOMAIN LANGUAGES}

-----------------------------------------------------------------------------
VARIABLES
  stage,     \* what fulltext_indexing does next
  text,
  index,     \* how many graphemes of it are read
  blocks,    \* the blocks read, with the name of the language detected
  language_buffer_block,  \* the words of each language
  parts,     \* the rows inserted in the transaction
  document,  \* the rows of the file in the table
  reply      \* the status, and part_count

vars == <<stage, text, index, blocks, language_buffer_block, parts, document, reply>>

NoReply == [status |-> 0, part_count |-> 0]
Failure == [status |-> 500, part_count |-> 0]

IsRow(row) ==
  /\ row.lang \in Names
  /\ row.part_no \in Nat
  /\ row.words # <<>>

TypeOK ==
  /\ stage \in {"session", "blocks", "parts", "commit", "replied"}
  /\ index \in 0..Len(text)
  /\ \A n \in DOMAIN blocks : blocks[n].lang \in Names /\ blocks[n].words # <<>>
  /\ DOMAIN language_buffer_block \subseteq DOMAIN LANGUAGES
  /\ \A row \in ToSet(parts) \cup document : IsRow(row)
  /\ reply.status \in {0, 200, 401, 500} /\ reply.part_count \in Nat

Init ==
  /\ stage = "session"
  /\ text \in Texts
  /\ index = 0
  /\ blocks = <<>>
  /\ language_buffer_block = [code \in {} |-> <<>>]
  /\ parts = <<>>
  /\ document = {}
  /\ reply = NoReply

Go(next) == stage' = next /\ UNCHANGED reply
Reply(r) == stage' = "replied" /\ reply' = r

(* valid_sid_get_session, fetch_customer_key, the connection and BEGIN *)
Begin ==
  /\ stage = "session"
  /\ \/ Go("blocks")
     \/ "session" \in Faults /\ \E status \in {401, 500} : Reply([NoReply EXCEPT !.status = status])
     \/ "database" \in Faults /\ Reply(Failure)
  /\ UNCHANGED <<text, index, blocks, language_buffer_block, parts, document>>

-----------------------------------------------------------------------------
(* indexing: the words of the blocks, by language *)

(* A defect: the words of the earlier blocks of the language are lost. *)
AddWords_Overwrites(code, words) ==
  [c \in DOMAIN language_buffer_block \cup {code} |-> IF c = code THEN words ELSE language_buffer_block[c]]

AddWords(code, words) ==
  [c \in DOMAIN language_buffer_block \cup {code} |->
     (IF c \in DOMAIN language_buffer_block THEN language_buffer_block[c] ELSE <<>>)
       \o (IF c = code THEN words ELSE <<>>)]

ReadBlock ==
  /\ stage = "blocks"
  /\ LET block == next_n_words(text, index, FINESSE_LANGUAGE_BLOCK)
     IN /\ block.words # <<>>
        /\ index' = block.index
        /\ \/ \E code \in Detected :
                /\ blocks' = Append(blocks, [words |-> block.words, lang |-> lang_name_from_code_2(map_code(code))])
                /\ language_buffer_block' = AddWords(map_code(code), block.words)
                /\ Go("blocks")
           \/ "tika" \in Faults /\ Reply(Failure) /\ UNCHANGED <<blocks, language_buffer_block>>
  /\ UNCHANGED <<text, parts, document>>

(* The first block without words ends the loop, at the end of the text or not. *)
EmptyBlock ==
  /\ stage = "blocks"
  /\ LET block == next_n_words(text, index, FINESSE_LANGUAGE_BLOCK)
     IN block.words = <<>> /\ index' = block.index
  /\ Go("parts")
  /\ UNCHANGED <<text, blocks, language_buffer_block, parts, document>>

-----------------------------------------------------------------------------
(* indexing: the parts *)

(* The words of the rows or blocks in some languages, one row after the other *)
WordsOf(rows, languages) ==
  LET words[n \in 0..Len(rows)] ==
        IF n = 0 THEN <<>>
        ELSE IF rows[n].lang \in languages THEN words[n - 1] \o rows[n].words ELSE words[n - 1]
  IN words[Len(rows)]

(* The words of a language are taken until they are large enough, or all. *)
PartLength(words) ==
  LET size[n \in 0..Len(words)] == IF n = 0 THEN 0 ELSE size[n - 1] + Len(words[n])
      Full(n) == n = Len(words) \/ size[n] >= MAX_LANGUAGE_BUFFER_BLOCK
  IN CHOOSE n \in DOMAIN words : Full(n) /\ \A m \in 1..(n - 1) : ~Full(m)

(* insert_document_part and insert_document *)
Row(code, part_no, words) ==
  [lang |-> lang_name_from_code_2(code), part_no |-> part_no, words |-> words,
   tsv |-> encrypt_tsvector(to_tsvector(words))]

(* The words of a language that are in a part already, and the others *)
Inserted(code) == WordsOf(parts, {LANGUAGES[code]})

Left(code) ==
  LET words == language_buffer_block[code]
  IN SubSeq(words, Len(Inserted(code)) + 1, Len(words))

(* The hash map gives one language after the other. *)
InTurn(code) ==
  /\ Left(code) # <<>>
  /\ \A other \in DOMAIN language_buffer_block \ {code} : Left(other) # <<>> => Inserted(other) = <<>>

InsertPart ==
  /\ stage = "parts"
  /\ \E code \in DOMAIN language_buffer_block :
       /\ InTurn(code)
       /\ \/ /\ parts' = Append(parts, Row(code, Len(parts), SubSeq(Left(code), 1, PartLength(Left(code)))))
             /\ Go("parts")
          \/ "database" \in Faults /\ Reply(Failure) /\ UNCHANGED parts
  /\ UNCHANGED <<text, index, blocks, language_buffer_block, document>>

NoPartLeft ==
  /\ stage = "parts"
  /\ \A code \in DOMAIN language_buffer_block : Left(code) = <<>>
  /\ Go("commit")
  /\ UNCHANGED <<text, index, blocks, language_buffer_block, parts, document>>

Commit ==
  /\ stage = "commit"
  /\ \/ Reply([status |-> 200, part_count |-> Len(parts)]) /\ document' = ToSet(parts)
     \/ "reply" \in Faults /\ Reply(Failure) /\ document' = ToSet(parts)
     \/ "database" \in Faults /\ Reply(Failure) /\ UNCHANGED document
  /\ UNCHANGED <<text, index, blocks, language_buffer_block, parts>>

Step == Begin \/ ReadBlock \/ EmptyBlock \/ InsertPart \/ NoPartLeft \/ Commit

Done == stage = "replied" /\ UNCHANGED vars

Next == Step \/ Done

(* The awaits of the request end, Tika and the database answer or fail.     *)
(* This is WF_vars(Step), written out: no other state than the last one is  *)
(* a deadlock, and so Step is possible until the reply.                     *)
Fairness == []<>(stage = "replied") \/ []<><<Step>>_vars

Spec == Init /\ [][Next]_vars /\ Fairness

-----------------------------------------------------------------------------
(* Properties *)

AllWords == next_n_words(text, 0, Len(text) + 1).words

(***************************************************************************)
(* Where a block ends changes no word: the blocks hold the words of the    *)
(* text as it would be read in one go, in their order and from the first   *)
(* one on.  Words cut in two, read twice or dropped at the border of a     *)
(* block would not be found.                                               *)
(***************************************************************************)
BlocksAreOfTheText == IsPrefix(WordsOf(blocks, Names), AllWords)

(***************************************************************************)
(* The rows of a file are the parts 0, 1, ... of one indexing, as many as  *)
(* its reply says, and hold for each language the words of the blocks of   *)
(* that language, in their order: nothing is lost at the border of a part, *)
(* where the buffer is emptied, and nothing twice.  A failure leaves no    *)
(* row, unless COMMIT did take effect.                                     *)
(***************************************************************************)
InOrder(rows) == [n \in 1..Cardinality(rows) |-> CHOOSE row \in rows : row.part_no = n - 1]

PartsHoldTheBlocks ==
  /\ document # {} =>
       /\ {row.part_no : row \in document} = 0..(Cardinality(document) - 1)
       /\ \A lang \in Names : WordsOf(InOrder(document), {lang}) = WordsOf(blocks, {lang})
  /\ reply.status = 200 => reply.part_count = Cardinality(document) /\ (blocks # <<>> => document # {})

(***************************************************************************)
(* The vector of a row is the vector of its words with a hash for each     *)
(* lexeme: no lexeme in clear, none cut or joined, and the positions are   *)
(* those of the words.  It rests on the signs that the tokenizer lets into *)
(* a word, since the reader of the vector does not take every lexeme.      *)
(***************************************************************************)
Hashed(words) ==
  LET hashed[n \in 0..Len(words)] ==
        IF n = 0 THEN <<>>
        ELSE IF Repeated(words, n) THEN hashed[n - 1]
        ELSE LET positions == Positions(words, words[n])
             IN hashed[n - 1] \o (IF n = 1 THEN <<>> ELSE <<PureText(" ")>>)
                  \o <<PureText("'"), WordToEncrypt(words[n]), PureText("'"), PureText(":")>>
                  \o [k \in DOMAIN positions |-> PureText(positions[k])]
  IN hashed[Len(words)]

VectorsAreHashed == \A row \in document : row.tsv = Hashed(row.words)

-----------------------------------------------------------------------------
(***************************************************************************)
(* fulltext.rs: "Parse the raw text data and create the document parts".   *)
(* A reply of success means that every word is in the rows.                *)
(***************************************************************************)
EveryWordIsIndexed == reply.status = 200 => WordsOf(blocks, Names) = AllWords
=============================================================================
