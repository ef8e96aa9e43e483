------------------------------ MODULE Tokenizer ------------------------------
(***************************************************************************)
(* ft_tokenizer.rs: the words of a text, block by block, and the vector of *)
(* its lexemes with each of them replaced by a hash.                       *)
(*                                                                         *)
(* A text is a sequence of graphemes: letters, digits, the five signs that *)
(* may stand in a word, and everything else, which separates words.        *)
(***************************************************************************)
EXTENDS Integers, Sequences

CONSTANTS
  LetterSigns,   \* graphemes with a letter in them
  DigitSigns,    \* those that start with a digit
  MIN_WORD_LEN   \* shorter words are left out: 4 in the code

WordSigns == {"/", ",", ".", "-", "@"}

(* What separates words is neither a letter nor a digit. *)
ASSUME SignsAssumption ==
  /\ {":", "'", " "} \cap (LetterSigns \cup DigitSigns) = {}
  /\ MIN_WORD_LEN \in Nat \ {0}

(* A defect: an apostrophe stands in a word. *)
IsLexeme_Apostrophe(g) == g \in WordSigns \cup LetterSigns \cup DigitSigns \cup {"'"}

IsLexeme(g) == g \in WordSigns \cup LetterSigns \cup DigitSigns

is_digit(g) == g \in DigitSigns \cup {"-"}

(* unicode_words, one after the other: what is neither letter nor digit goes. *)
clear_word(word) ==
  LET cleared[n \in 0..Len(word)] ==
        IF n = 0 THEN <<>>
        ELSE IF word[n] \in LetterSigns \cup DigitSigns THEN Append(cleared[n - 1], word[n]) ELSE cleared[n - 1]
  IN cleared[Len(word)]

-----------------------------------------------------------------------------
(* FTTokenizer: pattern_status guesses from the start of a word what it is, *)
(* and so which signs end it.                                               *)

NewBlock == [word |-> <<>>, pattern_status |-> "NORMAL", words |-> <<>>, counter |-> 0, stopped |-> FALSE]

terminate_word(s) ==
  LET w == IF s.pattern_status = "NORMAL" THEN clear_word(s.word) ELSE s.word
  IN [s EXCEPT !.words = IF Len(s.word) >= MIN_WORD_LEN THEN Append(@, w) ELSE @,
               !.pattern_status = "NORMAL",
               !.word = <<>>]

(* A block of n graphemes ends with the word that is being read. *)
EndOfWord(s, n) == [terminate_word(s) EXCEPT !.stopped = s.counter >= n]

Push(s, g, status) == [s EXCEPT !.word = Append(@, g), !.pattern_status = status]

(* One turn of the loop of next_n_words, for a grapheme of a word *)
Lexeme(s, g, n) ==
  CASE s.pattern_status = "NORMAL" ->
         IF g \in {"/", ",", "."} THEN EndOfWord(s, n)
         ELSE Push(s, g, IF s.word = <<>> /\ is_digit(g) THEN "STARTED" ELSE IF g = "@" THEN "EMAIL" ELSE "NORMAL")
    [] s.pattern_status = "STARTED" ->
         Push(s, g, IF g \in {"/", "-"} THEN "DATE" ELSE IF g \in {",", "."} THEN "NUMBER" ELSE "STARTED")
    [] s.pattern_status = "DATE" -> IF g \in {",", "."} THEN EndOfWord(s, n) ELSE Push(s, g, "DATE")
    [] s.pattern_status \in {"NUMBER", "EMAIL"} -> Push(s, g, s.pattern_status)

(* A defect: a block ends in the middle of a word. *)
Turn_CutsWords(s, g, n) ==
  LET counted == [s EXCEPT !.counter = @ + 1]
  IN IF s.stopped THEN s
     ELSE IF IsLexeme(g) THEN [Lexeme(counted, g, n) EXCEPT !.stopped = counted.counter >= n] ELSE EndOfWord(counted, n)

Turn(s, g, n) ==
  LET counted == [s EXCEPT !.counter = @ + 1]
  IN IF s.stopped THEN s
     ELSE IF IsLexeme(g) THEN Lexeme(counted, g, n) ELSE EndOfWord(counted, n)

(* The loop, after each of the graphemes that follow index *)
Turns(text, index, n) ==
  LET turns[k \in index..Len(text)] ==
        IF k = index THEN NewBlock ELSE Turn(turns[k - 1], text[k], n)
  IN turns

(* The words of the next block after index graphemes, and where it ends *)
next_n_words(text, index, n) ==
  LET s == Turns(text, index, n)[Len(text)]
  IN [words |-> terminate_word(s).words, index |-> index + s.counter]

-----------------------------------------------------------------------------
(***************************************************************************)
(* parse_vector reads a tsvector as PostgreSQL writes it: lexemes between  *)
(* quotes, with their positions.  The phrase is the same vector, where the *)
(* lexemes are set apart, for replace_words_in_phrase to put their hashes  *)
(* in.  PureText(c) is a character, WordToEncrypt(w) the hash of a lexeme. *)
(***************************************************************************)
PureText(c) == [hashed |-> FALSE, text |-> <<c>>]
WordToEncrypt(lexeme) == [hashed |-> TRUE, text |-> lexeme]

NewPhrase == [mode |-> "Clear", lexeme |-> <<>>, phrase |-> <<>>]

Colon(s) ==
  CASE s.mode = "PendingEnd" ->
         [s EXCEPT !.mode = "Clear", !.phrase = @ \o <<WordToEncrypt(s.lexeme), PureText("'"), PureText(":")>>]
    [] s.mode = "Word"  -> [s EXCEPT !.lexeme = Append(@, ":")]
    [] s.mode = "Clear" -> s

(* A quote in a lexeme is written twice: the second one is passed over. *)
SingleQuote(s) ==
  CASE s.mode = "Word" -> [s EXCEPT !.mode = "PendingEnd"]
    [] s.mode = "PendingEnd" -> s
    [] s.mode = "Clear" -> [mode |-> "Word", lexeme |-> <<>>, phrase |-> Append(s.phrase, PureText("'"))]

OtherSign(s, c) ==
  CASE s.mode = "Word" -> [s EXCEPT !.lexeme = Append(@, c)]
    [] s.mode = "PendingEnd" ->
         IF c = " " THEN s ELSE [s EXCEPT !.mode = "Word", !.lexeme = @ \o <<"'", c>>]
    [] s.mode = "Clear" -> [s EXCEPT !.phrase = Append(@, PureText(c))]

Sign(s, g) == IF g = ":" THEN Colon(s) ELSE IF g = "'" THEN SingleQuote(s) ELSE OtherSign(s, g)

parse_vector(tsvector) ==
  LET parsed[n \in 0..Len(tsvector)] ==
        IF n = 0 THEN NewPhrase ELSE Sign(parsed[n - 1], tsvector[n])
  IN parsed[Len(tsvector)]

encrypt_tsvector(tsvector) == parse_vector(tsvector).phrase

-----------------------------------------------------------------------------
(***************************************************************************)
(* PostgreSQL: to_tsvector, with every word a lexeme of its own, and the   *)
(* vector as a text.  Of a position its last digit is written.             *)
(***************************************************************************)
PositionSigns == <<"0", "1", "2", "3", "4", "5", "6", "7", "8", "9">>
PositionSign(n) == PositionSigns[(n % 10) + 1]

Positions(words, word) ==
  LET positions[n \in 0..Len(words)] ==
        IF n = 0 THEN <<>>
        ELSE IF words[n] # word THEN positions[n - 1]
        ELSE positions[n - 1] \o (IF positions[n - 1] = <<>> THEN <<>> ELSE <<",">>) \o <<PositionSign(n)>>
  IN positions[Len(words)]

(* A quote in a lexeme is written twice. *)
Doubled(word) ==
  LET doubled[n \in 0..Len(word)] ==
        IF n = 0 THEN <<>>
        ELSE doubled[n - 1] \o (IF word[n] = "'" THEN <<"'", "'">> ELSE <<word[n]>>)
  IN doubled[Len(word)]

(* A word that the vector has already, with all its positions *)
Repeated(words, n) == \E m \in 1..(n - 1) : words[m] = words[n]

to_tsvector(words) ==
  LET vector[n \in 0..Len(words)] ==
        IF n = 0 THEN <<>>
        ELSE IF Repeated(words, n) THEN vector[n - 1]
        ELSE vector[n - 1] \o (IF n = 1 THEN <<>> ELSE <<" ">>)
               \o <<"'">> \o Doubled(words[n]) \o <<"'", ":">> \o Positions(words, words[n])
  IN vector[Len(words)]
=============================================================================
