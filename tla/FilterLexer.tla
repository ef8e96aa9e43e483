----------------------------- MODULE FilterLexer -----------------------------
(***************************************************************************)
(* lex3 of filter/filter_lexer.rs: from the text of a filter to its        *)
(* tokens, or to an error with the place it points at.                     *)
(*                                                                         *)
(* A text is a sequence of units.  A character that has a role of its own  *)
(* is a unit ("(", ")", " ", the quote, "=", "!", ">", "<"); a run of      *)
(* letters and digits is one unit too, since the lexer treats all its      *)
(* characters alike and compares it as a whole.  Places are counted in     *)
(* units, from 1: the lexer reads "+" and the text, so that its index is 0 *)
(* before the first one.  The offset of lex3_with_offset is always 0.      *)
(***************************************************************************)
EXTENDS Integers, Sequences, SequencesExt

CONSTANTS
  Names,    \* runs of letters, digits and "_"
  Numbers,  \* runs of digits that are an i32
  Wide      \* other characters, of WideLen bytes each

ASSUME UnitsAssumption == Names \cap Numbers = {} /\ Wide \cap (Names \cup Numbers) = {}

Quote == "\""
Keywords == {"AND", "OR", "TRUE", "FALSE", "LIKE"}
Letters == Names \cup Numbers \cup Keywords  \* is_valid_char_attribute holds of all of them

WideLen == 4  \* the bytes of an emoji in UTF-8

End == "end"  \* read_char_at_index finds nothing

read_char_at_index(text, i) == IF i \in DOMAIN text THEN text[i] ELSE End

(* String::len of a unit, in units: bytes count, where chars().count() counts one. *)
Bytes(units) == Len(units) + (WideLen - 1) * Len(SelectSeq(units, LAMBDA u : u \in Wide))

-----------------------------------------------------------------------------
(* Tokens and errors *)

Token(kind, token, position) == [kind |-> kind, token |-> token, position |-> position]

NoError == [error_code |-> "none", char_position |-> 0]

FilterError(code, position) == [error_code |-> code, char_position |-> position]

(* Every routine leaves the index somewhere, with the tokens it has read. *)
Ok(i, tokens) == [index |-> i, tokens |-> tokens, error |-> NoError]
Err(code, position) == [index |-> 0, tokens |-> <<>>, error |-> FilterError(code, position)]

Failed(r) == r.error # NoError

-----------------------------------------------------------------------------
(* The parts of a condition *)

LIST_OF_FOP ==
  {<<"=", "=">>, <<"!", "=">>, <<">", "=">>, <<"=", ">">>, <<"<", "=">>, <<"=", "<">>,
   <<">">>, <<"<">>, <<"LIKE">>}

OperatorOf(fop) ==
  CASE fop = <<"=", "=">> -> "EQ"
    [] fop = <<"!", "=">> -> "NEQ"
    [] fop = <<">">> -> "GT"
    [] fop = <<"<">> -> "LT"
    [] fop \in {<<">", "=">>, <<"=", ">">>} -> "GTE"
    [] fop \in {<<"<", "=">>, <<"=", "<">>} -> "LTE"
    [] fop = <<"LIKE">> -> "LIKE"

find_possible_operator_with(c, op) == \E fop \in LIST_OF_FOP : IsPrefix(op \o <<c>>, fop)

(* append_attribute: nothing before the operator is an error. *)
append_attribute(attribute, i) ==
  IF attribute = <<>> THEN Err("WrongNumericValue", i)
  ELSE Ok(i, <<Token("Attribute", attribute, i - Len(attribute))>>)

(* create_fop and append_fop *)
append_fop(fop, i) ==
  IF fop \notin LIST_OF_FOP THEN Err("UnknownFilterOperator", i - Len(fop))
  ELSE Ok(i, <<Token("Operator", OperatorOf(fop), i - Len(fop))>>)

Unquoted(value) == SelectSeq(value, LAMBDA u : u # Quote)

(* append_value: a text keeps what is between its quotes; the rest is TRUE, *)
(* FALSE or an i32.  A text that the input ends is a text as well.          *)
append_value(value, i) ==
  IF value # <<>> /\ Head(value) = Quote
    THEN Ok(i, <<Token("ValueString", Unquoted(value), i - Len(Unquoted(value)))>>)
  ELSE IF value \in {<<"TRUE">>, <<"FALSE">>}
    THEN Ok(i, <<Token("ValueBool", value[1], i - 1)>>)
  ELSE IF Len(value) = 1 /\ value[1] \in Numbers
    THEN Ok(i, <<Token("ValueInt", value[1], i - 1)>>)
  ELSE Err("WrongNumericValue", i - Bytes(value))

-----------------------------------------------------------------------------
(***************************************************************************)
(* condition_lexer_index: COND ::= ATTR FOP VALUE.  The word is what has   *)
(* been read of the lexeme that is expected.                               *)
(***************************************************************************)
Expecting(lexeme, tokens) ==
  [lexeme |-> lexeme, word |-> <<>>, text_mode |-> FALSE, tokens |-> tokens]

RECURSIVE ConditionLoop(_, _, _, _)

(* The lexeme is over: r is what append_... made of it. *)
NextLexeme(text, depth, i, c, lexeme, r) ==
  IF Failed(r) THEN r
  ELSE ConditionLoop(text, depth, i, Expecting(lexeme, c.tokens \o r.tokens))

EndOfCondition(c, i, r) == IF Failed(r) THEN r ELSE Ok(i, c.tokens \o r.tokens)

ConditionLoop(text, depth, i, c) ==
  LET u == read_char_at_index(text, i)
      Push == [c EXCEPT !.word = @ \o <<u>>]
      value == IF c.lexeme = "Value" THEN c.word ELSE <<>>
  IN CASE u = End ->
            IF depth > 0 THEN Err("InvalidLogicalDepth", i)
            ELSE EndOfCondition(c, i, append_value(value, i))
       [] u = ")" ->
            IF c.text_mode THEN Err("UnclosedQuote", i - Len(value))
            ELSE EndOfCondition(c, i - 1, append_value(value, i))
       [] u = " " /\ c.lexeme = "Attribute" ->
            NextLexeme(text, depth, i + 1, c, "FilterOperator", append_attribute(c.word, i))
       [] u = " " /\ c.lexeme = "FilterOperator" ->
            NextLexeme(text, depth, i + 1, c, "Value", append_fop(c.word, i))
       [] u = " " /\ c.lexeme = "Value" ->
            IF c.text_mode THEN ConditionLoop(text, depth, i + 1, Push)
            ELSE IF value = <<>> THEN ConditionLoop(text, depth, i + 1, c)
            ELSE EndOfCondition(c, i, append_value(value, i))
       [] u \notin {End, ")", " "} /\ c.lexeme = "Attribute" ->
            IF u \in Letters THEN ConditionLoop(text, depth, i + 1, Push)
            ELSE IF ~find_possible_operator_with(u, <<>>) THEN Err("IncorrectAttributeChar", i)
            ELSE NextLexeme(text, depth, i, c, "FilterOperator", append_attribute(c.word, i))
       [] u \notin {End, ")", " "} /\ c.lexeme = "FilterOperator" ->
            IF find_possible_operator_with(u, c.word)
              THEN ConditionLoop(text, depth, i + 1, Push)
              ELSE NextLexeme(text, depth, i, c, "Value", append_fop(c.word, i))
       [] u \notin {End, ")", " "} /\ c.lexeme = "Value" ->
            IF u # Quote THEN ConditionLoop(text, depth, i + 1, Push)
            ELSE IF c.text_mode THEN EndOfCondition(c, i, append_value(Push.word, i))
            ELSE ConditionLoop(text, depth, i + 1, [Push EXCEPT !.text_mode = TRUE])

condition_lexer_index(text, i, depth) == ConditionLoop(text, depth, i, Expecting("Attribute", <<>>))

-----------------------------------------------------------------------------
(***************************************************************************)
(* exp_lexer_index reads the inside of a pair of parentheses, the text     *)
(* itself being one at depth 0; lopexp_lexer_index reads what follows the  *)
(* first operand: an operator and one more operand.                        *)
(***************************************************************************)
RECURSIVE ExpLoop(_, _, _, _, _)
RECURSIVE LopexpLoop(_, _, _, _, _, _)

exp_lexer_index(text, i, depth) ==
  ExpLoop(text, depth, i + 1, "ExpressionOrCondition", <<Token("LogicalOpen", "(", i)>>)

lopexp_lexer_index(text, i, depth) == LopexpLoop(text, depth, i, "LogicalOperator", <<>>, <<>>)

(* A condition ends inside a pair of parentheses: the text must not. *)
CutShort(text, depth, r) == depth > 0 /\ read_char_at_index(text, r.index) = End

(* The next turn of a loop sees a closing parenthesis again. *)
StepBack(text, r) == IF read_char_at_index(text, r.index) = ")" THEN r.index - 1 ELSE r.index

ExpLoop(text, depth, i, expected, tokens) ==
  LET u == read_char_at_index(text, i)
      Rest(r, at) ==
        IF Failed(r) THEN r
        ELSE ExpLoop(text, depth, at + 1, "LogicalOperatorOrNothing", tokens \o r.tokens)
  IN CASE u = "(" -> LET r == exp_lexer_index(text, i, depth + 1) IN Rest(r, r.index)
       [] u = " " -> ExpLoop(text, depth, i + 1, expected, tokens)
       [] u \in {")", End} ->
            IF depth = 0 /\ u = ")" THEN Err("InvalidLogicalDepth", i)
            ELSE Ok(i, tokens \o <<Token("LogicalClose", ")", i)>>)
       [] u \notin {"(", ")", " ", End} /\ expected = "ExpressionOrCondition" ->
            LET r == condition_lexer_index(text, i, depth)
            IN IF ~Failed(r) /\ CutShort(text, depth, r) THEN Err("IncompleteExpression", r.index)
               ELSE Rest(r, StepBack(text, r))
       [] u \notin {"(", ")", " ", End} /\ expected = "LogicalOperatorOrNothing" ->
            LET r == lopexp_lexer_index(text, i, depth) IN Rest(r, r.index)

(* The logical operator that ends at a space *)
LogicalOperatorToken(lop, i) ==
  IF lop \in {<<"AND">>, <<"OR">>} THEN Ok(i, <<Token("BinaryLogicalOperator", lop[1], i - 1)>>)
  ELSE Err("WrongLogicalOperator", i - Bytes(lop) - 1)

LopexpLoop(text, depth, i, expected, lop, tokens) ==
  LET u == read_char_at_index(text, i)
      Operand(r) == IF Failed(r) THEN r ELSE Ok(StepBack(text, r), tokens \o r.tokens)
  IN CASE u = End -> Err("EmptyLogicalOperation", i)
       [] u = ")" -> Ok(i, tokens)
       [] u = " " ->
            IF expected = "ExpressionOrCondition" \/ lop = <<>>
              THEN LopexpLoop(text, depth, i + 1, expected, lop, tokens)
            ELSE LET r == LogicalOperatorToken(lop, i)
                 IN IF Failed(r) THEN r
                    ELSE LopexpLoop(text, depth, i + 1, "ExpressionOrCondition", lop, tokens \o r.tokens)
       [] u = "(" ->
            LET r == exp_lexer_index(text, i, depth + 1)
                after == Operand(r)
            IN IF Failed(r) THEN r
               ELSE IF read_char_at_index(text, r.index) = End THEN Err("IncompleteExpression", r.index)
               ELSE LopexpLoop(text, depth, after.index + 1, expected, lop, after.tokens)
       [] u \notin {"(", ")", " ", End} /\ expected = "LogicalOperator" ->
            LopexpLoop(text, depth, i + 1, expected, lop \o <<u>>, tokens)
       [] u \notin {"(", ")", " ", End} /\ expected = "ExpressionOrCondition" ->
            LET r == condition_lexer_index(text, i, depth)
            IN IF ~Failed(r) /\ CutShort(text, depth, r) THEN Err("IncompleteExpression", r.index)
               ELSE Operand(r)

(* lex3: the parentheses of depth 0 are taken off. *)
lex3(text) ==
  LET r == exp_lexer_index(text, 0, 0)
  IN IF Failed(r) THEN r ELSE [r EXCEPT !.tokens = SubSeq(@, 2, Len(@) - 1)]
=============================================================================
