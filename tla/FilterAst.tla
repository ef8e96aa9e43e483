------------------------------ MODULE FilterAst ------------------------------
(***************************************************************************)
(* filter/filter_ast.rs: parse_tokens makes a tree of the normalised       *)
(* tokens.  Each routine starts at the first token of what it reads and    *)
(* leaves the index on its last one.                                       *)
(***************************************************************************)
EXTENDS FilterNormalizer

Values == {"ValueInt", "ValueString", "ValueBool"}

(* The key, uuid8(), stands for itself: the place of the condition. *)
Condition(key, attribute, operator, value) ==
  [kind |-> "Condition", key |-> key, attribute |-> attribute, operator |-> operator, value |-> value]

Logical(operator, left, right) == [kind |-> "Logical", operator |-> operator, leaves |-> <<left, right>>]

Parsed(i, ast) == [index |-> i, ast |-> ast, error |-> NoError]

(* The place of these errors counts tokens. *)
ParseError(code, i) == [index |-> i, ast |-> <<>>, error |-> FilterError(code, i)]

(* The closing mark is stepped over, whatever it is. *)
parse_condition(tokens, i) ==
  IF KindAt(tokens, i + 1, "none") # "Attribute" THEN ParseError("AttributeExpected", i + 1)
  ELSE IF KindAt(tokens, i + 2, "none") # "Operator" THEN ParseError("OperatorExpected", i + 2)
  ELSE IF KindAt(tokens, i + 3, "none") \notin Values THEN ParseError("ValueExpected", i + 3)
  ELSE Parsed(i + 4, Condition(i, tokens[i + 1].token, tokens[i + 2].token, tokens[i + 3]))

RECURSIVE parse_tokens_with_index(_, _)

(* LO EXPRESSION LOP EXPRESSION LC *)
parse_logical(tokens, i) ==
  LET left == parse_tokens_with_index(tokens, i + 1)
      lop == left.index + 1
      right == parse_tokens_with_index(tokens, lop + 1)
      close == right.index + 1
  IN IF Failed(left) THEN left
     ELSE IF KindAt(tokens, lop, "none") # "BinaryLogicalOperator" THEN ParseError("LogicalOperatorExpected", lop)
     ELSE IF Failed(right) THEN right
     ELSE IF KindAt(tokens, close, "none") # "LogicalClose" THEN ParseError("ClosingExpected", close)
     ELSE Parsed(close, Logical(tokens[lop].token, left.ast, right.ast))

parse_tokens_with_index(tokens, i) ==
  CASE KindAt(tokens, i, "none") = "LogicalOpen"   -> parse_logical(tokens, i)
    [] KindAt(tokens, i, "none") = "ConditionOpen" -> parse_condition(tokens, i)
    [] OTHER                                       -> ParseError("OpeningExpected", i)

(* Nothing looks at the tokens after the first expression. *)
parse_tokens(tokens) == parse_tokens_with_index(tokens, 1)
=============================================================================
