---------------------------- MODULE FilterMeaning ----------------------------
(***************************************************************************)
(* What a filter means, from the grammar in the comments of filter_lexer:  *)
(* a reference for the lexer, the normaliser, the parser and the generator *)
(* together.  OR binds less than AND, both from the left; spaces do not    *)
(* matter outside quotes.                                                  *)
(***************************************************************************)
EXTENDS Generator

CountIn(s, n, S) == Cardinality({m \in 1..n : s[m] \in S})

InQuotes(s, n) == CountIn(s, n - 1, {Quote}) % 2 = 1

WithoutSpaces(text) ==
  FlattenSeq([n \in DOMAIN text |-> IF text[n] = " " /\ ~InQuotes(text, n) THEN <<>> ELSE <<text[n]>>])

(* The places of an operator that no parentheses enclose *)
AtTop(s, lop) ==
  {n \in DOMAIN s : s[n] = lop /\ ~InQuotes(s, n) /\ CountIn(s, n, {"("}) = CountIn(s, n, {")"})}

Malformed == [kind |-> "Malformed"]

IsQuoted(v) == Len(v) > 1 /\ {n \in DOMAIN v : v[n] = Quote} = {1, Len(v)}

ReadValue(v) ==
  IF IsQuoted(v) THEN Token("ValueString", SubSeq(v, 2, Len(v) - 1), 0)
  ELSE IF Len(v) = 1 /\ v[1] \in Numbers THEN Token("ValueInt", v[1], 0)
  ELSE IF Len(v) = 1 /\ v[1] \in {"TRUE", "FALSE"} THEN Token("ValueBool", v[1], 0)
  ELSE Token("Malformed", v, 0)

(* An attribute, the longest comparison that fits, and a value *)
ReadCondition(s) ==
  LET fops == {fop \in LIST_OF_FOP : IsPrefix(fop, Tail(s))}
      fop == CHOOSE longest \in fops : \A other \in fops : Len(other) <= Len(longest)
      value == ReadValue(SubSeq(s, Len(fop) + 2, Len(s)))
  IN IF s = <<>> THEN Malformed
     ELSE IF s[1] \notin Letters \/ fops = {} THEN Malformed
     ELSE IF value.kind = "Malformed" THEN Malformed
     ELSE Condition(0, <<s[1]>>, OperatorOf(fop), value)

RECURSIVE Reading(_)
Reading(s) ==
  LET lop == IF AtTop(s, "OR") # {} THEN "OR" ELSE "AND"
      n == CHOOSE m \in AtTop(s, lop) : \A other \in AtTop(s, lop) : other <= m
      left == Reading(SubSeq(s, 1, n - 1))
      right == Reading(SubSeq(s, n + 1, Len(s)))
  IN IF AtTop(s, lop) # {}
       THEN IF Malformed \in {left, right} THEN Malformed ELSE Logical(lop, left, right)
     ELSE IF Len(s) > 1 /\ s[1] = "("
       THEN IF Last(s) = ")" THEN Reading(SubSeq(s, 2, Len(s) - 1)) ELSE Malformed
     ELSE ReadCondition(s)

MeaningOf(text) == Reading(WithoutSpaces(text))

(* Whether a value, with its type, is what a condition asks for.  The types *)
(* without legal operators never meet one.                                  *)
Meets(condition, typed) ==
  LET value == condition.value
  IN CASE \/ typed.type \notin DOMAIN LEGAL_OPERATORS_BY_TAG_TYPE
          \/ condition.operator \notin LEGAL_OPERATORS_BY_TAG_TYPE[typed.type] -> FALSE
       [] typed.type = "Text" -> Compare(condition.operator, typed.value, Spelled(value))
       [] typed.type \in {"Int", "Double"} ->
            /\ IsNumber(Spelled(value))
            /\ Compare(condition.operator, typed.value, NumberOf[Spelled(value)[1]])
       [] typed.type = "Bool" ->
            /\ Spelled(value) \in {<<"TRUE">>, <<"FALSE">>}
            /\ Compare(condition.operator, typed.value, Spelled(value) = <<"TRUE">>)

RECURSIVE Satisfies(_, _, _)
Satisfies(meaning, item, tag_value) ==
  IF meaning.kind = "Condition"
    THEN LET at == <<item, meaning.attribute>>
         IN at \in DOMAIN tag_value /\ Meets(meaning, tag_value[at])
  ELSE IF meaning.operator = "AND"
    THEN \A n \in DOMAIN meaning.leaves : Satisfies(meaning.leaves[n], item, tag_value)
  ELSE \E n \in DOMAIN meaning.leaves : Satisfies(meaning.leaves[n], item, tag_value)

-----------------------------------------------------------------------------
(* Words that stand apart: spaces around the operators, and between words *)
IsSpaced(text) ==
  /\ \A n \in DOMAIN text :
       text[n] \in {"AND", "OR"} /\ ~InQuotes(text, n) =>
         n \in 2..(Len(text) - 1) /\ text[n - 1] = " " /\ text[n + 1] = " "
  /\ \A n \in 1..(Len(text) - 1) : ~(text[n] \in Letters /\ text[n + 1] \in Letters)

NumberOfConditions(text) == Len(SelectSeq(text, LAMBDA u : u \in {"AND", "OR"})) + 1
=============================================================================
