---------------------------- MODULE MCItemSearch -----------------------------
(***************************************************************************)
(* Searches by every shape of filter with up to three conditions, by some  *)
(* with four, by texts that miss one unit, by every comparison on every    *)
(* type, by page, and while tags and values change.                        *)
(***************************************************************************)
EXTENDS ItemSearch, TLC

MCNames == {"A", "B", "C", "D", "T", "F", "W", "x", "y"}
MCNumbers == {"0", "1", "2"}
MCNumberOf == ("0" :> 0) @@ ("1" :> 1) @@ ("2" :> 2)
MCBefore(type, a, b) ==
  CASE type = "Text" -> Len(a) < Len(b)
    [] type = "Bool" -> ~a /\ b
    [] OTHER -> a < b

MCItems == 1..16

MCTypes == {"Int", "Double", "Text", "Bool", "Date"}
MCValuesOf ==
  [Int |-> 0..2, Double |-> 0..2, Text |-> {<<"x">>, <<"x", " ", "y">>, <<"1">>}, Bool |-> BOOLEAN, Date |-> {0}]

MCTagNames == {<<n>> : n \in {"A", "B", "C", "D", "T", "F", "W"}}

InOrder == [n \in MCItems |-> n]
MCItemOrders == {InOrder, Reverse(InOrder)}

Sequence(S) == FoldSet(LAMBDA x, s : <<x>> \o s, <<>>, S)

(* Every order of a few keys; of more, some order and its reverse. *)
MCMapOrders(S) ==
  IF Cardinality(S) <= 3 THEN {s \in [1..Cardinality(S) -> S] : ToSet(s) = S}
  ELSE {Sequence(S), Reverse(Sequence(S))}

-----------------------------------------------------------------------------
(* Texts, as sequences of words *)

Text(words) == FlattenSeq([n \in DOMAIN words |-> words[n]])

Spaced(words) == FlattenSeq([n \in DOMAIN words |-> IF n = 1 THEN words[n] ELSE <<" ">> \o words[n]])

(* Spaces around AND and OR only *)
Compact(words) ==
  FlattenSeq([n \in DOMAIN words |->
                IF words[n] \in {<<"AND">>, <<"OR">>} THEN <<" ">> \o words[n] \o <<" ">> ELSE words[n]])

InParentheses(words) == <<<<"(">>>> \o words \o <<<<")">>>>

Tags == <<"A", "B", "C", "D">>

Equals1(n) == <<<<Tags[n]>>, <<"=", "=">>, <<"1">>>>

Lops == {<<<<"AND">>>>, <<<<"OR">>>>}

(* The filters on the tags first, ..., last in this order, as a whole or as *)
(* an operand; groups says whether an operand of several conditions may be  *)
(* in parentheses.                                                          *)
RECURSIVE Shapes(_, _, _)
Operands(first, last, groups) ==
  Shapes(first, last, groups)
    \cup (IF groups \/ first = last THEN {InParentheses(e) : e \in Shapes(first, last, groups)} ELSE {})

Shapes(first, last, groups) ==
  IF first = last THEN {Equals1(first)}
  ELSE UNION {{left \o lop \o right : left \in Operands(first, m, groups), lop \in Lops,
                                      right \in Operands(m + 1, last, groups)} : m \in first..(last - 1)}

Small == UNION {Operands(1, n, TRUE) : n \in 1..3}

(* Four conditions: in a row, or two by two *)
Pairs(first) == {InParentheses(e) : e \in Shapes(first, first + 1, FALSE)}

Four == {e \in Shapes(1, 4, FALSE) : InParentheses(Equals1(1)) # SubSeq(e, 1, 5)}
          \cup {left \o lop \o right : left \in Pairs(1), lop \in Lops, right \in Pairs(3)}

Doubled == {InParentheses(e) : e \in Operands(1, 2, TRUE)}

Without(text, n) == SubSeq(text, 1, n - 1) \o SubSeq(text, n + 1, Len(text))

(* Two operands that have two pairs of parentheses each *)
DoublePairs ==
  UNION {{InParentheses(left) \o lop \o InParentheses(right) :
            left \in {InParentheses(e) : e \in Shapes(1, m, TRUE)}, lop \in Lops,
            right \in {InParentheses(e) : e \in Shapes(m + 1, 3, TRUE)}} : m \in 1..2}

Cut == UNION {{Without(Spaced(e), n) : n \in DOMAIN Spaced(e)} : e \in Operands(1, 2, TRUE)}

ShapeTexts == {Spaced(e) : e \in Small \cup Four \cup Doubled \cup DoublePairs} \cup {Compact(e) : e \in Operands(1, 2, TRUE) \cup Doubled} \cup Cut

TagsIn(text) == SelectSeq(<<<<"A">>, <<"B">>, <<"C">>, <<"D">>>>, LAMBDA tag : tag[1] \in ToSet(text))

(* A truth table: item i has 1 for the tags of the bits of i - 1, 2 for the others *)
Bit(i, n) == ((i - 1) \div 2^(n - 1)) % 2

TruthTable ==
  [at \in MCItems \X {<<Tags[n]>> : n \in 1..4} |->
     [type |-> "Int", value |-> 2 - Bit(at[1], CHOOSE n \in 1..4 : <<Tags[n]>> = at[2])]]

Request(customer, text, order_tags, start_page, page_size) ==
  [customer |-> customer, text |-> text, order_tags |-> order_tags, start_page |-> start_page, page_size |-> page_size]

-----------------------------------------------------------------------------
(* Comparisons on every type, with values of the type and of other types *)

Collection ==
  [at \in (1..3) \X {<<n>> : n \in {"A", "D", "T", "F", "W"}} |->
     CASE at[2] = <<"A">> -> [type |-> "Int", value |-> at[1] - 1]
       [] at[2] = <<"D">> -> [type |-> "Double", value |-> 3 - at[1]]
       [] at[2] = <<"T">> -> [type |-> "Text", value |-> <<<<"x">>, <<"x", " ", "y">>, <<"1">>>>[at[1]]]
       [] at[2] = <<"F">> -> [type |-> "Bool", value |-> at[1] = 2]
       [] at[2] = <<"W">> -> [type |-> "Date", value |-> 0]]

Compared(n, fop, value) == <<<<n>>, fop, value>>

Quoted(text) == <<Quote>> \o text \o <<Quote>>

Comparisons ==
  {Compared(n, fop, <<"1">>) : n \in {"A", "D", "T", "W"}, fop \in LIST_OF_FOP}
    \cup {Compared("T", fop, Quoted(text)) : fop \in LIST_OF_FOP, text \in {<<"x">>, <<"x", " ", "y">>, <<"x", "%">>}}
    \cup {Compared("A", <<"=", "=">>, Quoted(<<"x">>)), Compared("A", <<"=", "=">>, <<"TRUE">>),
          Compared("B", <<"=", "=">>, <<"1">>)}
    \cup {Compared("F", <<"=", "=">>, <<"TRUE">>), Compared("F", <<"=", "=">>, <<"FALSE">>),
          Compared("F", <<"!", "=">>, <<"TRUE">>), Compared("F", <<">">>, <<"TRUE">>)}

NonNegative == Compared("A", <<">", "=">>, <<"0">>)

(* The same tag twice *)
Twice == {Compared("A", <<"<">>, <<"2">>) \o lop \o Compared("A", fop, <<"0">>) : lop \in Lops, fop \in {<<">">>, <<"=", "=">>}}

ComparisonTexts ==
  {Spaced(NonNegative \o <<<<"AND">>>> \o e) : e \in Comparisons \cup {InParentheses(c) : c \in Comparisons}}
    \cup {Spaced(e) : e \in Twice}

-----------------------------------------------------------------------------
(* Pages of items some of which are equal for the sort *)

Ties ==
  [at \in (1..4) \X {<<"A">>, <<"B">>} |->
     [type |-> "Int", value |-> IF at[2] = <<"A">> THEN <<1, 2, 2, 0>>[at[1]] ELSE <<2, 1, 0, 0>>[at[1]]]]

PageText == Spaced(Compared("A", <<">">>, <<"0">>) \o <<<<"AND">>>> \o Compared("B", <<">", "=">>, <<"0">>))

PageRequests ==
  {Request("ties", PageText, order, page, size) : order \in {<<<<"A">>>>, <<<<"B">>, <<"A">>>>, <<<<"A">>, <<"B">>>>},
                                          page \in 0..2, size \in 0..2}

(* Changes of one tag and of the value of one item *)
OneItem == (<<1, <<"A">>>> :> [type |-> "Int", value |-> 1])

ChangeTexts == {Spaced(InParentheses(Equals1(1))), Spaced(InParentheses(Compared("A", <<">">>, <<"0">>)))}

TypesIn(values) == [n \in {at[2] : at \in DOMAIN values} |-> values[CHOOSE at \in DOMAIN values : at[2] = n].type]

Customer(values, moving, n) == [tags |-> TypesIn(values), values |-> values, moving |-> moving, changes |-> n]

MCCustomers ==
  [shapes |-> Customer(TruthTable, NoTags, 0), types |-> Customer(Collection, NoTags, 0),
   ties |-> Customer(Ties, NoTags, 0), changing |-> Customer(OneItem, [at \in DOMAIN OneItem |-> {"Int", "Text"}], 4)]

MCRequests ==
  {Request("shapes", text, TagsIn(text), 0, NoPage) : text \in ShapeTexts}
    \cup {Request("types", text, <<<<"A">>>>, 0, NoPage) : text \in ComparisonTexts}
    \cup PageRequests
    \cup {Request("changing", text, <<<<"A">>>>, 0, NoPage) : text \in ChangeTexts}

(* A == 1 OR B == 1 AND (C == 1 OR D == 1), in parentheses *)
DeepText ==
  Spaced(InParentheses(Equals1(1) \o <<<<"OR">>>> \o Equals1(2) \o <<<<"AND">>>>
                         \o InParentheses(Equals1(3) \o <<<<"OR">>>> \o Equals1(4))))

DeepRequests == {Request("shapes", DeepText, <<<<"A">>>>, 0, NoPage)}
=============================================================================
