------------------------------ MODULE Generator ------------------------------
(***************************************************************************)
(* engine/generator.rs: from the tree of a filter to the SQL query that    *)
(* finds the items, and what the query does to the tables.                 *)
(*                                                                         *)
(* A tag name and a text are sequences of units, as in the filter; texts   *)
(* stand for their unaccented lower case.                                  *)
(***************************************************************************)
EXTENDS FilterAst

CONSTANTS
  NumberOf,        \* the number that each of Numbers spells
  Before(_, _, _)  \* the order of the database on the values of a type

NumericOperators == {"EQ", "NEQ", "GT", "GTE", "LT", "LTE"}

(* No entry for Date, DateTime and Link *)
LEGAL_OPERATORS_BY_TAG_TYPE ==
  [Bool |-> {"EQ", "NEQ"}, Int |-> NumericOperators, Double |-> NumericOperators, Text |-> {"EQ", "NEQ", "LIKE"}]

RECURSIVE vectorize_conditions(_)
vectorize_conditions(ast) ==
  IF ast.kind = "Condition" THEN <<ast>>
  ELSE FlattenSeq([n \in DOMAIN ast.leaves |-> vectorize_conditions(ast.leaves[n])])

(* A defect: one condition for each tag. *)
extract_all_conditions_ByAttribute(ast) ==
  LET conditions == vectorize_conditions(ast)
      Place(key) ==
        CHOOSE n \in DOMAIN conditions :
          /\ \E m \in DOMAIN conditions : conditions[m].key = key /\ conditions[m].attribute = conditions[n].attribute
          /\ \A m \in 1..(n - 1) : conditions[m].attribute # conditions[n].attribute
  IN [key \in {conditions[n].key : n \in DOMAIN conditions} |-> [condition |-> conditions[Place(key)], occurrence |-> 0]]

(* By key: the condition, and how many of the same attribute come before it *)
extract_all_conditions(ast) ==
  LET conditions == vectorize_conditions(ast)
      Place(key) == CHOOSE n \in DOMAIN conditions : conditions[n].key = key
      Earlier(n) == {m \in 1..(n - 1) : conditions[m].attribute = conditions[n].attribute}
  IN [key \in {conditions[n].key : n \in DOMAIN conditions} |->
        [condition |-> conditions[Place(key)], occurrence |-> Cardinality(Earlier(Place(key)))]]

(* types: the types of the tags that are defined, by name *)
verify_filter_conditions(conditions, types) ==
  \A key \in DOMAIN conditions :
    LET condition == conditions[key].condition
    IN /\ condition.attribute \in DOMAIN types
       /\ types[condition.attribute] \in DOMAIN LEGAL_OPERATORS_BY_TAG_TYPE
       /\ condition.operator \in LEGAL_OPERATORS_BY_TAG_TYPE[types[condition.attribute]]

(* FilterValue::to_string *)
Spelled(value) == IF value.kind = "ValueString" THEN value.token ELSE <<value.token>>

(* What the SQL of a condition does with a value: a Bool takes it or its    *)
(* negation, every other type compares it with what the filter spells.      *)
build_tag_value_filter(condition, type) ==
  LET spelled == Spelled(condition.value)
  IN [type |-> type,
      operator |-> IF type # "Bool" THEN condition.operator
                   ELSE IF condition.operator = "EQ" /\ spelled = <<"TRUE">> THEN "IS" ELSE "NOT",
      spelled |-> spelled]

(* One outer join for each condition, named after its attribute and occurrence *)
build_query_tag(found, type) ==
  [attribute |-> found.condition.attribute, occurrence |-> found.occurrence,
   filter |-> build_tag_value_filter(found.condition, type)]

(* The sorting tags that no condition mentions are left out. *)
build_order_column(order_tags, joins) ==
  SelectSeq(order_tags, LAMBDA tag : \E key \in DOMAIN joins : joins[key].attribute = tag)

generate_search_sql(ast, order_tags, types) ==
  LET conditions == extract_all_conditions(ast)
      joins == [key \in DOMAIN conditions |->
                  build_query_tag(conditions[key], types[conditions[key].condition.attribute])]
  IN [joins |-> joins, filter |-> ast, order |-> build_order_column(order_tags, joins)]

(* The tags whose definitions are needed *)
TagsOf(ast, order_tags) ==
  {vectorize_conditions(ast)[n].attribute : n \in DOMAIN vectorize_conditions(ast)} \cup ToSet(order_tags)

-----------------------------------------------------------------------------
(***************************************************************************)
(* The database runs the query.  tag_value gives some items, for some      *)
(* tags, a value and the type whose column it is in.  A column is <<>>     *)
(* when it is NULL.                                                        *)
(***************************************************************************)
IsNumber(spelled) == Len(spelled) = 1 /\ spelled[1] \in Numbers

(* A number is put in the statement as it is spelled, a text in quotes. *)
IsSql(query) ==
  /\ \A key \in DOMAIN query.joins :
       LET filter == query.joins[key].filter
       IN filter.type \in {"Int", "Double"} => IsNumber(filter.spelled)
  /\ query.order # <<>>

(* "%" at the end of a pattern stands for anything. *)
Like(text, pattern) ==
  IF pattern # <<>> /\ Last(pattern) = "%" THEN IsPrefix(Front(pattern), text) ELSE text = pattern

Compare(operator, a, b) ==
  CASE operator = "EQ"   -> a = b
    [] operator = "NEQ"  -> a # b
    [] operator = "LIKE" -> Like(a, b)
    [] operator = "GT"   -> a > b
    [] operator = "GTE"  -> a >= b
    [] operator = "LT"   -> a < b
    [] operator = "LTE"  -> a <= b

Passes(filter, v) ==
  CASE filter.operator = "IS"  -> v
    [] filter.operator = "NOT" -> ~v
    [] OTHER -> Compare(filter.operator, v, IF filter.type = "Text" THEN filter.spelled ELSE NumberOf[filter.spelled[1]])

(* The column that the outer join of a condition adds to an item *)
Joined(join, item, tag_value) ==
  LET at == <<item, join.attribute>>
  IN IF /\ at \in DOMAIN tag_value
        /\ tag_value[at].type = join.filter.type
        /\ Passes(join.filter, tag_value[at].value)
     THEN <<tag_value[at].value>> ELSE <<>>

RECURSIVE build_query_filter(_, _)
(* The items that the WHERE clause keeps: columns says which are not NULL. *)
build_query_filter(ast, columns) ==
  IF ast.kind = "Condition" THEN columns[ast.key] # <<>>
  ELSE IF ast.operator = "AND" THEN \A n \in DOMAIN ast.leaves : build_query_filter(ast.leaves[n], columns)
  ELSE \E n \in DOMAIN ast.leaves : build_query_filter(ast.leaves[n], columns)

Columns(query, item, tag_value) ==
  [key \in DOMAIN query.joins |-> Joined(query.joins[key], item, tag_value)]

(* A defect: a row for each condition that the item meets. *)
Kept_ByCondition(query, items, tag_value) ==
  FlattenSeq([n \in DOMAIN items |->
    LET columns == Columns(query, items[n], tag_value)
    IN IF build_query_filter(query.filter, columns)
       THEN [k \in 1..Cardinality({key \in DOMAIN columns : columns[key] # <<>>}) |-> items[n]] ELSE <<>>])

Kept(query, items, tag_value) ==
  SelectSeq(items, LAMBDA item : build_query_filter(query.filter, Columns(query, item, tag_value)))

(***************************************************************************)
(* ORDER BY.  COALESCE takes the first of the columns of a tag that is not *)
(* NULL, and they are all equal.  NULL comes last.                         *)
(***************************************************************************)
Coalesce(query, columns, tag) ==
  LET present == {key \in DOMAIN columns : query.joins[key].attribute = tag /\ columns[key] # <<>>}
  IN IF present = {} THEN <<>> ELSE columns[CHOOSE key \in present : TRUE]

TypeIn(query, tag) == query.joins[CHOOSE key \in DOMAIN query.joins : query.joins[key].attribute = tag].filter.type

ColumnBefore(type, a, b) == a # <<>> /\ (b = <<>> \/ Before(type, a[1], b[1]))

(* The first sorting tag on which two rows differ decides. *)
RowBefore(query, a, b) ==
  \E n \in DOMAIN query.order : /\ ColumnBefore(TypeIn(query, query.order[n]), a[n], b[n])
                                /\ \A m \in 1..(n - 1) : a[m] = b[m]

(* items: in the order the database happens to have them, which decides     *)
(* between rows that are equal for the query.                               *)
SortedRows(query, items, tag_value) ==
  LET kept == Kept(query, items, tag_value)
      row == [k \in DOMAIN kept |->
                LET columns == Columns(query, kept[k], tag_value)
                IN [n \in DOMAIN query.order |-> Coalesce(query, columns, query.order[n])]]
      place == [k \in DOMAIN kept |->
                  1 + Cardinality({m \in DOMAIN kept :
                         RowBefore(query, row[m], row[k]) \/ (m < k /\ ~RowBefore(query, row[k], row[m]))})]
  IN [p \in DOMAIN kept |-> kept[CHOOSE k \in DOMAIN kept : place[k] = p]]
=============================================================================
