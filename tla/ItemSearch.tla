----------------------------- MODULE ItemSearch ------------------------------
(***************************************************************************)
(* search_item of item.rs: the text of a filter goes through the lexer,    *)
(* the passes of the normaliser and the parser; the definitions of the     *)
(* tags are read in a transaction of their own; the query made from both   *)
(* runs in a second one, and its rows are the answer.  Other requests may  *)
(* change tags and values in the meantime.                                 *)
(*                                                                         *)
(* The query that a search runs reads the tables once, so that two         *)
(* searches never meet: one is enough.                                     *)
(***************************************************************************)
EXTENDS FilterMeaning, SqlParams

CONSTANTS
  Items,          \* the items
  TagNames,       \* the names that tags may have
  Types,          \* the types they may have
  ValuesOf,       \* some values of each type
  Requests,       \* the searches to look at, each by a user of some customer
  Customers,      \* the tables of each customer, and what of them may change, how often
  ItemOrders,     \* the orders in which the table of items may be read
  MapOrders(_),   \* the orders in which a hash map or hash set with those keys may be walked
  Width,          \* start_page * page_size is a number of that many bits
  MaxInsertions,  \* bound on the parentheses that the normaliser inserts
  Faults          \* what may fail: see AllFaults

(***************************************************************************)
(* "session"   the session-manager does not know the session               *)
(* "database"  a connection, BEGIN, a statement or COMMIT fails            *)
(***************************************************************************)
AllFaults == {"session", "database"}

AllRequests == [text : Seq(Letters \cup Wide \cup {"(", ")", " ", Quote, "=", "!", ">", "<", "%"}),
                order_tags : Seq(TagNames), start_page : Nat, page_size : Nat \cup {-1},
                customer : DOMAIN Customers]

NoPage == -1  \* no page_size

IsTyped(v) == v.type \in Types /\ v.value \in ValuesOf[v.type]

ASSUME FaultsAssumption == Faults \subseteq AllFaults
ASSUME RequestsAssumption == \A r \in Requests : r \in AllRequests
ASSUME CustomersAssumption ==
  \A c \in DOMAIN Customers :
    LET customer == Customers[c]
    IN /\ DOMAIN customer.tags \subseteq TagNames
       /\ \A at \in DOMAIN customer.moving : at \in Items \X TagNames /\ customer.moving[at] \subseteq Types
       /\ customer.changes \in Nat
       /\ \A at \in DOMAIN customer.values :
            /\ at \in Items \X DOMAIN customer.tags
            /\ IsTyped(customer.values[at])

VARIABLES
  stage,           \* what search_item does next
  request,
  tokens,          \* of the filter
  ast,
  inserted,        \* how many pairs of parentheses N3 has inserted
  definitions,     \* the types of the tags, as read
  query,
  rows,            \* the items found
  answer,          \* the status, and the error of a filter
  tag_definition,  \* the tables: the type of each tag
  tag_value,       \* the value of each item for each tag that there is, and its column
  changes,         \* how many changes of them may still come
  snapshot         \* the tables that the query has read

tables == <<tag_definition, tag_value, changes>>
vars == <<stage, request, tokens, ast, inserted, definitions, query, rows, answer, tables, snapshot>>

Stages == {"session", "lex", "normalize", "AND", "OR", "parse", "definitions", "generate", "query", "commit"}

NoAnswer == [status |-> 0, error |-> NoError]
Status(code) == [status |-> code, error |-> NoError]
BadFilter(e) == [status |-> 400, error |-> e]

NoTags == [n \in {} |-> ""]  \* an empty function

Tables == [tags |-> tag_definition, values |-> tag_value]

TypeOK ==
  /\ stage \in Stages \cup {"answered"}
  /\ \A n \in DOMAIN tokens : DOMAIN tokens[n] = {"kind", "token", "position"}
  /\ inserted \in 0..MaxInsertions
  /\ DOMAIN definitions \subseteq TagNames
  /\ ToSet(rows) \subseteq Items /\ Len(rows) = Cardinality(ToSet(rows))  \* no item twice
  /\ answer.status \in {0, 200, 400, 401, 500}
  /\ DOMAIN tag_definition \subseteq TagNames
  /\ \A at \in DOMAIN tag_value :
       at \in Items \X DOMAIN tag_definition /\ IsTyped(tag_value[at])

Init ==
  /\ stage = "session"
  /\ request \in Requests
  /\ tag_definition = Customers[request.customer].tags
  /\ tag_value = Customers[request.customer].values
  /\ changes = Customers[request.customer].changes
  /\ tokens = <<>>
  /\ ast = <<>>
  /\ inserted = 0
  /\ definitions = NoTags
  /\ query = <<>>
  /\ rows = <<>>
  /\ answer = NoAnswer
  /\ snapshot = [tags |-> NoTags, values |-> NoTags]

-----------------------------------------------------------------------------
(* analyse_expression *)

Go(next) == stage' = next /\ UNCHANGED answer

Answer(a) == stage' = "answered" /\ answer' = a

CheckSession ==
  /\ stage = "session"
  /\ \/ Go("lex")
     \/ "session" \in Faults /\ Answer(Status(401))
  /\ UNCHANGED <<request, tokens, ast, inserted, definitions, query, rows, tables, snapshot>>

Lex ==
  /\ stage = "lex"
  /\ LET r == lex3(request.text)
     IN IF Failed(r) THEN Answer(BadFilter(r.error)) /\ UNCHANGED tokens
        ELSE Go("normalize") /\ tokens' = r.tokens
  /\ UNCHANGED <<request, ast, inserted, definitions, query, rows, tables, snapshot>>

(* normalize_lexeme: N1 and N2, then N3 for each operator. *)
Normalize ==
  /\ stage = "normalize"
  /\ tokens' = n2_mark_condition_open_close(n1_remove_successive_logical_open_close(tokens))
  /\ Go("AND")
  /\ UNCHANGED <<request, ast, inserted, definitions, query, rows, tables, snapshot>>

(* n3_binary_logical_operator_for_op, with MaxInsertions *)
InsertPair ==
  /\ stage \in {"AND", "OR"}
  /\ NextAdjustable(tokens, stage) # {}
  /\ inserted < MaxInsertions
  /\ tokens' = n3_insert_pair(tokens, stage)
  /\ inserted' = inserted + 1
  /\ UNCHANGED <<stage, answer, request, ast, definitions, query, rows, tables, snapshot>>

NoPairLeft ==
  /\ stage \in {"AND", "OR"}
  /\ NextAdjustable(tokens, stage) = {}
  /\ Go(IF stage = "AND" THEN "OR" ELSE "parse")
  /\ UNCHANGED <<request, tokens, ast, inserted, definitions, query, rows, tables, snapshot>>

Parse ==
  /\ stage = "parse"
  /\ LET r == parse_tokens(tokens)
     IN IF Failed(r) THEN Answer(BadFilter(r.error)) /\ UNCHANGED ast
        ELSE Go("definitions") /\ ast' = r.ast
  /\ UNCHANGED <<request, tokens, inserted, definitions, query, rows, tables, snapshot>>

-----------------------------------------------------------------------------
(* generate_search_sql *)

(***************************************************************************)
(* search_tags_by_names: IN (:p_name_0, :p_name_1, ...).  The names come   *)
(* out of a hash set in some order, and so do the parameters.  The answer  *)
(* is the tags found, or an error of the database.                         *)
(***************************************************************************)
ParamName(n) == <<"p_name_">> \o Decimal(n - 1)

SearchByNames(names, order) ==
  LET sql == parse_query_async([n \in DOMAIN names |-> <<":">> \o ParamName(n)],
                               [n \in DOMAIN order |-> ParamName(order[n])])
      asked == {names[order[Bindings(sql, Len(order))[n]]] : n \in DOMAIN names}
  IN IF IsBound(sql, Len(order)) THEN [found |-> asked \cap DOMAIN tag_definition, failed |-> FALSE]
     ELSE [found |-> {}, failed |-> TRUE]

(* TagSearchError when the definitions cannot be read: a 400. *)
GetTagDefinitions ==
  /\ stage = "definitions"
  /\ \/ \E names \in MapOrders(TagsOf(ast, request.order_tags)) :
        \E order \in MapOrders(DOMAIN names) :
          LET r == SearchByNames(names, order)
          IN IF r.failed THEN Answer(Status(400)) /\ UNCHANGED definitions
             ELSE Go("generate") /\ definitions' = [n \in r.found |-> tag_definition[n]]
     \/ "database" \in Faults /\ Answer(Status(400)) /\ UNCHANGED definitions
  /\ UNCHANGED <<request, tokens, ast, inserted, query, rows, tables, snapshot>>

(* TagUnknown, TagIncompatibleType, or the query *)
Generate ==
  /\ stage = "generate"
  /\ IF /\ TagsOf(ast, request.order_tags) \subseteq DOMAIN definitions
        /\ verify_filter_conditions(extract_all_conditions(ast), definitions)
       THEN Go("query") /\ query' = generate_search_sql(ast, request.order_tags, definitions)
       ELSE Answer(Status(400)) /\ UNCHANGED query
  /\ UNCHANGED <<request, tokens, ast, inserted, definitions, rows, tables, snapshot>>

-----------------------------------------------------------------------------
(* search_item_from_query *)

(* In 32 bits, and the product wraps. *)
Start == IF request.page_size = NoPage THEN 0 ELSE (request.start_page * request.page_size) % 2^Width

(* A defect: LIMIT counts from 0. *)
Page_WithOneMore(found) ==
  IF request.page_size = NoPage THEN SubSeq(found, Start + 1, Len(found))
  ELSE SubSeq(found, Start + 1, IF Start + request.page_size < Len(found) THEN Start + request.page_size + 1 ELSE Len(found))

Page(found) ==
  IF request.page_size = NoPage THEN SubSeq(found, Start + 1, Len(found))
  ELSE SubSeq(found, Start + 1, IF Start + request.page_size < Len(found) THEN Start + request.page_size ELSE Len(found))

SearchItemFromQuery ==
  /\ stage = "query"
  /\ \/ /\ IsSql(query)
        /\ \E order \in ItemOrders : rows' = Page(SortedRows(query, order, tag_value))
        /\ Go("commit")
        /\ snapshot' = Tables
     \/ /\ ~IsSql(query) \/ "database" \in Faults
        /\ Answer(Status(500))
        /\ UNCHANGED <<rows, snapshot>>
  /\ UNCHANGED <<request, tokens, ast, inserted, definitions, query, tables>>

(* A defect: a COMMIT that fails is tried again with its query. *)
Commit_Retries ==
  /\ stage = "commit"
  /\ \/ Answer(Status(200))
     \/ "database" \in Faults /\ Go("query")
  /\ UNCHANGED <<request, tokens, ast, inserted, definitions, query, rows, tables, snapshot>>

Commit ==
  /\ stage = "commit"
  /\ \/ Answer(Status(200))
     \/ "database" \in Faults /\ Answer(Status(500))
  /\ UNCHANGED <<request, tokens, ast, inserted, definitions, query, rows, tables, snapshot>>

Step ==
  \/ CheckSession \/ Lex \/ Normalize \/ InsertPair \/ NoPairLeft \/ Parse
  \/ GetTagDefinitions \/ Generate \/ SearchItemFromQuery \/ Commit

-----------------------------------------------------------------------------
(* Other requests commit: see ItemTags. *)

Restricted(f, S) == [x \in S |-> f[x]]

(* A new value goes into the column of its own type: when the tag is given  *)
(* by its name, nothing compares that with the type of the tag.  A value    *)
(* that is there is only replaced by one of the tag's type.                 *)
SetValue(at, t, v) ==
  /\ at[2] \in DOMAIN tag_definition
  /\ at \in DOMAIN tag_value => t = tag_definition[at[2]]
  /\ tag_value' = [a \in DOMAIN tag_value \cup {at} |->
                     IF a = at THEN [type |-> t, value |-> v] ELSE tag_value[a]]
  /\ UNCHANGED tag_definition

DeleteValue(at) ==
  /\ at \in DOMAIN tag_value
  /\ tag_value' = Restricted(tag_value, DOMAIN tag_value \ {at})
  /\ UNCHANGED tag_definition

(* delete_tag looks for values of the tag, and another request may add one  *)
(* before the tag is gone.  The value stays with the id of a tag that there *)
(* is no more: no query joins it, nor does a tag that is given the name     *)
(* later.                                                                   *)
DeleteTag(n) ==
  /\ n \in DOMAIN tag_definition
  /\ tag_definition' = Restricted(tag_definition, DOMAIN tag_definition \ {n})
  /\ tag_value' = Restricted(tag_value, {at \in DOMAIN tag_value : at[2] # n})

AddTag(n, t) ==
  /\ n \notin DOMAIN tag_definition
  /\ tag_definition' = [m \in DOMAIN tag_definition \cup {n} |-> IF m = n THEN t ELSE tag_definition[m]]
  /\ UNCHANGED tag_value

Change ==
  /\ stage # "answered"
  /\ changes > 0
  /\ \E at \in DOMAIN Customers[request.customer].moving :
       \/ DeleteValue(at)
       \/ DeleteTag(at[2])
       \/ \E t \in Customers[request.customer].moving[at] :
            AddTag(at[2], t) \/ \E v \in ValuesOf[t] : SetValue(at, t, v)
  /\ changes' = changes - 1
  /\ UNCHANGED <<stage, request, tokens, ast, inserted, definitions, query, rows, answer, snapshot>>

Done == stage = "answered" /\ UNCHANGED vars

Next == Step \/ Change \/ Done

(* The thread of the request goes on, and its awaits end.  This is          *)
(* WF_vars(Step), written out: a state before the answer where no Step is   *)
(* possible would be a deadlock, once no Change is left.                    *)
Fairness == []<>(stage = "answered") \/ []<><<Step>>_vars

Spec == Init /\ [][Next]_vars /\ Fairness

-----------------------------------------------------------------------------
(* Properties *)

Meaning == MeaningOf(request.text)

(***************************************************************************)
(* A well formed filter of up to three conditions, or of more of them with *)
(* no operator in parentheses, is not refused as malformed: the passes of  *)
(* the normaliser bring it into the form that the parser takes.  This is   *)
(* not so of all filters of the grammar.  A single condition without       *)
(* parentheses is refused, and so is                                       *)
(* ((A == 1 OR B == 1) OR C == 1 OR D == 1): see the README.               *)
(***************************************************************************)
IsReadable ==
  /\ Meaning # Malformed
  /\ IsSpaced(request.text)
  /\ NumberOfConditions(request.text) > 1 \/ "(" \in ToSet(request.text)

(* No operator is inside of parentheses. *)
IsFlat ==
  \A n \in DOMAIN request.text : \A lop \in {"AND", "OR"} :
    request.text[n] = lop => n \in AtTop(request.text, lop)

IsSmall == NumberOfConditions(request.text) <= 3 \/ IsFlat

WellFormedIsRead == stage = "answered" /\ IsReadable /\ IsSmall => answer.error = NoError

(***************************************************************************)
(* The normaliser moves parentheses only: the conditions and the operators *)
(* are those of the text, in its order, and well nested parentheses stay   *)
(* well nested.                                                            *)
(***************************************************************************)
Marks == {"LogicalOpen", "LogicalClose", "ConditionOpen", "ConditionClose"}

Content(ts) == SelectSeq(ts, LAMBDA token : token.kind \notin Marks)

Count(ts, n, kind) == Cardinality({m \in 1..n : ts[m].kind = kind})

IsNested(ts) ==
  /\ Count(ts, Len(ts), "LogicalOpen") = Count(ts, Len(ts), "LogicalClose")
  /\ \A n \in DOMAIN ts : Count(ts, n, "LogicalOpen") >= Count(ts, n, "LogicalClose")

NormalisationKeepsTheFilter ==
  stage \in {"AND", "OR", "parse"} =>
    LET lexed == lex3(request.text).tokens
    IN Content(tokens) = Content(lexed) /\ (IsNested(lexed) => IsNested(tokens))

(***************************************************************************)
(* The items found are those that the filter asks for, in the tables that  *)
(* the query has read.  A row has a value, whatever its column, that meets *)
(* the filter.  When the types of the tags are still those that were read  *)
(* before the query was made, the rows are all the items that have one in  *)
(* the column of its tag: a value in another column is not found.  The     *)
(* filters on a Bool are == TRUE, == FALSE and != TRUE (see the README).   *)
(***************************************************************************)
AskedOf(values) == {i \in Items : Satisfies(Meaning, i, values)}

InItsColumn(at) == snapshot.values[at].type = snapshot.tags[at[2]]

Asked == AskedOf(Restricted(snapshot.values, {at \in DOMAIN snapshot.values : InItsColumn(at)}))

TypesAreThoseRead ==
  \A n \in DOMAIN definitions : n \in DOMAIN snapshot.tags /\ snapshot.tags[n] = definitions[n]

IsFound == stage = "answered" /\ answer.status = 200 /\ IsReadable

RowsMatchTheFilter ==
  IsFound =>
    /\ ToSet(rows) \subseteq AskedOf(snapshot.values)
    /\ TypesAreThoseRead => ToSet(rows) \subseteq Asked
    /\ request.page_size = NoPage /\ TypesAreThoseRead => ToSet(rows) = Asked

(***************************************************************************)
(* A page holds the items of its ranks in the order of the sorting tags:   *)
(* row k of the page that starts after s items has at most s + k - 1 items *)
(* before it, and at least s + k that are not after it.  For filters       *)
(* without OR, which give every row a value for each of its tags.          *)
(***************************************************************************)
ComesBefore(i, j) ==
  \E n \in DOMAIN request.order_tags :
    LET ValueAt(k, m) == snapshot.values[<<k, request.order_tags[m]>>].value
    IN /\ Before(snapshot.tags[request.order_tags[n]], ValueAt(i, n), ValueAt(j, n))
       /\ \A m \in 1..(n - 1) : ValueAt(i, m) = ValueAt(j, m)

PageOfTheSortedItems ==
  IsFound /\ TypesAreThoseRead /\ request.page_size # NoPage /\ "OR" \notin ToSet(request.text)
          /\ ToSet(request.order_tags) \subseteq TagsOf(ast, <<>>) =>
    LET skipped == request.start_page * request.page_size
        left == Cardinality(Asked) - skipped
    IN /\ Len(rows) = IF left < 0 THEN 0 ELSE IF left < request.page_size THEN left ELSE request.page_size
       /\ \A k \in DOMAIN rows :
            /\ Cardinality({i \in Asked : ComesBefore(i, rows[k])}) < skipped + k
            /\ Cardinality({i \in Asked : ~ComesBefore(rows[k], i)}) >= skipped + k

(* A search by a filter of these Requests is answered, whatever fails in    *)
(* it and however the tables change.  Of other filters it is not so: N3     *)
(* may insert pairs for ever (see OnePairPerOperator).                      *)
EverySearchIsAnswered == <>(stage = "answered")

-----------------------------------------------------------------------------
(* What the comments say, and the code does not *)

(***************************************************************************)
(* filter_normalizer.rs: "Ensure all logical operator is strictly binary.  *)
(* If not, place logical delimiter around it": an operator gets at most    *)
(* one pair.                                                               *)
(***************************************************************************)
OnePairPerOperator ==
  inserted <= Len(SelectSeq(request.text, LAMBDA u : u \in {"AND", "OR"}))
=============================================================================
