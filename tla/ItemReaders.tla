----------------------------- MODULE ItemReaders -----------------------------
(***************************************************************************)
(* The requests that read the items and the tags of a customer: get_item   *)
(* and get_all_item of item.rs and get_all_tag of tag.rs, next to those of *)
(* ItemTags that write them.  Each is a transaction at READ COMMITTED too: *)
(* the items of a page are one statement, and the properties of each item  *)
(* are another one, that sees what was committed in between.               *)
(***************************************************************************)
EXTENDS ItemTags

CONSTANTS
  Alphabet,  \* a list of the items and the names, in the order of their names
  PageSize   \* the size of the pages

ASSUME PageSizeAssumption == PageSize \in Nat \ {0}
ASSUME AlphabetAssumption == Alphabet \in Seq(AllItems \cup Names)

VARIABLES
  todo,   \* the items whose properties a reader has still to read
  reply   \* what its reply holds so far

readers == <<todo, reply>>
allvars == <<vars, readers>>

(* A value, read from the column of the type that its tag has: none when   *)
(* the value is in another column.                                         *)
Shown(v, t) ==
  [tag_value_id |-> v.id, tag_id |-> t.id, tag_name |-> t.name,
   value |-> IF v.type = t.type THEN {v.by} ELSE {}]

(* The values of an item, each with its tag: those without one are not joined. *)
find_item_properties(r, i) ==
  {Shown(joined[1], joined[2]) : joined \in
     {row \in Values(r) \X Tags(r) : row[1].item = i /\ row[1].tag = row[2].id}}

ReaderInit ==
  /\ Init
  /\ todo = [r \in Requests |-> <<>>]
  /\ reply = [r \in Requests |-> <<>>]

(* ORDER BY name.  No two names are alike here. *)
Sorted(names) ==
  LET sorted[n \in 0..Len(Alphabet)] ==
        IF n = 0 THEN <<>>
        ELSE IF Alphabet[n] \in names THEN Append(sorted[n - 1], Alphabet[n]) ELSE sorted[n - 1]
  IN sorted[Len(Alphabet)]

(* OFFSET and LIMIT *)
Page(r, names) ==
  LET start == job[r].page * PageSize
      length == Len(Sorted(names)) - start
  IN SubSeq(Sorted(names), start + 1, start + (IF length < PageSize THEN length ELSE PageSize))

get_item(r) == Begin(r, "get_item", "find_items") /\ UNCHANGED readers

get_all_item(r) == Begin(r, "get_all_item", "find_items") /\ UNCHANGED readers

get_all_tag(r) == Begin(r, "get_all_tag", "find_tags") /\ UNCHANGED readers

(* The first query of search_item_by_id: an item that is not there is an error. *)
FindItems(r) ==
  /\ pc[r] = "find_items"
  /\ \/ /\ job[r].op = "get_item"
        /\ job[r].item \notin item
        /\ Fail(r)
        /\ UNCHANGED todo
     \/ /\ \/ /\ job[r].op = "get_item"
              /\ job[r].item \in item
              /\ todo' = [todo EXCEPT ![r] = <<job[r].item>>]
           \/ /\ job[r].op = "get_all_item"
              /\ todo' = [todo EXCEPT ![r] = Page(r, item)]
        /\ Goto(r, IF todo'[r] = <<>> THEN "commit" ELSE "find_properties")
        /\ UNCHANGED <<at, locals, tx, tables>>
  /\ UNCHANGED reply

(* The query of the next item. *)
FindProperties(r) ==
  /\ pc[r] = "find_properties"
  /\ reply' = [reply EXCEPT ![r] = Append(@,
       [of |-> Head(todo[r]), properties |-> find_item_properties(r, Head(todo[r]))])]
  /\ todo' = [todo EXCEPT ![r] = Tail(@)]
  /\ Goto(r, IF todo'[r] = <<>> THEN "commit" ELSE "find_properties")
  /\ UNCHANGED <<at, locals, tx, tables>>

(* The tags of the page, each with no property. *)
FindTags(r) ==
  /\ pc[r] = "find_tags"
  /\ LET page == Page(r, {t.name : t \in Tags(r)})
     IN reply' = [reply EXCEPT ![r] =
          [n \in DOMAIN page |-> [of |-> page[n], properties |-> {}]]]
  /\ Goto(r, "commit")
  /\ UNCHANGED <<at, locals, tx, tables, todo>>

Read(r) ==
  \/ FindItems(r)
  \/ FindProperties(r)
  \/ FindTags(r)

Next ==
  \/ Write /\ UNCHANGED readers
  \/ \E r \in Requests : get_item(r) \/ get_all_item(r) \/ get_all_tag(r) \/ Read(r)

(* A request that has begun goes on: its client is not needed any more. *)
Fairness ==
  /\ \A r \in Requests : WF_allvars((Step(r) /\ UNCHANGED readers) \/ Read(r))
  /\ WF_allvars(BreakDeadlock /\ UNCHANGED readers)

Spec == ReaderInit /\ [][Next]_allvars /\ Fairness

-----------------------------------------------------------------------------
(* Properties *)

(* The type of the state of the readers and of the rows they read. *)
ReadersTypeOK ==
  /\ TypeOK
  /\ \A r \in Requests :
       /\ todo[r] \in Seq(AllItems)
       /\ \A n \in DOMAIN reply[r] : reply[r][n].of \in AllItems \cup Names

(***************************************************************************)
(* An item is added with its properties in one transaction, and read with  *)
(* them in several statements: a reply that shows the item shows all the   *)
(* tags it was added with, those that were deleted since, or lost their    *)
(* value on the item, excepted.  One that shows a tag without a value      *)
(* shows one that was given by its name: "Tag has a different value type   *)
(* than its definition" is an error for a tag that is given by its id, and *)
(* by its name the type is only compared when the item has a value for it. *)
(***************************************************************************)
ShowsTheTagsOf(properties, q) ==
  \A n \in DOMAIN job[q].props :
    LET tag == job[q].props[n].tag
    IN \/ \E p \in properties : tag \in {p.tag_id, p.tag_name}
       \/ TagIsDeleted(tag)
       \/ ValueIsDeleted(q, tag)

GivenByName(id) == id[1] \in Requests /\ job[id[1]].props[id[2]].tag \in Names

RepliesAreWhole ==
  \A r \in Requests : job[r].op # "get_all_tag" =>
    \A k \in DOMAIN reply[r] :
      LET i == reply[r][k].of
          properties == reply[r][k].properties
      IN /\ i \in Requests => ShowsTheTagsOf(properties, i)
         /\ \A p \in properties : p.value = {} => GivenByName(p.tag_value_id)
=============================================================================
