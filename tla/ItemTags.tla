------------------------------ MODULE ItemTags ------------------------------
(***************************************************************************)
(* The items and tags of one customer: add_item, update_item_tag and       *)
(* delete_item_tag of item.rs, add_tag and delete_tag of tag.rs, over the  *)
(* tables item, tag_definition and tag_value of the schema cs_{code}.  The *)
(* requests that only read are in ItemReaders.                             *)
(*                                                                         *)
(* Each request is one transaction at READ COMMITTED, and each of its      *)
(* statements a step: it sees what is committed and what its own           *)
(* transaction has changed, and waits for the transactions that have       *)
(* changed the row, or the value of the unique index, that it changes.     *)
(*                                                                         *)
(* A row has the id <<r, n>> when property n of request r inserted it: the *)
(* sequences never give an id twice.  A value stands for the property that *)
(* wrote it last, in the column of that property's type.                   *)
(***************************************************************************)
EXTENDS Integers, Sequences, FiniteSets

CONSTANTS
  Requests,  \* the requests
  Earlier,   \* the request that made the rows that are there at first
  Items,     \* the items that are there at first
  Names,     \* the names of tags
  Types,     \* the types of tags, each with its column of tag_value
  Jobs,      \* what each request may ask for
  Faults     \* what may go wrong: see AllFaults

(***************************************************************************)
(* "abort"   a request ends at an await: a statement fails, the client     *)
(*           goes away or the process dies                                 *)
(* "lost"    a COMMIT that took effect is reported as failed               *)
(***************************************************************************)
AllFaults == {"abort", "lost"}

Ids == (Requests \cup {Earlier}) \X (Nat \ {0})

(* AddTagValue: a tag, by its id or by its name, and a value of some type. *)
Properties == [tag : Names \cup Ids, type : Types]

AllItems == Items \cup Requests  \* a request that adds an item gives it its name

Writes == {"add_tag", "delete_tag", "add_item", "update_item_tag", "delete_item_tag"}

Reads == {"get_item", "get_all_item", "get_all_tag"}

(* The op, the item it is about, and its properties: for delete_item_tag   *)
(* their names, for add_tag and delete_tag one of them.  The readers have  *)
(* a page instead.                                                         *)
AllJobs ==
  [op : Writes \cup Reads, item : AllItems, props : Seq(Properties), page : Nat]

ASSUME FaultsAssumption == Faults \subseteq AllFaults
ASSUME EarlierAssumption == Earlier \notin Requests /\ Requests \cap Items = {}
ASSUME NamesAssumption == Names \cap Ids = {}
ASSUME JobsAssumption ==
  \A r \in Requests : \A j \in Jobs[r] :
    /\ j \in AllJobs /\ (j.op \in Writes <=> j.props # <<>>)
    /\ j.op \in {"add_tag", "delete_item_tag"} => \A n \in DOMAIN j.props : j.props[n].tag \in Names
    /\ j.op = "delete_tag" => j.props[1].tag \in Ids

VARIABLES
  pc,              \* the next statement of each request
  job,             \* what it was asked for
  at,              \* the property it works on
  tag_id,          \* the tag of that property
  tag_value_id,    \* the row of its value
  tx,              \* what its transaction has changed
  item,            \* the tables
  tag_definition,
  tag_value

vars == <<pc, job, at, tag_id, tag_value_id, tx, item, tag_definition, tag_value>>
locals == <<job, tag_id, tag_value_id>>
tables == <<item, tag_definition, tag_value>>

TagRows == [id : Ids, name : Names, type : Types]

ValueRows == [id : Ids, tag : Ids, item : AllItems, type : Types, by : Ids]

Transactions ==
  [items : SUBSET AllItems, tags : SUBSET TagRows, values : SUBSET ValueRows,
   gone_tags : SUBSET Ids, gone_values : SUBSET Ids]

NoChange == [items |-> {}, tags |-> {}, values |-> {}, gone_tags |-> {}, gone_values |-> {}]

Steps == {"create_item", "find_tag", "define_tag", "find_value", "insert_value",
          "change_value", "find_row", "delete_value", "check_usage",
          "delete_tag", "find_items", "find_properties", "find_tags", "commit"}

Final == {"ok", "error"}

TypeOK ==
  /\ pc \in [Requests -> {"idle"} \cup Steps \cup Final]
  /\ \A r \in Requests : job[r] \in Jobs[r]
  /\ at \in [Requests -> Nat \ {0}]
  /\ tag_id \in [Requests -> Ids]
  /\ tag_value_id \in [Requests -> Ids]
  /\ tx \in [Requests -> Transactions]
  /\ item \subseteq AllItems
  /\ tag_definition \subseteq TagRows
  /\ tag_value \subseteq ValueRows

FirstId == <<Earlier, 1>>

(* A customer with some items, at most one tag, and its values. *)
Init ==
  /\ pc = [r \in Requests |-> "idle"]
  /\ job \in {f \in [Requests -> UNION {Jobs[r] : r \in Requests}] :
                \A r \in Requests : f[r] \in Jobs[r]}
  /\ at = [r \in Requests |-> 1]
  /\ tag_id = [r \in Requests |-> FirstId]
  /\ tag_value_id = [r \in Requests |-> FirstId]
  /\ tx = [r \in Requests |-> NoChange]
  /\ item = Items
  /\ \/ tag_definition = {} /\ tag_value = {}
     \/ \E n \in Names, t \in Types :
          /\ tag_definition = {[id |-> FirstId, name |-> n, type |-> t]}
          /\ tag_value \in SUBSET [id : {FirstId}, tag : {FirstId}, item : Items,
                                   type : {t}, by : {FirstId}]
          /\ \A v, w \in tag_value : v = w

-----------------------------------------------------------------------------
(* What a transaction sees, and whom its statements wait for *)

Property(r) == job[r].props[at[r]]

Id(r) == <<r, at[r]>>

Item(r) == IF job[r].op = "add_item" THEN r ELSE job[r].item

IdsOf(rows) == {row.id : row \in rows}

Tags(r) == {t \in tag_definition : t.id \notin tx[r].gone_tags} \cup tx[r].tags

Values(r) ==
  {v \in tag_value : v.id \notin tx[r].gone_values \cup IdsOf(tx[r].values)}
    \cup tx[r].values

Others(r) == Requests \ {r}

(* tag_name_uk: the transactions that have inserted or deleted the name. *)
NameLocks(r, n) ==
  {q \in Others(r) :
     \/ \E t \in tx[q].tags : t.name = n
     \/ \E t \in tag_definition : t.name = n /\ t.id \in tx[q].gone_tags}

(* tag_value_tag_item_udx *)
PairLocks(r, tag, i) ==
  {q \in Others(r) :
     \E v \in tag_value \cup tx[q].values :
       v.tag = tag /\ v.item = i /\ v.id \in tx[q].gone_values \cup IdsOf(tx[q].values)}

ValueLocks(r, id) ==
  {q \in Others(r) : id \in tx[q].gone_values \cup IdsOf(tx[q].values)}

TagLocks(r, id) == {q \in Others(r) : id \in tx[q].gone_tags}

Goto(r, step) == pc' = [pc EXCEPT ![r] = step]

Change(r, field, rows) == tx' = [tx EXCEPT ![r][field] = rows]

(* A defect: the transaction stays open. *)
End_KeepsLocks(r, status) ==
  /\ Goto(r, status)
  /\ UNCHANGED <<tx, at, locals>>

(* The transaction ends; what it has changed is locked no longer. *)
End(r, status) ==
  /\ Goto(r, status)
  /\ tx' = [tx EXCEPT ![r] = NoChange]
  /\ UNCHANGED <<at, locals>>

Fail(r) == End(r, "error") /\ UNCHANGED tables

(* The loop over the properties. *)
NextProperty(r, step) ==
  IF at[r] < Len(job[r].props)
  THEN Goto(r, step) /\ at' = [at EXCEPT ![r] = at[r] + 1]
  ELSE Goto(r, "commit") /\ UNCHANGED at

-----------------------------------------------------------------------------
(* add_item and update_item_tag *)

(* The session is checked and a transaction opened; both may fail. *)
Begin(r, op, step) ==
  /\ pc[r] = "idle"
  /\ job[r].op = op
  /\ \/ Goto(r, step) /\ UNCHANGED <<at, locals, tx>>
     \/ "abort" \in Faults /\ End(r, "error")
  /\ UNCHANGED tables

UpdateItemTag(r) == Begin(r, "update_item_tag", "find_tag")

AddItem(r) == Begin(r, "add_item", "create_item")

DeleteItemTag(r) == Begin(r, "delete_item_tag", "find_row")

AddTag(r) == Begin(r, "add_tag", "define_tag")

DeleteTag(r) == Begin(r, "delete_tag", "check_usage")

(* A defect: the item is committed on its own. *)
CreateItem_AtOnce(r) ==
  /\ pc[r] = "create_item"
  /\ item' = item \cup {r}
  /\ Goto(r, "find_tag")
  /\ UNCHANGED <<at, locals, tx, tag_definition, tag_value>>

CreateItem(r) ==
  /\ pc[r] = "create_item"
  /\ Change(r, "items", {r})
  /\ Goto(r, "find_tag")
  /\ UNCHANGED <<at, locals, tables>>

(* check_tag_id_validity: the tag is there and has the type of the value. *)
CheckTagId(r) ==
  /\ pc[r] = "find_tag"
  /\ Property(r).tag \in Ids
  /\ IF \E t \in Tags(r) : t.id = Property(r).tag /\ t.type = Property(r).type
     THEN /\ tag_id' = [tag_id EXCEPT ![r] = Property(r).tag]
          /\ Goto(r, "find_value")
          /\ UNCHANGED <<at, job, tag_value_id, tx, tables>>
     ELSE Fail(r)

search_tag_by_name(r, n) == {t \in Tags(r) : t.name = n}

(* define_tag_if_needed: any type will do. *)
SearchTag(r) ==
  /\ pc[r] = "find_tag"
  /\ Property(r).tag \in Names
  /\ \/ \E t \in search_tag_by_name(r, Property(r).tag) :
          /\ tag_id' = [tag_id EXCEPT ![r] = t.id]
          /\ Goto(r, "find_value")
     \/ /\ search_tag_by_name(r, Property(r).tag) = {}
        /\ Goto(r, "define_tag")
        /\ UNCHANGED tag_id
  /\ UNCHANGED <<at, job, tag_value_id, tx, tables>>

(* A defect: the table has no tag_name_uk. *)
DefineTag_NotUnique(r) ==
  /\ pc[r] = "define_tag"
  /\ Change(r, "tags", tx[r].tags \cup
       [id : {Id(r)}, name : {Property(r).tag}, type : {Property(r).type}])
  /\ tag_id' = [tag_id EXCEPT ![r] = Id(r)]
  /\ Goto(r, IF job[r].op = "add_tag" THEN "commit" ELSE "find_value")
  /\ UNCHANGED <<at, job, tag_value_id, tables>>

(* insert_tag_definition, of a tag that is new to an item and of add_tag. *)
DefineTag(r) ==
  /\ pc[r] = "define_tag"
  /\ NameLocks(r, Property(r).tag) = {}
  /\ IF \E t \in Tags(r) : t.name = Property(r).tag
     THEN Fail(r)
     ELSE /\ Change(r, "tags", tx[r].tags \cup
                [id : {Id(r)}, name : {Property(r).tag}, type : {Property(r).type}])
          /\ tag_id' = [tag_id EXCEPT ![r] = Id(r)]
          /\ Goto(r, IF job[r].op = "add_tag" THEN "commit" ELSE "find_value")
          /\ UNCHANGED <<at, job, tag_value_id, tables>>

(* The value and the type of its tag, if it has a tag. *)
is_tags_on_item(r, i, tag) ==
  {<<v.id, t.type>> : v \in {value \in Values(r) : value.item = i /\ value.tag = tag},
                      t \in {definition \in Tags(r) : definition.id = tag}}

(* A defect: the type of the tag is not compared. *)
FindValue_AnyType(r) ==
  /\ pc[r] = "find_value"
  /\ LET found == is_tags_on_item(r, Item(r), tag_id[r])
     IN \/ \E row \in found :
             /\ tag_value_id' = [tag_value_id EXCEPT ![r] = row[1]]
             /\ Goto(r, "change_value")
        \/ found = {} /\ Goto(r, "insert_value") /\ UNCHANGED tag_value_id
  /\ UNCHANGED <<at, job, tag_id, tx, tables>>

FindValue(r) ==
  /\ pc[r] = "find_value"
  /\ LET found == is_tags_on_item(r, Item(r), tag_id[r])
     IN \/ /\ \E row \in found : row[2] # Property(r).type
           /\ Fail(r)
        \/ \E row \in found :
             /\ row[2] = Property(r).type
             /\ tag_value_id' = [tag_value_id EXCEPT ![r] = row[1]]
             /\ Goto(r, "change_value")
             /\ UNCHANGED <<at, job, tag_id, tx, tables>>
        \/ /\ found = {}
           /\ Goto(r, "insert_value")
           /\ UNCHANGED <<at, locals, tx, tables>>

NewValue(r, id, tag) ==
  [id |-> id, tag |-> tag, item |-> Item(r), type |-> Property(r).type, by |-> Id(r)]

(* A defect: ON CONFLICT DO NOTHING. *)
InsertValue_SkipsConflict(r) ==
  /\ pc[r] = "insert_value"
  /\ PairLocks(r, tag_id[r], Item(r)) = {}
  /\ IF \E v \in Values(r) : v.tag = tag_id[r] /\ v.item = Item(r)
     THEN UNCHANGED tx
     ELSE Change(r, "values", tx[r].values \cup {NewValue(r, Id(r), tag_id[r])})
  /\ NextProperty(r, "find_tag")
  /\ UNCHANGED <<locals, tables>>

(* create_item_property: the item has to exist, the pair must be new. *)
InsertValue(r) ==
  /\ pc[r] = "insert_value"
  /\ PairLocks(r, tag_id[r], Item(r)) = {}
  /\ IF \/ \E v \in Values(r) : v.tag = tag_id[r] /\ v.item = Item(r)
        \/ Item(r) \notin item \cup tx[r].items
     THEN Fail(r)
     ELSE /\ Change(r, "values", tx[r].values \cup {NewValue(r, Id(r), tag_id[r])})
          /\ NextProperty(r, "find_tag")
          /\ UNCHANGED <<locals, tables>>

(* change_item_tag_value: no row is changed when it was deleted meanwhile. *)
ChangeValue(r) ==
  /\ pc[r] = "change_value"
  /\ ValueLocks(r, tag_value_id[r]) = {}
  /\ IF tag_value_id[r] \in IdsOf(Values(r))
     THEN Change(r, "values",
            {v \in tx[r].values : v.id # tag_value_id[r]}
              \cup {NewValue(r, tag_value_id[r], tag_id[r])})
     ELSE UNCHANGED tx
  /\ NextProperty(r, "find_tag")
  /\ UNCHANGED <<locals, tables>>

-----------------------------------------------------------------------------
(* delete_item_tag *)

(* The rows that the DELETE finds ... *)
delete_item_tag_value(r) ==
  {v \in Values(r) :
     v.item = Item(r) /\ v.tag \in IdsOf(search_tag_by_name(r, Property(r).tag))}

FindRow(r) ==
  /\ pc[r] = "find_row"
  /\ \/ \E v \in delete_item_tag_value(r) :
          /\ tag_value_id' = [tag_value_id EXCEPT ![r] = v.id]
          /\ Goto(r, "delete_value")
          /\ UNCHANGED at
     \/ /\ delete_item_tag_value(r) = {}
        /\ NextProperty(r, "find_row")
        /\ UNCHANGED tag_value_id
  /\ UNCHANGED <<job, tag_id, tx, tables>>

(* ... and deletes, once it has their locks, if they are still there. *)
DeleteValue(r) ==
  /\ pc[r] = "delete_value"
  /\ ValueLocks(r, tag_value_id[r]) = {}
  /\ Change(r, "gone_values",
       tx[r].gone_values \cup (IdsOf(Values(r)) \cap {tag_value_id[r]}))
  /\ NextProperty(r, "find_row")
  /\ UNCHANGED <<locals, tables>>

-----------------------------------------------------------------------------
(* delete_tag *)

(* check_tag_usage *)
CheckUsage(r) ==
  /\ pc[r] = "check_usage"
  /\ IF \E v \in Values(r) : v.tag = Property(r).tag
     THEN Fail(r)
     ELSE Goto(r, "delete_tag") /\ UNCHANGED <<at, locals, tx, tables>>

DeleteDefinition(r) ==
  /\ pc[r] = "delete_tag"
  /\ TagLocks(r, Property(r).tag) = {}
  /\ Change(r, "gone_tags", IdsOf(tag_definition) \cap {Property(r).tag})
  /\ Goto(r, "commit")
  /\ UNCHANGED <<at, locals, tables>>

-----------------------------------------------------------------------------

Commit(r) ==
  /\ pc[r] = "commit"
  /\ item' = item \cup tx[r].items
  /\ tag_definition' = Tags(r)
  /\ tag_value' = Values(r)
  /\ \/ End(r, "ok")
     \/ "lost" \in Faults /\ End(r, "error")

Abort(r) ==
  /\ "abort" \in Faults
  /\ pc[r] \in Steps
  /\ Fail(r)

(* The transactions that the next statement of a request waits for. *)
Blockers(r) ==
  CASE pc[r] = "define_tag"   -> NameLocks(r, Property(r).tag)
    [] pc[r] = "insert_value" -> PairLocks(r, tag_id[r], Item(r))
    [] pc[r] \in {"change_value", "delete_value"} -> ValueLocks(r, tag_value_id[r])
    [] pc[r] = "delete_tag"   -> TagLocks(r, Property(r).tag)
    [] OTHER -> {}

(* The requests on a circle of requests that wait for each other. *)
Deadlocked ==
  {r \in Requests :
     /\ Blockers(r) # {}
     /\ \E n \in 2..Cardinality(Requests) :
          \E circle \in [0..n-1 -> Requests] :
            /\ circle[0] = r
            /\ \A k \in 0..n-1 : circle[(k + 1) % n] \in Blockers(circle[k])}

(* PostgreSQL notices, and makes one of their statements fail. *)
BreakDeadlock ==
  \E r \in Deadlocked : Fail(r)

Step(r) ==
  \/ CreateItem(r)
  \/ CheckTagId(r)
  \/ SearchTag(r)
  \/ DefineTag(r)
  \/ FindValue(r)
  \/ InsertValue(r)
  \/ ChangeValue(r)
  \/ FindRow(r)
  \/ DeleteValue(r)
  \/ CheckUsage(r)
  \/ DeleteDefinition(r)
  \/ Commit(r)

Start(r) ==
  \/ AddItem(r)
  \/ UpdateItemTag(r)
  \/ DeleteItemTag(r)
  \/ AddTag(r)
  \/ DeleteTag(r)

Write ==
  \/ \E r \in Requests : Start(r) \/ Step(r) \/ Abort(r)
  \/ BreakDeadlock

-----------------------------------------------------------------------------
(* Properties *)

(***************************************************************************)
(* Names and values are looked up first and inserted later: however the    *)
(* requests overlap, a name has one definition, and an item one value for  *)
(* a tag.                                                                  *)
(***************************************************************************)
OneOfEach ==
  /\ \A s, t \in tag_definition : s.name = t.name => s = t
  /\ \A v, w \in tag_value : v.tag = w.tag /\ v.item = w.item => v = w

(* A value in the column of the type that its tag has, if it has a tag. *)
Typed(v) == \A t \in tag_definition : t.id = v.tag => t.type = v.type

(***************************************************************************)
(* A value that has the type of its tag never loses it to a later update,  *)
(* by whichever requests, and in whichever order, it is changed.           *)
(***************************************************************************)
TypedForGood ==
  [][\A v \in tag_value, w \in tag_value' : v.id = w.id /\ Typed(v) => Typed(w)']_vars

(***************************************************************************)
(* The reply "Ok" means that each property is the value of its tag on the  *)
(* item, unless a request deleted that value meanwhile: an UPDATE that     *)
(* finds its row gone is not an error, and stores nothing.                 *)
(***************************************************************************)
(* Property n, or a later one that names the same tag. *)
Stored(r, n) ==
  \E v \in tag_value, m \in n..Len(job[r].props) :
    /\ v.item = Item(r) /\ v.by = <<r, m>>
    /\ job[r].props[m].tag = job[r].props[n].tag

(* No two properties can be about one tag, one by its id and one by its name. *)
NamedOneWay(r) ==
  LET tags == {job[r].props[n].tag : n \in DOMAIN job[r].props}
  IN tags \subseteq Ids \/ tags \subseteq Names

TagIsDeleted(tag) ==
  \E r \in Requests :
    /\ job[r].op = "delete_tag"
    /\ pc[r] \in Final
    /\ tag \in Ids => Property(r).tag = tag

(* By its name, which only a tag that is still there tells from another one. *)
ValueIsDeleted(i, tag) ==
  \E q \in Requests :
    /\ job[q].op = "delete_item_tag"
    /\ job[q].item = i
    /\ pc[q] \in Final
    /\ tag \in Names => TagIsDeleted(tag) \/ \E n \in DOMAIN job[q].props : job[q].props[n].tag = tag

AcknowledgedIsStored ==
  [][\A r \in Requests :
       /\ job[r].op \in {"add_item", "update_item_tag"}
       /\ NamedOneWay(r)
       /\ pc[r] # "ok" /\ pc'[r] = "ok"
       => \A n \in DOMAIN job[r].props : Stored(r, n)' \/ ValueIsDeleted(Item(r), job[r].props[n].tag)]_vars

(***************************************************************************)
(* Every request ends, although requests lock rows in the order of their   *)
(* lists, and so may wait for each other in a circle.                      *)
(***************************************************************************)
EveryRequestEnds ==
  \A r \in Requests : pc[r] \in Steps ~> pc[r] \in Final
=============================================================================
