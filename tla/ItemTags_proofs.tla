-------------------------- MODULE ItemTags_proofs ---------------------------
(***************************************************************************)
(* Tags and values, for any number of requests with any properties and any *)
(* faults.  No request sees the rows that another one has not committed,   *)
(* and yet the unique indexes hold, because whoever inserts a name or a    *)
(* pair waits for those who have it: so the names and the pairs of two     *)
(* open transactions are apart from each other and from the committed ones *)
(* (NamesApart, PairsApart).  A row that is updated keeps its tag and its  *)
(* item, because an id is given once: GivenTo says which ids a request can *)
(* have met, and the next one it gives is none of them.  What a request    *)
(* stores and what a reader is told is the second half (WInv and RInv).    *)
(***************************************************************************)
EXTENDS ItemReaders, TLAPS, SequenceTheorems, WellFoundedInduction

(* The steps before a request has given the id of a tag, or of a value, to *)
(* the property it works on.                                               *)
TagSteps == {"idle", "create_item", "find_tag", "define_tag"}
ValueSteps == TagSteps \cup {"find_value", "insert_value"}

(* The steps of a request that works on a property. *)
WriteSteps == {"create_item", "find_tag", "define_tag", "find_value", "insert_value",
               "change_value", "find_row", "delete_value", "check_usage", "delete_tag"}

Committed(id) == id[1] \in Requests => pc[id[1]] \in Final

(* The id of a row that is committed, or that the request gave before *)
GivenTo(r, id, steps) ==
  IF id[1] = r THEN id[2] < at[r] \/ (id[2] = at[r] /\ pc[r] \notin steps)
  ELSE Committed(id)

AllTags == tag_definition \cup UNION {tx[q].tags : q \in Requests}

AllValues == tag_value \cup UNION {tx[q].values : q \in Requests}

SamePair(v, w) == v.tag = w.tag /\ v.item = w.item

NamesApart ==
  /\ \A s, t \in tag_definition : s.name = t.name => s = t
  /\ \A r \in Requests : \A s \in tx[r].tags :
       /\ \A t \in tx[r].tags : s.name = t.name => s = t
       /\ \A t \in tag_definition : s.name # t.name
       /\ \A q \in Requests \ {r} : \A t \in tx[q].tags : s.name # t.name

(* A row that is updated is still there as it was, for the others. *)
PairsApart ==
  /\ \A v, w \in tag_value : SamePair(v, w) => v = w
  /\ \A r \in Requests : \A v \in tx[r].values :
       /\ \A w \in tx[r].values : SamePair(v, w) => v = w
       /\ \A w \in tag_value : SamePair(v, w) => v.id = w.id
       /\ \A q \in Requests \ {r} : \A w \in tx[q].values : ~SamePair(v, w)

(* An id is that of one tag, and of one value with one tag and one item. *)
IdsApart ==
  /\ \A s, t \in AllTags : s.id = t.id => s = t
  /\ \A v, w \in AllValues : v.id = w.id => SamePair(v, w)

CommittedRows ==
  /\ \A t \in tag_definition : Committed(t.id)
  /\ \A v \in tag_value : Committed(v.id) /\ Committed(v.tag)

HasType(tag, type) == \A t \in AllTags : t.id = tag => t.type = type

(* What the transaction of a request has inserted and changed. *)
KnownRows(r) ==
  /\ \A t \in tx[r].tags : t.id[1] = r /\ GivenTo(r, t.id, TagSteps)
  /\ \A v \in tx[r].values :
       /\ GivenTo(r, v.id, ValueSteps) /\ GivenTo(r, v.tag, TagSteps)
       /\ v.id[1] # r => HasType(v.tag, v.type)

(* The tag and the row that a request has found and will write to *)
Aiming(r) ==
  /\ pc[r] \in {"find_value", "insert_value", "change_value"} => GivenTo(r, tag_id[r], TagSteps)
  /\ pc[r] = "change_value" =>
       /\ GivenTo(r, tag_value_id[r], ValueSteps)
       /\ \A v \in AllValues : v.id = tag_value_id[r] => v.tag = tag_id[r] /\ v.item = Item(r)
       /\ HasType(tag_id[r], Property(r).type)

(* The place of a request in its list, and what it may have deleted there *)
Placed(r) ==
  /\ pc[r] = "idle" => at[r] = 1
  /\ pc[r] \in WriteSteps => job[r].op \in Writes
  /\ job[r].op \in Writes => at[r] \in 1..Len(job[r].props)
  /\ pc[r] = "define_tag" => Property(r).tag \in Names
  /\ tx[r].gone_tags # {} => pc[r] = "commit"
  /\ tx[r].gone_values # {} => pc[r] \in {"find_row", "delete_value", "commit"}

Inv ==
  /\ TypeOK
  /\ NamesApart /\ PairsApart /\ IdsApart
  /\ CommittedRows
  /\ \A r \in Requests : KnownRows(r) /\ Aiming(r) /\ Placed(r)

-----------------------------------------------------------------------------
(* What the types give *)

LEMMA JobFacts ==
  ASSUME TypeOK, NEW r \in Requests
  PROVE  /\ job[r] \in AllJobs
         /\ job[r].op \in Writes => job[r].props \in Seq(Properties) /\ Len(job[r].props) >= 1
         /\ job[r].op = "add_tag" => \A n \in DOMAIN job[r].props : job[r].props[n].tag \in Names
         /\ Item(r) \in AllItems
<1>1. job[r] \in Jobs[r]
  BY DEF TypeOK
<1>2. /\ job[r] \in AllJobs /\ (job[r].op \in Writes <=> job[r].props # <<>>)
      /\ job[r].op = "add_tag" => \A n \in DOMAIN job[r].props : job[r].props[n].tag \in Names
  BY <1>1, JobsAssumption
<1>3. job[r].props \in Seq(Properties) /\ job[r].item \in AllItems
  BY <1>2 DEF AllJobs
<1>4. job[r].props # <<>> => Len(job[r].props) >= 1
  BY <1>3
<1> QED
  BY <1>2, <1>3, <1>4 DEF Item, AllItems

LEMMA PropertyFacts ==
  ASSUME TypeOK, NEW r \in Requests, Placed(r), job[r].op \in Writes
  PROVE  Property(r) \in Properties /\ Property(r).type \in Types /\ Property(r).tag \in Names \cup Ids
<1>1. job[r].props \in Seq(Properties) /\ at[r] \in 1..Len(job[r].props)
  BY JobFacts DEF Placed
<1>2. Property(r) \in Properties
  BY <1>1 DEF Property
<1> QED
  BY <1>2 DEF Properties

LEMMA RowFacts ==
  ASSUME TypeOK, NEW r \in Requests
  PROVE  /\ tx[r] \in Transactions
         /\ tx[r].tags \subseteq TagRows /\ tx[r].values \subseteq ValueRows
         /\ tx[r].items \subseteq AllItems
         /\ tx[r].gone_tags \subseteq Ids /\ tx[r].gone_values \subseteq Ids
         /\ at[r] \in Nat \ {0}
         /\ Id(r) \in Ids /\ Id(r)[1] = r /\ Id(r)[2] = at[r]
<1>1. tx[r] \in Transactions /\ at[r] \in Nat \ {0}
  BY DEF TypeOK
<1>2. Id(r) \in Ids /\ Id(r)[1] = r /\ Id(r)[2] = at[r]
  BY <1>1 DEF Id, Ids
<1> QED
  BY <1>1, <1>2 DEF Transactions

LEMMA IdFacts ==
  /\ \A id \in Ids : id[2] \in Nat /\ (id[1] \in Requests \/ id[1] = Earlier)
  /\ \A t \in TagRows : t.id \in Ids /\ t.name \in Names /\ t.type \in Types
  /\ \A v \in ValueRows : v.id \in Ids /\ v.tag \in Ids
  BY DEF Ids, TagRows, ValueRows

LEMMA AllRowsTyped ==
  ASSUME TypeOK
  PROVE  AllTags \subseteq TagRows /\ AllValues \subseteq ValueRows
<1>1. \A q \in Requests : tx[q].tags \subseteq TagRows /\ tx[q].values \subseteq ValueRows
  BY RowFacts
<1> QED
  BY <1>1 DEF AllTags, AllValues, TypeOK

LEMMA NoChangeTyped == NoChange \in Transactions
  BY DEF NoChange, Transactions

-----------------------------------------------------------------------------
(* A step of one request *)

OthersStay(r) ==
  /\ job' = job
  /\ \A q \in Requests \ {r} :
       /\ pc'[q] = pc[q] /\ at'[q] = at[q] /\ tx'[q] = tx[q]
       /\ tag_id'[q] = tag_id[q] /\ tag_value_id'[q] = tag_value_id[q]

(* It never goes back to a property, nor to the steps before its ids. *)
Advances(r) ==
  /\ pc[r] \notin Final
  /\ \/ at'[r] = at[r] + 1
     \/ /\ at'[r] = at[r]
        /\ pc'[r] \in TagSteps => pc[r] \in TagSteps
        /\ pc'[r] \in ValueSteps => pc[r] \in ValueSteps

LEMMA GivenStays ==
  ASSUME TypeOK, NEW r \in Requests, OthersStay(r), Advances(r), NEW id \in Ids, NEW q \in Requests
  PROVE  /\ Committed(id) => Committed(id)'
         /\ GivenTo(q, id, TagSteps) => GivenTo(q, id, TagSteps)'
         /\ GivenTo(q, id, ValueSteps) => GivenTo(q, id, ValueSteps)'
<1>1. Committed(id) => Committed(id)'
  BY DEF Committed, OthersStay, Advances
<1>2. id[2] \in Nat /\ at[q] \in Nat /\ at[r] \in Nat
  BY IdFacts, RowFacts
<1>3. GivenTo(q, id, TagSteps) => GivenTo(q, id, TagSteps)'
  BY <1>1, <1>2 DEF GivenTo, OthersStay, Advances
<1>4. GivenTo(q, id, ValueSteps) => GivenTo(q, id, ValueSteps)'
  BY <1>1, <1>2 DEF GivenTo, OthersStay, Advances
<1> QED
  BY <1>1, <1>3, <1>4

LEMMA OthersPlaced ==
  ASSUME Inv, NEW r \in Requests, OthersStay(r), NEW q \in Requests \ {r}
  PROVE  Placed(q)'
  BY DEF Inv, OthersStay, Placed, Property

(* A step that makes no row. *)
LEMMA FewerRows ==
  ASSUME Inv, NEW r \in Requests, OthersStay(r), Advances(r),
         AllTags' \subseteq AllTags, AllValues' \subseteq AllValues,
         tx'[r].tags \subseteq tx[r].tags, tx'[r].values \subseteq tx[r].values
  PROVE  /\ IdsApart'
         /\ \A q \in Requests : KnownRows(q)'
         /\ \A q \in Requests \ {r} : Aiming(q)'
<1>1. IdsApart'
  BY DEF Inv, IdsApart, SamePair
<1>2. \A tag, type : HasType(tag, type) => HasType(tag, type)'
  BY DEF HasType
<1>3. ASSUME NEW q \in Requests PROVE KnownRows(q)'
  <2>1. tx'[q].tags \subseteq tx[q].tags /\ tx'[q].values \subseteq tx[q].values
    BY DEF OthersStay
  <2>2. tx[q].tags \subseteq TagRows /\ tx[q].values \subseteq ValueRows
    BY RowFacts DEF Inv
  <2>3. \A t \in tx'[q].tags : t.id[1] = q /\ GivenTo(q, t.id, TagSteps)'
    BY <2>1, <2>2, IdFacts, GivenStays DEF Inv, KnownRows
  <2>4. \A v \in tx'[q].values :
          /\ GivenTo(q, v.id, ValueSteps)' /\ GivenTo(q, v.tag, TagSteps)'
          /\ v.id[1] # q => HasType(v.tag, v.type)'
    BY <2>1, <2>2, <1>2, IdFacts, GivenStays DEF Inv, KnownRows
  <2> QED
    BY <2>3, <2>4 DEF KnownRows
<1>4. ASSUME NEW q \in Requests \ {r} PROVE Aiming(q)'
  <2>1. tag_id[q] \in Ids /\ tag_value_id[q] \in Ids
    BY DEF Inv, TypeOK
  <2>2. GivenTo(q, tag_id[q], TagSteps) => GivenTo(q, tag_id[q], TagSteps)'
    <3>1. \A id \in Ids : GivenTo(q, id, TagSteps) => GivenTo(q, id, TagSteps)'
      BY GivenStays DEF Inv
    <3>2. tag_id'[q] = tag_id[q]
      BY DEF OthersStay
    <3> QED
      BY <2>1, <3>1, <3>2 DEF GivenTo, Committed
  <2>3. GivenTo(q, tag_value_id[q], ValueSteps) => GivenTo(q, tag_value_id[q], ValueSteps)'
    <3>1. \A id \in Ids : GivenTo(q, id, ValueSteps) => GivenTo(q, id, ValueSteps)'
      BY GivenStays DEF Inv
    <3>2. tag_value_id'[q] = tag_value_id[q]
      BY DEF OthersStay
    <3> QED
      BY <2>1, <3>1, <3>2 DEF GivenTo, Committed
  <2>4. Item(q)' = Item(q) /\ Property(q)' = Property(q)
    BY DEF OthersStay, Item, Property
  <2>5. pc'[q] = pc[q] /\ tag_id'[q] = tag_id[q] /\ tag_value_id'[q] = tag_value_id[q]
    BY DEF OthersStay
  <2>6. Aiming(q)
    BY DEF Inv
  <2> QED
    BY <1>2, <2>2, <2>3, <2>4, <2>5, <2>6 DEF Aiming
<1> QED
  BY <1>1, <1>3, <1>4

(* A step that only goes on, or gives up. *)
LEMMA QuietStep ==
  ASSUME Inv, NEW r \in Requests, OthersStay(r), Advances(r), TypeOK',
         tag_definition' = tag_definition, tag_value' = tag_value,
         tx'[r].tags \subseteq tx[r].tags, tx'[r].values \subseteq tx[r].values,
         Aiming(r)', Placed(r)'
  PROVE  Inv'
<1>1. \A q \in Requests : tx'[q].tags \subseteq tx[q].tags /\ tx'[q].values \subseteq tx[q].values
  BY DEF OthersStay
<1>2. AllTags' \subseteq AllTags /\ AllValues' \subseteq AllValues
  BY <1>1 DEF AllTags, AllValues
<1>3. /\ IdsApart'
      /\ \A q \in Requests : KnownRows(q)'
      /\ \A q \in Requests \ {r} : Aiming(q)'
  BY <1>2, FewerRows
<1>4. NamesApart' /\ PairsApart'
  BY <1>1 DEF Inv, NamesApart, PairsApart, SamePair
<1>5. CommittedRows'
  <2>1. tag_definition \subseteq TagRows /\ tag_value \subseteq ValueRows
    BY DEF Inv, TypeOK
  <2> QED
    BY <2>1, IdFacts, GivenStays DEF Inv, CommittedRows
<1>6. \A q \in Requests \ {r} : Placed(q)'
  BY OthersPlaced
<1> QED
  BY <1>3, <1>4, <1>5, <1>6 DEF Inv

-----------------------------------------------------------------------------
(* The steps that change no table *)

LEMMA BeginStep ==
  ASSUME Inv, NEW r \in Requests, NEW op, NEW step, Begin(r, op, step),
         \/ step = "find_tag" /\ op = "update_item_tag"
         \/ step = "create_item" /\ op = "add_item"
         \/ step = "find_row" /\ op = "delete_item_tag"
         \/ step = "define_tag" /\ op = "add_tag"
         \/ step = "check_usage" /\ op = "delete_tag"
         \/ step \in {"find_items", "find_tags"}
  PROVE  Inv'
<1>1. pc[r] = "idle" /\ job[r].op = op /\ UNCHANGED <<at, job, tag_id, tag_value_id, item, tag_definition, tag_value>>
  BY DEF Begin, End, Goto, locals, tables
<1>2. /\ pc' = [pc EXCEPT ![r] = pc'[r]]
      /\ pc'[r] \in {step, "error"}
      /\ tx' = [tx EXCEPT ![r] = tx'[r]]
      /\ tx'[r] \in {tx[r], NoChange}
  BY <1>1 DEF Begin, End, Goto, Inv, TypeOK
<1>3. TypeOK'
  BY <1>1, <1>2, NoChangeTyped, RowFacts DEF Inv, TypeOK, Steps, Final
<1>4. OthersStay(r)
  BY <1>1, <1>2 DEF OthersStay, Inv, TypeOK
<1>5. Advances(r)
  BY <1>1 DEF Advances, Final, TagSteps, ValueSteps
<1>6. tx'[r].tags \subseteq tx[r].tags /\ tx'[r].values \subseteq tx[r].values
  BY <1>2 DEF NoChange
<1>7. tx'[r].gone_tags = {} /\ tx'[r].gone_values = {}
  BY <1>1, <1>2 DEF Inv, Placed, NoChange
<1>8. Aiming(r)'
  BY <1>2 DEF Aiming
<1>9. Placed(r)'
  <2>1. pc'[r] = "define_tag" => job[r].op = "add_tag" /\ 1 \in DOMAIN job[r].props
    <3>1. job[r].op = "add_tag" => 1 \in DOMAIN job[r].props
      BY JobFacts DEF Inv, Writes
    <3> QED
      BY <1>1, <1>2, <3>1
  <2>2. pc'[r] = "define_tag" => Property(r)'.tag \in Names
    BY <1>1, <2>1, JobFacts DEF Inv, Placed, Property
  <2>3. pc'[r] \in WriteSteps => job[r].op \in Writes
    BY <1>1, <1>2 DEF WriteSteps, Writes
  <2> QED
    BY <1>1, <1>2, <1>7, <2>2, <2>3 DEF Inv, Placed
<1> QED
  BY <1>1, <1>3, <1>4, <1>5, <1>6, <1>8, <1>9, QuietStep

(* A request gives up: a statement fails, or the request is dropped. *)
LEMMA FailStep ==
  ASSUME Inv, NEW r \in Requests, Fail(r), pc[r] \in Steps
  PROVE  Inv'
<1>1. /\ pc' = [pc EXCEPT ![r] = "error"] /\ tx' = [tx EXCEPT ![r] = NoChange]
      /\ UNCHANGED <<at, job, tag_id, tag_value_id, item, tag_definition, tag_value>>
  BY DEF Fail, End, Goto, locals, tables
<1>2. pc'[r] = "error" /\ tx'[r] = NoChange /\ pc[r] \notin Final
  BY <1>1 DEF Inv, TypeOK, Steps, Final
<1>3. TypeOK'
  BY <1>1, NoChangeTyped DEF Inv, TypeOK, Final
<1>4. OthersStay(r)
  BY <1>1 DEF OthersStay, Inv, TypeOK
<1>5. Advances(r)
  BY <1>1, <1>2 DEF Advances, TagSteps, ValueSteps
<1>6. tx'[r].tags \subseteq tx[r].tags /\ tx'[r].values \subseteq tx[r].values
  BY <1>2 DEF NoChange
<1>7. Aiming(r)'
  BY <1>2 DEF Aiming
<1>8. Placed(r)'
  BY <1>1, <1>2 DEF Inv, Placed, NoChange, WriteSteps
<1> QED
  BY <1>1, <1>3, <1>4, <1>5, <1>6, <1>7, <1>8, QuietStep

(* The item of add_item is in its transaction. *)
LEMMA CreateItemStep ==
  ASSUME Inv, NEW r \in Requests, CreateItem(r)
  PROVE  Inv'
<1>1. /\ pc[r] = "create_item" /\ pc' = [pc EXCEPT ![r] = "find_tag"]
      /\ tx' = [tx EXCEPT ![r]["items"] = {r}]
      /\ UNCHANGED <<at, job, tag_id, tag_value_id, item, tag_definition, tag_value>>
  BY DEF CreateItem, Change, Goto, locals, tables
<1>2. /\ pc'[r] = "find_tag"
      /\ tx'[r] = [tx[r] EXCEPT !["items"] = {r}]
      /\ tx' = [tx EXCEPT ![r] = tx'[r]]
  BY <1>1 DEF Inv, TypeOK
<1>3. /\ tx'[r].tags = tx[r].tags /\ tx'[r].values = tx[r].values
      /\ tx'[r].gone_tags = tx[r].gone_tags /\ tx'[r].gone_values = tx[r].gone_values
      /\ tx'[r] \in Transactions
  <2>1. tx[r] \in Transactions /\ {r} \subseteq AllItems
    BY RowFacts DEF Inv, AllItems
  <2> QED
    BY <1>2, <2>1 DEF Transactions
<1>4. TypeOK'
  BY <1>1, <1>2, <1>3 DEF Inv, TypeOK, Steps
<1>5. OthersStay(r)
  BY <1>1, <1>2, <1>3 DEF OthersStay, Inv, TypeOK
<1>6. Advances(r)
  BY <1>1, <1>2, <1>3 DEF Advances, TagSteps, ValueSteps, Final
<1>7. Aiming(r)'
  BY <1>2, <1>3 DEF Aiming
<1>8. Placed(r)'
  BY <1>1, <1>2, <1>3 DEF Inv, Placed, WriteSteps
<1> QED
  BY <1>1, <1>2, <1>3, <1>4, <1>5, <1>6, <1>7, <1>8, QuietStep

(* What a request sees has been given. *)
LEMMA SeenIsGiven ==
  ASSUME Inv, NEW r \in Requests, pc[r] \in Steps
  PROVE  /\ Tags(r) \subseteq AllTags /\ Values(r) \subseteq AllValues
         /\ \A t \in Tags(r) : t.id \in Ids /\ GivenTo(r, t.id, TagSteps)
         /\ \A v \in Values(r) : v.id \in Ids /\ GivenTo(r, v.id, ValueSteps)
<1>1. Tags(r) \subseteq AllTags /\ Values(r) \subseteq AllValues
  BY DEF Tags, Values, AllTags, AllValues
<1>2. AllTags \subseteq TagRows /\ AllValues \subseteq ValueRows
  BY AllRowsTyped DEF Inv
<1>3. \A id : Committed(id) => GivenTo(r, id, TagSteps) /\ GivenTo(r, id, ValueSteps)
  BY DEF Committed, GivenTo, Steps, Final
<1>4. \A t \in Tags(r) : t.id \in Ids /\ GivenTo(r, t.id, TagSteps)
  BY <1>1, <1>2, <1>3, IdFacts DEF Inv, CommittedRows, KnownRows, Tags
<1>5. \A v \in Values(r) : v.id \in Ids /\ GivenTo(r, v.id, ValueSteps)
  BY <1>1, <1>2, <1>3, IdFacts DEF Inv, CommittedRows, KnownRows, Values
<1> QED
  BY <1>1, <1>4, <1>5

(* A statement that only looks something up *)
LEMMA LookUpStep ==
  ASSUME Inv, NEW r \in Requests, NEW step \in Steps, Goto(r, step),
         UNCHANGED <<at, job, tx, item, tag_definition, tag_value>>,
         pc[r] \in Steps, step \in WriteSteps => pc[r] \in WriteSteps,
         step \in TagSteps => pc[r] \in TagSteps,
         step \in ValueSteps => pc[r] \in ValueSteps,
         tag_id' = [tag_id EXCEPT ![r] = tag_id'[r]], tag_id'[r] \in Ids,
         tag_value_id' = [tag_value_id EXCEPT ![r] = tag_value_id'[r]], tag_value_id'[r] \in Ids,
         step = "define_tag" => Property(r).tag \in Names,
         tx[r].gone_tags # {} => step = "commit",
         tx[r].gone_values # {} => step \in {"find_row", "delete_value", "commit"},
         Aiming(r)'
  PROVE  Inv'
<1>1. pc' = [pc EXCEPT ![r] = step] /\ pc'[r] = step
  BY DEF Goto, Inv, TypeOK
<1>2. TypeOK'
  BY <1>1 DEF Inv, TypeOK
<1>3. OthersStay(r)
  BY <1>1 DEF OthersStay, Inv, TypeOK
<1>4. Advances(r)
  BY <1>1 DEF Advances, Steps, Final
<1>5. Placed(r)'
  BY <1>1 DEF Inv, Placed, Property, Steps
<1> QED
  BY <1>2, <1>3, <1>4, <1>5, QuietStep

LEMMA CheckTagIdStep ==
  ASSUME Inv, NEW r \in Requests, CheckTagId(r)
  PROVE  Inv'
<1>1. CASE Fail(r)
  BY <1>1, FailStep DEF CheckTagId, Steps
<1>2. CASE ~Fail(r)
  <2>1. PICK t \in Tags(r) : t.id = Property(r).tag
    BY <1>2 DEF CheckTagId
  <2>2. /\ pc[r] = "find_tag" /\ Goto(r, "find_value")
        /\ tag_id' = [tag_id EXCEPT ![r] = t.id] /\ t.id \in Ids
        /\ UNCHANGED <<at, job, tag_value_id, tx, item, tag_definition, tag_value>>
    BY <1>2, <2>1 DEF CheckTagId, tables
  <2>3. tag_id'[r] = t.id
    BY <2>2 DEF Inv, TypeOK
  <2>4. pc' = [pc EXCEPT ![r] = "find_value"] /\ pc'[r] = "find_value"
    BY <2>2 DEF Goto, Inv, TypeOK
  <2>5. GivenTo(r, t.id, TagSteps)
    BY <2>2, SeenIsGiven DEF Steps
  <2>6. OthersStay(r) /\ Advances(r)
    BY <2>2, <2>4 DEF OthersStay, Advances, Inv, TypeOK, TagSteps, ValueSteps, Final
  <2>7. GivenTo(r, t.id, TagSteps)'
    BY <2>2, <2>5, <2>6, GivenStays DEF Inv
  <2>8. Aiming(r)'
    BY <2>2, <2>3, <2>4, <2>7 DEF Aiming, GivenTo, Committed
  <2> QED
    BY <2>2, <2>3, <2>8, LookUpStep DEF Steps, WriteSteps, TagSteps, ValueSteps, Inv, TypeOK, Placed
<1> QED
  BY <1>1, <1>2

LEMMA SearchTagStep ==
  ASSUME Inv, NEW r \in Requests, SearchTag(r)
  PROVE  Inv'
<1>1. /\ pc[r] = "find_tag" /\ Property(r).tag \in Names
      /\ UNCHANGED <<at, job, tag_value_id, tx, item, tag_definition, tag_value>>
  BY DEF SearchTag, tables
<1>2. ASSUME NEW t \in Tags(r), tag_id' = [tag_id EXCEPT ![r] = t.id], Goto(r, "find_value")
      PROVE  Inv'
  <2>1. tag_id'[r] = t.id /\ pc' = [pc EXCEPT ![r] = "find_value"] /\ pc'[r] = "find_value"
    BY <1>2 DEF Goto, Inv, TypeOK
  <2>2. t.id \in Ids /\ GivenTo(r, t.id, TagSteps)
    BY <1>1, SeenIsGiven DEF Steps
  <2>3. OthersStay(r) /\ Advances(r)
    BY <1>1, <1>2, <2>1 DEF OthersStay, Advances, Inv, TypeOK, TagSteps, ValueSteps, Final
  <2>4. GivenTo(r, t.id, TagSteps)'
    BY <2>2, <2>3, GivenStays DEF Inv
  <2>5. Aiming(r)'
    BY <2>1, <2>4 DEF Aiming, GivenTo, Committed
  <2> QED
    BY <1>1, <1>2, <2>1, <2>2, <2>5, LookUpStep DEF Steps, WriteSteps, TagSteps, ValueSteps, Inv, TypeOK, Placed
<1>3. ASSUME Goto(r, "define_tag"), UNCHANGED tag_id
      PROVE  Inv'
  <2>1. Aiming(r)'
    BY <1>3 DEF Aiming, Goto, Inv, TypeOK
  <2> QED
    BY <1>1, <1>3, <2>1, LookUpStep DEF Steps, WriteSteps, TagSteps, ValueSteps, Inv, TypeOK, Placed
<1> QED
  BY <1>2, <1>3 DEF SearchTag, search_tag_by_name

(* The value that is found is the only one with its tag on its item, and   *)
(* its tag has the type of the property.                                   *)
LEMMA FindValueStep ==
  ASSUME Inv, NEW r \in Requests, FindValue(r)
  PROVE  Inv'
<1>1. pc[r] = "find_value"
  BY DEF FindValue
<1>2. CASE Fail(r)
  BY <1>1, <1>2, FailStep DEF Steps
<1>3. CASE ~Fail(r)
  <2>1. UNCHANGED <<at, job, tag_id, tx, item, tag_definition, tag_value>>
    BY <1>3 DEF FindValue, locals, tables
  <2>2. GivenTo(r, tag_id[r], TagSteps) /\ tag_id[r] \in Ids
    BY <1>1 DEF Inv, Aiming, TypeOK
  <2>3. CASE Goto(r, "insert_value") /\ UNCHANGED tag_value_id
    <3>1. pc'[r] = "insert_value" /\ OthersStay(r) /\ Advances(r)
      BY <1>1, <2>1, <2>3 DEF OthersStay, Advances, Inv, TypeOK, TagSteps, ValueSteps, Final, Goto
    <3>2. Aiming(r)'
      BY <2>1, <2>2, <3>1, <1>1 DEF Aiming, GivenTo, Committed, TagSteps, Inv, TypeOK, OthersStay, Final
    <3> QED
      BY <1>1, <2>1, <2>3, <3>2, LookUpStep DEF Steps, WriteSteps, TagSteps, ValueSteps, Inv, TypeOK, Placed
  <2>4. ASSUME NEW row \in is_tags_on_item(r, Item(r), tag_id[r]), row[2] = Property(r).type,
               tag_value_id' = [tag_value_id EXCEPT ![r] = row[1]], Goto(r, "change_value")
        PROVE  Inv'
    <3>1. PICK v \in Values(r), t \in Tags(r) :
            /\ row = <<v.id, t.type>> /\ v.item = Item(r) /\ v.tag = tag_id[r] /\ t.id = tag_id[r]
      BY <2>4 DEF is_tags_on_item
    <3>2. v \in AllValues /\ t \in AllTags /\ v.id \in Ids /\ GivenTo(r, v.id, ValueSteps)
      BY <1>1, SeenIsGiven DEF Steps
    <3>3. pc'[r] = "change_value" /\ tag_value_id'[r] = v.id /\ OthersStay(r) /\ Advances(r)
      BY <1>1, <2>1, <2>4, <3>1 DEF OthersStay, Advances, Inv, TypeOK, TagSteps, ValueSteps, Final, Goto
    <3>4. GivenTo(r, v.id, ValueSteps)'
      BY <3>2, <3>3, GivenStays DEF Inv
    <3>5. GivenTo(r, tag_id[r], TagSteps)'
      BY <2>1, <2>2, <3>3, <1>1 DEF GivenTo, Committed, TagSteps, Inv, TypeOK, OthersStay, Final
    <3>6. \A w \in AllValues : w.id = v.id => w.tag = tag_id[r] /\ w.item = Item(r)
      BY <3>1, <3>2 DEF Inv, IdsApart, SamePair
    <3>7. \A other \in AllTags : other.id = tag_id[r] => other.type = Property(r).type
      BY <2>4, <3>1, <3>2 DEF Inv, IdsApart
    <3>8. AllValues' = AllValues /\ AllTags' = AllTags
      BY <2>1 DEF AllValues, AllTags
    <3>9. Aiming(r)'
      BY <2>1, <3>3, <3>4, <3>5, <3>6, <3>7, <3>8 DEF Aiming, GivenTo, Committed, HasType, Item, Property
    <3> QED
      BY <1>1, <2>1, <2>4, <3>2, <3>3, <3>9, LookUpStep DEF Steps, WriteSteps, TagSteps, ValueSteps, Inv, TypeOK, Placed
  <2> QED
    BY <1>3, <2>3, <2>4 DEF FindValue, locals
<1> QED
  BY <1>2, <1>3

(* delete_item_tag and delete_tag look for rows that others may take first. *)
LEMMA NextPropertyPlace ==
  ASSUME Inv, NEW r \in Requests, NEW step, NextProperty(r, step), pc[r] \in WriteSteps, UNCHANGED job
  PROVE  /\ pc' = [pc EXCEPT ![r] = pc'[r]] /\ pc'[r] \in {step, "commit"}
         /\ at' = [at EXCEPT ![r] = at'[r]] /\ at'[r] \in Nat \ {0}
         /\ at'[r] \in 1..Len(job[r].props)
         /\ at'[r] = at[r] + 1 \/ (at'[r] = at[r] /\ pc'[r] = "commit")
<1>1. at[r] \in 1..Len(job[r].props) /\ Len(job[r].props) \in Nat
  BY JobFacts DEF Inv, Placed
<1>2. CASE at[r] < Len(job[r].props)
  BY <1>1, <1>2 DEF NextProperty, Goto, Inv, TypeOK
<1>3. CASE ~(at[r] < Len(job[r].props))
  BY <1>1, <1>3 DEF NextProperty, Goto, Inv, TypeOK
<1> QED
  BY <1>2, <1>3

LEMMA FindRowStep ==
  ASSUME Inv, NEW r \in Requests, FindRow(r)
  PROVE  Inv'
<1>1. pc[r] = "find_row" /\ UNCHANGED <<job, tag_id, tx, item, tag_definition, tag_value>>
  BY DEF FindRow, tables
<1>2. ASSUME NEW v \in Values(r), tag_value_id' = [tag_value_id EXCEPT ![r] = v.id],
             Goto(r, "delete_value"), UNCHANGED at
      PROVE  Inv'
  <2>1. v.id \in Ids /\ tag_value_id'[r] = v.id
    BY <1>1, <1>2, SeenIsGiven DEF Steps, Inv, TypeOK
  <2>2. Aiming(r)'
    BY <1>2 DEF Aiming, Goto, Inv, TypeOK
  <2> QED
    BY <1>1, <1>2, <2>1, <2>2, LookUpStep DEF Steps, WriteSteps, TagSteps, ValueSteps, Inv, TypeOK, Placed
<1>3. ASSUME NextProperty(r, "find_row"), UNCHANGED tag_value_id
      PROVE  Inv'
  <2>1. /\ pc' = [pc EXCEPT ![r] = pc'[r]] /\ pc'[r] \in {"find_row", "commit"}
        /\ at' = [at EXCEPT ![r] = at'[r]] /\ at'[r] \in Nat \ {0}
        /\ at'[r] \in 1..Len(job[r].props)
        /\ at'[r] = at[r] + 1 \/ (at'[r] = at[r] /\ pc'[r] = "commit")
    BY <1>1, <1>3, NextPropertyPlace DEF WriteSteps
  <2>2. TypeOK'
    BY <1>1, <1>3, <2>1 DEF Inv, TypeOK, Steps
  <2>3. OthersStay(r) /\ Advances(r)
    BY <1>1, <1>3, <2>1 DEF OthersStay, Advances, Inv, TypeOK, TagSteps, ValueSteps, Final
  <2>4. Aiming(r)' /\ Placed(r)'
    BY <1>1, <2>1 DEF Aiming, Placed, Inv, WriteSteps
  <2> QED
    BY <1>1, <2>2, <2>3, <2>4, QuietStep
<1> QED
  BY <1>2, <1>3 DEF FindRow, delete_item_tag_value

LEMMA CheckUsageStep ==
  ASSUME Inv, NEW r \in Requests, CheckUsage(r)
  PROVE  Inv'
<1>1. CASE Fail(r)
  BY <1>1, FailStep DEF CheckUsage, Steps
<1>2. CASE ~Fail(r)
  <2>1. pc[r] = "check_usage" /\ Goto(r, "delete_tag")
        /\ UNCHANGED <<at, job, tag_id, tag_value_id, tx, item, tag_definition, tag_value>>
    BY <1>2 DEF CheckUsage, locals, tables
  <2>2. Aiming(r)'
    BY <2>1 DEF Aiming, Goto, Inv, TypeOK
  <2> QED
    BY <2>1, <2>2, LookUpStep DEF Steps, WriteSteps, TagSteps, ValueSteps, Inv, TypeOK, Placed
<1> QED
  BY <1>1, <1>2

(* The requests that read *)
LEMMA ReadStep ==
  ASSUME Inv, NEW r \in Requests, Read(r)
  PROVE  Inv'
<1>1. pc[r] \in {"find_items", "find_properties", "find_tags"}
  BY DEF Read, FindItems, FindProperties, FindTags
<1>2. CASE Fail(r)
  BY <1>1, <1>2, FailStep DEF Steps
<1>3. CASE ~Fail(r)
  <2>1. PICK step \in {"find_properties", "commit"} :
          /\ Goto(r, step)
          /\ UNCHANGED <<at, job, tag_id, tag_value_id, tx, item, tag_definition, tag_value>>
    BY <1>3 DEF Read, FindItems, FindProperties, FindTags, locals, tables
  <2>2. Aiming(r)'
    BY <2>1 DEF Aiming, Goto, Inv, TypeOK
  <2> QED
    BY <1>1, <2>1, <2>2, LookUpStep DEF Steps, WriteSteps, TagSteps, ValueSteps, Inv, TypeOK, Placed
<1> QED
  BY <1>2, <1>3

-----------------------------------------------------------------------------
(* The steps that make a row *)

LEMMA OneRow == ASSUME NEW a, NEW b, NEW c
                PROVE  [id : {a}, name : {b}, type : {c}] = {[id |-> a, name |-> b, type |-> c]}
<1>1. ASSUME NEW row \in [id : {a}, name : {b}, type : {c}]
      PROVE  row = [id |-> a, name |-> b, type |-> c]
  OBVIOUS
<1>2. [id |-> a, name |-> b, type |-> c] \in [id : {a}, name : {b}, type : {c}]
  OBVIOUS
<1> QED
  BY <1>1, <1>2

(* The id that a request is about to give has been given to nobody. *)
LEMMA NextIdIsNew ==
  ASSUME TypeOK, NEW r \in Requests
  PROVE  /\ pc[r] \in TagSteps \ Final => \A q \in Requests : ~GivenTo(q, Id(r), TagSteps)
         /\ pc[r] \in ValueSteps \ Final => \A q \in Requests : ~GivenTo(q, Id(r), ValueSteps)
         /\ pc[r] \notin Final => ~Committed(Id(r))
<1>1. Id(r)[1] = r /\ Id(r)[2] = at[r] /\ at[r] \in Nat
  BY RowFacts
<1> QED
  BY <1>1 DEF GivenTo, Committed

(* A tag is defined: nobody else has the name, and nobody the id. *)
LEMMA DefineTagStep ==
  ASSUME Inv, NEW r \in Requests, DefineTag(r)
  PROVE  Inv'
<1> DEFINE n == [id |-> Id(r), name |-> Property(r).tag, type |-> Property(r).type]
<1>1. CASE Fail(r)
  BY <1>1, FailStep DEF DefineTag, Steps
<1>2. CASE ~Fail(r)
  <2>1. /\ pc[r] = "define_tag" /\ NameLocks(r, n.name) = {}
        /\ \A t \in Tags(r) : t.name # n.name
        /\ tx' = [tx EXCEPT ![r]["tags"] = tx[r].tags \cup {n}]
        /\ tag_id' = [tag_id EXCEPT ![r] = Id(r)]
        /\ pc' = [pc EXCEPT ![r] = IF job[r].op = "add_tag" THEN "commit" ELSE "find_value"]
        /\ UNCHANGED <<at, job, tag_value_id, item, tag_definition, tag_value>>
    BY <1>2, OneRow DEF DefineTag, Change, Goto, tables
  <2>2. /\ pc'[r] \in {"commit", "find_value"} /\ tag_id'[r] = Id(r)
        /\ tx'[r] = [tx[r] EXCEPT !["tags"] = tx[r].tags \cup {n}]
        /\ tx' = [tx EXCEPT ![r] = tx'[r]]
        /\ \A q \in Requests \ {r} : tx'[q] = tx[q]
    BY <2>1 DEF Inv, TypeOK
  <2>3. n \in TagRows /\ n.id \in Ids
    <3>1. Property(r).tag \in Names /\ job[r].op \in Writes
      BY <2>1 DEF Inv, Placed, WriteSteps
    <3>2. Property(r).type \in Types /\ Id(r) \in Ids
      BY <3>1, PropertyFacts, RowFacts DEF Inv
    <3> QED
      BY <3>1, <3>2 DEF TagRows
  <2>4. /\ tx'[r].tags = tx[r].tags \cup {n} /\ tx'[r].values = tx[r].values
        /\ tx'[r].gone_tags = tx[r].gone_tags /\ tx'[r].gone_values = tx[r].gone_values
        /\ tx'[r] \in Transactions
    <3>1. tx[r] \in Transactions
      BY RowFacts DEF Inv
    <3> QED
      BY <2>2, <2>3, <3>1 DEF Transactions
  <2>5. TypeOK'
    BY <2>1, <2>2, <2>3, <2>4 DEF Inv, TypeOK, Steps
  <2>6. OthersStay(r) /\ Advances(r)
    BY <2>1, <2>2 DEF OthersStay, Advances, Inv, TypeOK, TagSteps, ValueSteps, Final
  <2>7. ~Committed(n.id) /\ \A q \in Requests : ~GivenTo(q, n.id, TagSteps)
    BY <2>1, NextIdIsNew DEF Inv, TagSteps, Final
  <2>8. AllTags' = AllTags \cup {n} /\ AllValues' = AllValues
    BY <2>1, <2>2, <2>4 DEF AllTags, AllValues
  <2>9. \A t \in AllTags : t.id # n.id
    BY <2>7 DEF AllTags, Inv, CommittedRows, KnownRows
  <2>10. IdsApart'
    BY <2>8, <2>9 DEF Inv, IdsApart, SamePair
  <2>11. \A tag, type : tag # n.id /\ HasType(tag, type) => HasType(tag, type)'
    BY <2>8 DEF HasType
  <2>12. CommittedRows'
    <3>1. tag_definition \subseteq TagRows /\ tag_value \subseteq ValueRows
      BY DEF Inv, TypeOK
    <3> QED
      BY <2>1, <2>6, <3>1, IdFacts, GivenStays DEF Inv, CommittedRows
  <2>13. NamesApart'
    <3>1. \A q \in Requests \ {r} : \A t \in tx[q].tags : t.name # n.name
      BY <2>1 DEF NameLocks, Others
    <3>2. \A t \in tag_definition : t.name # n.name
      <4>1. tx[r].gone_tags = {}
        BY <2>1 DEF Inv, Placed
      <4> QED
        BY <2>1, <4>1 DEF Tags
    <3>3. \A t \in tx[r].tags : t.name # n.name
      BY <2>1 DEF Tags
    <3> HIDE DEF n
    <3> QED
      BY <2>1, <2>2, <2>4, <3>1, <3>2, <3>3 DEF Inv, NamesApart
  <2>14. PairsApart'
    BY <2>1, <2>2, <2>4 DEF Inv, PairsApart, SamePair
  <2>15. ASSUME NEW q \in Requests PROVE KnownRows(q)'
    <3>1. tx[q].tags \subseteq TagRows /\ tx[q].values \subseteq ValueRows /\ tx'[q].values = tx[q].values
      BY <2>2, <2>4, RowFacts DEF Inv
    <3>2. ASSUME NEW t \in tx'[q].tags PROVE t.id[1] = q /\ GivenTo(q, t.id, TagSteps)'
      <4>1. CASE t \in tx[q].tags
        BY <2>6, <3>1, <4>1, IdFacts, GivenStays DEF Inv, KnownRows
      <4>2. CASE t \notin tx[q].tags
        <5>1. q = r /\ t = n /\ n.id[1] = r /\ n.id[2] = at[r]
          BY <2>2, <2>4, <4>2, RowFacts DEF Inv
        <5> QED
          BY <5>1, <2>1, <2>2 DEF GivenTo, TagSteps
      <4> QED
        BY <4>1, <4>2
    <3>3. ASSUME NEW v \in tx'[q].values
          PROVE  /\ GivenTo(q, v.id, ValueSteps)' /\ GivenTo(q, v.tag, TagSteps)'
                 /\ v.id[1] # q => HasType(v.tag, v.type)'
      <4>1. GivenTo(q, v.id, ValueSteps) /\ GivenTo(q, v.tag, TagSteps) /\ v.id \in Ids /\ v.tag \in Ids
        BY <3>1, IdFacts DEF Inv, KnownRows
      <4>2. v.tag # n.id
        BY <4>1, <2>7
      <4> QED
        BY <2>6, <2>11, <3>1, <4>1, <4>2, GivenStays DEF Inv, KnownRows
    <3> QED
      BY <3>2, <3>3 DEF KnownRows
  <2>16. ASSUME NEW q \in Requests PROVE Aiming(q)'
    <3>1. CASE q = r
      <4>1. n.id[1] = r /\ n.id[2] = at[r]
        BY RowFacts DEF Inv
      <4> QED
        BY <2>1, <2>2, <3>1, <4>1 DEF Aiming, GivenTo, TagSteps
    <3>2. CASE q # r
      <4>1. /\ pc'[q] = pc[q] /\ tag_id'[q] = tag_id[q] /\ tag_value_id'[q] = tag_value_id[q]
            /\ tag_id[q] \in Ids /\ tag_value_id[q] \in Ids
        BY <2>6, <3>2 DEF OthersStay, Inv, TypeOK
      <4>2. Aiming(q)
        BY DEF Inv
      <4>3. \A id \in Ids :
              /\ GivenTo(q, id, TagSteps) => GivenTo(q, id, TagSteps)'
              /\ GivenTo(q, id, ValueSteps) => GivenTo(q, id, ValueSteps)'
        BY <2>6, GivenStays DEF Inv
      <4>4. GivenTo(q, tag_id[q], TagSteps) => tag_id[q] # n.id
        BY <2>7
      <4>5. Item(q)' = Item(q) /\ Property(q)' = Property(q)
        BY <2>1 DEF Item, Property
      <4>6. ASSUME NEW a, NEW b, NEW p, a = tag_id[q], b = tag_value_id[q], p = Property(q),
                   pc[q] \in {"find_value", "insert_value", "change_value"}
            PROVE  /\ GivenTo(q, a, TagSteps)'
                   /\ pc[q] = "change_value" =>
                        /\ GivenTo(q, b, ValueSteps)'
                        /\ \A v \in AllValues' : v.id = b => v.tag = a /\ v.item = Item(q)
                        /\ HasType(a, p.type)'
        BY <2>8, <2>11, <4>1, <4>2, <4>3, <4>4, <4>6 DEF Aiming
      <4> QED
        BY <4>1, <4>5, <4>6 DEF Aiming, GivenTo, Committed, HasType
    <3> QED
      BY <3>1, <3>2
  <2>17. Placed(r)'
    BY <2>1, <2>2, <2>4 DEF Inv, Placed, Property, WriteSteps
  <2>18. \A q \in Requests \ {r} : Placed(q)'
    BY <2>6, OthersPlaced
  <2> QED
    BY <2>5, <2>10, <2>12, <2>13, <2>14, <2>15, <2>16, <2>17, <2>18 DEF Inv
<1> QED
  BY <1>1, <1>2

(* A value is inserted, or takes the place of a value of the same id.  The *)
(* others have no value with its tag on its item.                          *)
LEMMA PutValueStep ==
  ASSUME Inv, NEW r \in Requests, pc[r] \in {"insert_value", "change_value"}, NEW n,
         n = NewValue(r, n.id, tag_id[r]), n.id \in Ids,
         tx' = [tx EXCEPT ![r]["values"] = {v \in tx[r].values : v.id # n.id} \cup {n}],
         NextProperty(r, "find_tag"),
         UNCHANGED <<job, tag_id, tag_value_id, item, tag_definition, tag_value>>,
         \A v \in AllValues : v.id = n.id => SamePair(v, n),
         (\E v \in AllValues : v.id = n.id) \/ \A q \in Requests : ~GivenTo(q, n.id, ValueSteps),
         \A v \in tx[r].values : SamePair(v, n) => v.id = n.id,
         \A v \in tag_value : SamePair(v, n) => v.id = n.id,
         \A q \in Requests \ {r} : \A v \in tx[q].values : ~SamePair(v, n),
         GivenTo(r, n.id, ValueSteps) \/ n.id = Id(r),
         n.id[1] # r => HasType(n.tag, n.type)
  PROVE  Inv'
<1>1. /\ pc' = [pc EXCEPT ![r] = pc'[r]] /\ pc'[r] \in {"find_tag", "commit"}
      /\ at' = [at EXCEPT ![r] = at'[r]] /\ at'[r] \in Nat \ {0}
      /\ at'[r] \in 1..Len(job[r].props)
      /\ at'[r] = at[r] + 1 \/ (at'[r] = at[r] /\ pc'[r] = "commit")
  BY NextPropertyPlace DEF WriteSteps
<1>2. /\ n.tag = tag_id[r] /\ n.item = Item(r) /\ n.type = Property(r).type /\ n \in ValueRows
  <2>1. job[r].op \in Writes
    BY DEF Inv, Placed, WriteSteps
  <2>2. Property(r).type \in Types /\ Item(r) \in AllItems /\ Id(r) \in Ids /\ tag_id[r] \in Ids
    BY <2>1, PropertyFacts, JobFacts, RowFacts DEF Inv, TypeOK
  <2> QED
    BY <2>2 DEF NewValue, ValueRows
<1>3. /\ tx'[r] = [tx[r] EXCEPT !["values"] = {v \in tx[r].values : v.id # n.id} \cup {n}]
      /\ tx' = [tx EXCEPT ![r] = tx'[r]]
      /\ \A q \in Requests \ {r} : tx'[q] = tx[q]
  BY DEF Inv, TypeOK
<1>4. /\ tx'[r].values = {v \in tx[r].values : v.id # n.id} \cup {n}
      /\ tx'[r].tags = tx[r].tags
      /\ tx'[r].gone_tags = tx[r].gone_tags /\ tx'[r].gone_values = tx[r].gone_values
      /\ tx'[r] \in Transactions
  <2>1. tx[r] \in Transactions
    BY RowFacts DEF Inv
  <2> QED
    BY <1>2, <1>3, <2>1 DEF Transactions
<1>5. TypeOK'
  <2>1. tx' \in [Requests -> Transactions]
    BY <1>3, <1>4 DEF Inv, TypeOK
  <2>2. pc' \in [Requests -> {"idle"} \cup Steps \cup Final]
    BY <1>1 DEF Inv, TypeOK, Steps
  <2>3. at' \in [Requests -> Nat \ {0}]
    BY <1>1 DEF Inv, TypeOK
  <2> QED
    BY <2>1, <2>2, <2>3 DEF Inv, TypeOK
<1>6. OthersStay(r) /\ Advances(r)
  BY <1>1, <1>3 DEF OthersStay, Advances, Inv, TypeOK, TagSteps, ValueSteps, Final
<1>7. AllTags' = AllTags /\ AllValues' \subseteq AllValues \cup {n}
  BY <1>3, <1>4 DEF AllTags, AllValues
<1>8. IdsApart'
  BY <1>7 DEF Inv, IdsApart, SamePair
<1>9. \A tag, type : HasType(tag, type) => HasType(tag, type)'
  BY <1>7 DEF HasType
<1>10. CommittedRows'
  <2>1. tag_definition \subseteq TagRows /\ tag_value \subseteq ValueRows
    BY DEF Inv, TypeOK
  <2> QED
    BY <1>6, <2>1, IdFacts, GivenStays DEF Inv, CommittedRows
<1>11. NamesApart'
  BY <1>3, <1>4 DEF Inv, NamesApart
<1>12. PairsApart'
  <2>1. ASSUME NEW q \in Requests, NEW v \in tx'[q].values
        PROVE  /\ \A w \in tx'[q].values : SamePair(v, w) => v = w
               /\ \A w \in tag_value : SamePair(v, w) => v.id = w.id
               /\ \A p \in Requests \ {q} : \A w \in tx'[p].values : ~SamePair(v, w)
    <3>1. CASE q = r
      BY <1>3, <1>4, <2>1, <3>1 DEF Inv, PairsApart, SamePair
    <3>2. CASE q # r
      BY <1>3, <1>4, <2>1, <3>2 DEF Inv, PairsApart, SamePair
    <3> QED
      BY <3>1, <3>2
  <2> QED
    BY <2>1 DEF Inv, PairsApart, SamePair
<1>13. ASSUME NEW q \in Requests PROVE KnownRows(q)'
  <2>1. tx[q].tags \subseteq TagRows /\ tx[q].values \subseteq ValueRows /\ tx'[q].tags = tx[q].tags
    BY <1>3, <1>4, RowFacts DEF Inv
  <2>2. \A t \in tx'[q].tags : t.id[1] = q /\ GivenTo(q, t.id, TagSteps)'
    BY <1>6, <2>1, IdFacts, GivenStays DEF Inv, KnownRows
  <2>3. ASSUME NEW v \in tx'[q].values
        PROVE  /\ GivenTo(q, v.id, ValueSteps)' /\ GivenTo(q, v.tag, TagSteps)'
               /\ v.id[1] # q => HasType(v.tag, v.type)'
    <3>1. CASE v \in tx[q].values
      BY <1>6, <1>9, <2>1, <3>1, IdFacts, GivenStays DEF Inv, KnownRows
    <3>2. CASE v \notin tx[q].values
      <4>1. q = r /\ v = n
        BY <1>3, <1>4, <2>3, <3>2
      <4>2. GivenTo(r, n.tag, TagSteps)'
        <5>1. GivenTo(r, n.tag, TagSteps) /\ n.tag \in Ids
          BY <1>2 DEF Inv, Aiming, TypeOK
        <5> QED
          BY <1>6, <5>1, GivenStays DEF Inv
      <4>3. GivenTo(r, n.id, ValueSteps)'
        <5>1. CASE GivenTo(r, n.id, ValueSteps)
          BY <1>6, <5>1, GivenStays DEF Inv
        <5>2. CASE n.id = Id(r)
          BY <1>1, <5>2, RowFacts DEF Inv, GivenTo, ValueSteps, TagSteps
        <5> QED
          BY <5>1, <5>2
      <4> QED
        BY <1>9, <4>1, <4>2, <4>3
    <3> QED
      BY <3>1, <3>2
  <2> QED
    BY <2>2, <2>3 DEF KnownRows
<1>14. ASSUME NEW q \in Requests PROVE Aiming(q)'
  <2>1. CASE q = r
    BY <1>1, <2>1 DEF Aiming
  <2>2. CASE q # r
    <3>1. /\ pc'[q] = pc[q] /\ tag_id'[q] = tag_id[q] /\ tag_value_id'[q] = tag_value_id[q]
          /\ tag_id[q] \in Ids /\ tag_value_id[q] \in Ids
      BY <1>6, <2>2 DEF OthersStay, Inv, TypeOK
    <3>2. Aiming(q)
      BY DEF Inv
    <3>3. \A id \in Ids :
            /\ GivenTo(q, id, TagSteps) => GivenTo(q, id, TagSteps)'
            /\ GivenTo(q, id, ValueSteps) => GivenTo(q, id, ValueSteps)'
      BY <1>6, GivenStays DEF Inv
    <3>4. Item(q)' = Item(q) /\ Property(q)' = Property(q)
      BY <1>6, <2>2 DEF Item, Property, OthersStay
    <3>5. ASSUME NEW a, NEW b, NEW p, a = tag_id[q], b = tag_value_id[q], p = Property(q),
                 pc[q] \in {"find_value", "insert_value", "change_value"}
          PROVE  /\ GivenTo(q, a, TagSteps)'
                 /\ pc[q] = "change_value" =>
                      /\ GivenTo(q, b, ValueSteps)'
                      /\ \A v \in AllValues' : v.id = b => v.tag = a /\ v.item = Item(q)
                      /\ HasType(a, p.type)'
      <4>1. pc[q] = "change_value" /\ n.id = b => n.tag = a /\ n.item = Item(q)
        BY <3>2, <3>5 DEF Aiming, SamePair
      <4> QED
        BY <1>7, <1>9, <3>1, <3>2, <3>3, <3>5, <4>1 DEF Aiming
    <3> QED
      BY <3>1, <3>4, <3>5 DEF Aiming, GivenTo, Committed, HasType
  <2> QED
    BY <2>1, <2>2
<1>15. Placed(r)'
  BY <1>1, <1>4 DEF Inv, Placed, WriteSteps
<1>16. \A q \in Requests \ {r} : Placed(q)'
  BY <1>6, OthersPlaced
<1> QED
  BY <1>5, <1>8, <1>10, <1>11, <1>12, <1>13, <1>14, <1>15, <1>16 DEF Inv

(* PairLocks: whoever inserted, changed or deleted a value of the pair. *)
LEMMA InsertValueStep ==
  ASSUME Inv, NEW r \in Requests, InsertValue(r)
  PROVE  Inv'
<1>1. CASE Fail(r)
  BY <1>1, FailStep DEF InsertValue, Steps
<1>2. CASE ~Fail(r)
  <2>1. /\ pc[r] = "insert_value" /\ PairLocks(r, tag_id[r], Item(r)) = {}
        /\ \A v \in Values(r) : ~(v.tag = tag_id[r] /\ v.item = Item(r))
        /\ tx' = [tx EXCEPT ![r]["values"] = tx[r].values \cup {NewValue(r, Id(r), tag_id[r])}]
        /\ NextProperty(r, "find_tag")
        /\ UNCHANGED <<job, tag_id, tag_value_id, item, tag_definition, tag_value>>
    BY <1>2 DEF InsertValue, Change, locals, tables
  <2>2. PICK n : n = NewValue(r, Id(r), tag_id[r])
    OBVIOUS
  <2>3. n.id = Id(r) /\ n.tag = tag_id[r] /\ n.item = Item(r) /\ n.id \in Ids /\ n.id[1] = r
    BY <2>2, RowFacts DEF NewValue, Inv
  <2>4. ~Committed(n.id) /\ \A q \in Requests : ~GivenTo(q, n.id, ValueSteps)
    BY <2>1, <2>3, NextIdIsNew DEF Inv, ValueSteps, Final
  <2>5. \A v \in AllValues : v.id # n.id
    BY <2>4 DEF AllValues, Inv, CommittedRows, KnownRows
  <2>6. tx' = [tx EXCEPT ![r]["values"] = {v \in tx[r].values : v.id # n.id} \cup {n}]
    <3>1. tx[r].values = {v \in tx[r].values : v.id # n.id}
      BY <2>5 DEF AllValues
    <3> QED
      BY <2>1, <2>2, <3>1
  <2>7. \A v \in tx[r].values : ~SamePair(v, n)
    BY <2>1, <2>3 DEF Values, SamePair
  <2>8. \A v \in tag_value : SamePair(v, n) => v.id = n.id
    <3>1. ASSUME NEW v \in tag_value, SamePair(v, n) PROVE FALSE
      <4>1. tx[r].gone_values = {}
        BY <2>1 DEF Inv, Placed
      <4>2. v.id \in IdsOf(tx[r].values)
        BY <2>1, <2>3, <3>1, <4>1 DEF Values, SamePair
      <4>3. PICK w \in tx[r].values : w.id = v.id
        BY <4>2 DEF IdsOf
      <4>4. SamePair(w, n)
        BY <3>1, <4>3 DEF Inv, IdsApart, AllValues, SamePair
      <4> QED
        BY <2>7, <4>3, <4>4
    <3> QED
      BY <3>1
  <2>9. \A q \in Requests \ {r} : \A v \in tx[q].values : ~SamePair(v, n)
    BY <2>1, <2>3 DEF PairLocks, Others, SamePair, IdsOf
  <2> QED
    BY <2>1, <2>2, <2>3, <2>4, <2>5, <2>6, <2>7, <2>8, <2>9, PutValueStep
<1> QED
  BY <1>1, <1>2

(* ValueLocks: whoever changed or deleted the row. *)
LEMMA ChangeValueStep ==
  ASSUME Inv, NEW r \in Requests, ChangeValue(r)
  PROVE  Inv'
<1>1. /\ pc[r] = "change_value" /\ ValueLocks(r, tag_value_id[r]) = {}
      /\ NextProperty(r, "find_tag")
      /\ UNCHANGED <<job, tag_id, tag_value_id, item, tag_definition, tag_value>>
  BY DEF ChangeValue, locals, tables
<1>2. CASE tag_value_id[r] \in IdsOf(Values(r))
  <2>1. PICK n : n = NewValue(r, tag_value_id[r], tag_id[r])
    OBVIOUS
  <2>2. /\ n.id = tag_value_id[r] /\ n.tag = tag_id[r] /\ n.item = Item(r) /\ n.type = Property(r).type
        /\ n.id \in Ids
    BY <2>1 DEF NewValue, Inv, TypeOK
  <2>3. tx' = [tx EXCEPT ![r]["values"] = {v \in tx[r].values : v.id # n.id} \cup {n}]
    BY <1>2, <2>1, <2>2 DEF ChangeValue, Change
  <2>4. /\ GivenTo(r, n.id, ValueSteps) /\ HasType(n.tag, n.type)
        /\ \A v \in AllValues : v.id = n.id => SamePair(v, n)
    BY <1>1, <2>2 DEF Inv, Aiming, SamePair
  <2>5. PICK old \in Values(r) : old.id = n.id
    BY <1>2, <2>2 DEF IdsOf
  <2>6. old \in AllValues /\ SamePair(old, n)
    BY <2>4, <2>5 DEF Values, AllValues
  <2>7. \A v \in tx[r].values : SamePair(v, n) => v.id = n.id
    BY <2>5, <2>6 DEF Inv, PairsApart, SamePair, Values
  <2>8. \A v \in tag_value : SamePair(v, n) => v.id = n.id
    BY <2>5, <2>6 DEF Inv, PairsApart, SamePair, Values
  <2>9. \A q \in Requests \ {r} : \A v \in tx[q].values : ~SamePair(v, n)
    <3>1. ASSUME NEW q \in Requests \ {r}, NEW v \in tx[q].values, SamePair(v, n) PROVE FALSE
      <4>1. SamePair(v, old)
        BY <2>6, <3>1 DEF SamePair
      <4>2. old \in tag_value
        BY <2>5, <4>1 DEF Inv, PairsApart, Values
      <4>3. v.id = n.id
        BY <2>5, <4>1, <4>2 DEF Inv, PairsApart
      <4> QED
        BY <1>1, <2>2, <4>3 DEF ValueLocks, Others, IdsOf
    <3> QED
      BY <3>1
  <2> QED
    BY <1>1, <2>1, <2>2, <2>3, <2>4, <2>6, <2>5, <2>7, <2>8, <2>9, PutValueStep
<1>3. CASE tag_value_id[r] \notin IdsOf(Values(r))
  <2>1. UNCHANGED tx
    BY <1>3 DEF ChangeValue
  <2>2. /\ pc' = [pc EXCEPT ![r] = pc'[r]] /\ pc'[r] \in {"find_tag", "commit"}
        /\ at' = [at EXCEPT ![r] = at'[r]] /\ at'[r] \in Nat \ {0}
        /\ at'[r] \in 1..Len(job[r].props)
        /\ at'[r] = at[r] + 1 \/ (at'[r] = at[r] /\ pc'[r] = "commit")
    BY <1>1, NextPropertyPlace DEF WriteSteps
  <2>3. TypeOK'
    BY <1>1, <2>1, <2>2 DEF Inv, TypeOK, Steps
  <2>4. OthersStay(r) /\ Advances(r)
    BY <1>1, <2>1, <2>2 DEF OthersStay, Advances, Inv, TypeOK, TagSteps, ValueSteps, Final
  <2>5. Aiming(r)' /\ Placed(r)'
    BY <1>1, <2>1, <2>2 DEF Aiming, Placed, Inv, WriteSteps
  <2> QED
    BY <1>1, <2>1, <2>3, <2>4, <2>5, QuietStep
<1> QED
  BY <1>2, <1>3

-----------------------------------------------------------------------------
(* The steps that take rows away, and the commit *)

LEMMA DeleteValueStep ==
  ASSUME Inv, NEW r \in Requests, DeleteValue(r)
  PROVE  Inv'
<1>1. /\ pc[r] = "delete_value" /\ NextProperty(r, "find_row")
      /\ tx' = [tx EXCEPT ![r]["gone_values"] =
                  tx[r].gone_values \cup (IdsOf(Values(r)) \cap {tag_value_id[r]})]
      /\ UNCHANGED <<job, tag_id, tag_value_id, item, tag_definition, tag_value>>
  BY DEF DeleteValue, Change, locals, tables
<1>2. /\ pc' = [pc EXCEPT ![r] = pc'[r]] /\ pc'[r] \in {"find_row", "commit"}
      /\ at' = [at EXCEPT ![r] = at'[r]] /\ at'[r] \in Nat \ {0}
      /\ at'[r] \in 1..Len(job[r].props)
      /\ at'[r] = at[r] + 1 \/ (at'[r] = at[r] /\ pc'[r] = "commit")
  BY <1>1, NextPropertyPlace DEF WriteSteps
<1>3. /\ tx'[r] = [tx[r] EXCEPT !["gone_values"] =
                     tx[r].gone_values \cup (IdsOf(Values(r)) \cap {tag_value_id[r]})]
      /\ tx' = [tx EXCEPT ![r] = tx'[r]]
  BY <1>1 DEF Inv, TypeOK
<1>4. /\ tx'[r].tags = tx[r].tags /\ tx'[r].values = tx[r].values
      /\ tx'[r].gone_tags = tx[r].gone_tags /\ tx'[r] \in Transactions
  <2>1. tx[r] \in Transactions /\ IdsOf(Values(r)) \cap {tag_value_id[r]} \subseteq Ids
    BY RowFacts DEF Inv, TypeOK
  <2> QED
    BY <1>3, <2>1 DEF Transactions
<1>5. TypeOK'
  <2>1. tx' \in [Requests -> Transactions]
    BY <1>3, <1>4 DEF Inv, TypeOK
  <2>2. pc' \in [Requests -> {"idle"} \cup Steps \cup Final] /\ at' \in [Requests -> Nat \ {0}]
    BY <1>2 DEF Inv, TypeOK, Steps
  <2> QED
    BY <1>1, <2>1, <2>2 DEF Inv, TypeOK
<1>6. OthersStay(r) /\ Advances(r)
  BY <1>1, <1>2, <1>3 DEF OthersStay, Advances, Inv, TypeOK, TagSteps, ValueSteps, Final
<1>7. Aiming(r)' /\ Placed(r)'
  BY <1>1, <1>2, <1>4 DEF Aiming, Placed, Inv, WriteSteps
<1> QED
  BY <1>1, <1>4, <1>5, <1>6, <1>7, QuietStep

LEMMA DeleteDefinitionStep ==
  ASSUME Inv, NEW r \in Requests, DeleteDefinition(r)
  PROVE  Inv'
<1> DEFINE gone == IdsOf(tag_definition) \cap {Property(r).tag}
<1>1. /\ pc[r] = "delete_tag" /\ pc' = [pc EXCEPT ![r] = "commit"]
      /\ tx' = [tx EXCEPT ![r]["gone_tags"] = gone]
      /\ UNCHANGED <<at, job, tag_id, tag_value_id, item, tag_definition, tag_value>>
  BY DEF DeleteDefinition, Change, Goto, locals, tables
<1>2. /\ pc'[r] = "commit"
      /\ tx'[r] = [tx[r] EXCEPT !["gone_tags"] = gone]
      /\ tx' = [tx EXCEPT ![r] = tx'[r]]
  BY <1>1 DEF Inv, TypeOK
<1>3. /\ tx'[r].tags = tx[r].tags /\ tx'[r].values = tx[r].values
      /\ tx'[r].gone_values = tx[r].gone_values /\ tx'[r] \in Transactions
  <2>1. tx[r] \in Transactions
    BY RowFacts DEF Inv
  <2>2. gone \subseteq Ids
    BY IdFacts DEF IdsOf, Inv, TypeOK
  <2> HIDE DEF gone
  <2> QED
    BY <1>2, <2>1, <2>2 DEF Transactions
<1>4. TypeOK'
  BY <1>1, <1>2, <1>3 DEF Inv, TypeOK, Steps
<1>5. OthersStay(r) /\ Advances(r)
  BY <1>1, <1>2 DEF OthersStay, Advances, Inv, TypeOK, TagSteps, ValueSteps, Final
<1>6. Aiming(r)' /\ Placed(r)'
  BY <1>1, <1>2, <1>3 DEF Aiming, Placed, Inv, WriteSteps
<1> QED
  BY <1>1, <1>3, <1>4, <1>5, <1>6, QuietStep

(* What was apart from the committed rows joins them. *)
LEMMA CommitStep ==
  ASSUME Inv, NEW r \in Requests, Commit(r)
  PROVE  Inv'
<1>1. /\ pc[r] = "commit" /\ tx' = [tx EXCEPT ![r] = NoChange]
      /\ item' = item \cup tx[r].items /\ tag_definition' = Tags(r) /\ tag_value' = Values(r)
      /\ UNCHANGED <<at, job, tag_id, tag_value_id>>
      /\ pc' = [pc EXCEPT ![r] = pc'[r]] /\ pc'[r] \in Final
  BY DEF Commit, End, Goto, locals, Inv, TypeOK, Final
<1>2. /\ tx'[r].tags = {} /\ tx'[r].values = {} /\ tx'[r].gone_tags = {} /\ tx'[r].gone_values = {}
      /\ tx'[r] \in Transactions /\ \A q \in Requests \ {r} : tx'[q] = tx[q]
  BY <1>1, NoChangeTyped DEF Inv, TypeOK, NoChange
<1>3. /\ tag_definition' \subseteq tag_definition \cup tx[r].tags
      /\ tag_value' \subseteq tag_value \cup tx[r].values
      /\ \A v \in tag_value' : v \in tx[r].values \/ (v \in tag_value /\ v.id \notin IdsOf(tx[r].values))
  BY <1>1 DEF Tags, Values
<1>4. TypeOK'
  <2>1. tx' \in [Requests -> Transactions]
    BY <1>1, NoChangeTyped DEF Inv, TypeOK
  <2>2. item' \subseteq AllItems /\ tag_definition' \subseteq TagRows /\ tag_value' \subseteq ValueRows
    BY <1>1, <1>3, RowFacts DEF Inv, TypeOK
  <2>3. pc' \in [Requests -> {"idle"} \cup Steps \cup Final]
    BY <1>1 DEF Inv, TypeOK
  <2> QED
    BY <1>1, <2>1, <2>2, <2>3 DEF Inv, TypeOK
<1>5. OthersStay(r) /\ Advances(r)
  BY <1>1 DEF OthersStay, Advances, Inv, TypeOK, TagSteps, ValueSteps, Final
<1>6. AllTags' \subseteq AllTags /\ AllValues' \subseteq AllValues
  BY <1>2, <1>3 DEF AllTags, AllValues
<1>7. /\ IdsApart'
      /\ \A q \in Requests : KnownRows(q)'
      /\ \A q \in Requests \ {r} : Aiming(q)'
  BY <1>2, <1>5, <1>6, FewerRows
<1>8. NamesApart'
  <2>1. \A s, t \in tag_definition' : s.name = t.name => s = t
    BY <1>3 DEF Inv, NamesApart
  <2>2. ASSUME NEW q \in Requests, NEW s \in tx'[q].tags
        PROVE  /\ \A t \in tx'[q].tags : s.name = t.name => s = t
               /\ \A t \in tag_definition' : s.name # t.name
               /\ \A p \in Requests \ {q} : \A t \in tx'[p].tags : s.name # t.name
    <3>1. q # r /\ s \in tx[q].tags
      BY <1>2, <2>2
    <3> QED
      BY <1>2, <1>3, <3>1 DEF Inv, NamesApart
  <2> QED
    BY <2>1, <2>2 DEF NamesApart
<1>9. PairsApart'
  <2>1. ASSUME NEW v \in tag_value', NEW w \in tag_value', SamePair(v, w) PROVE v = w
    <3>1. CASE v \in tx[r].values /\ w \in tx[r].values
      BY <2>1, <3>1 DEF Inv, PairsApart
    <3>2. CASE v \in tx[r].values /\ w \notin tx[r].values
      BY <1>3, <2>1, <3>2 DEF Inv, PairsApart, IdsOf
    <3>3. CASE v \notin tx[r].values /\ w \in tx[r].values
      BY <1>3, <2>1, <3>3 DEF Inv, PairsApart, IdsOf, SamePair
    <3>4. CASE v \notin tx[r].values /\ w \notin tx[r].values
      BY <1>3, <2>1, <3>4 DEF Inv, PairsApart
    <3> QED
      BY <3>1, <3>2, <3>3, <3>4
  <2>2. ASSUME NEW q \in Requests, NEW v \in tx'[q].values
        PROVE  /\ \A w \in tx'[q].values : SamePair(v, w) => v = w
               /\ \A w \in tag_value' : SamePair(v, w) => v.id = w.id
               /\ \A p \in Requests \ {q} : \A w \in tx'[p].values : ~SamePair(v, w)
    <3>1. q # r /\ v \in tx[q].values
      BY <1>2, <2>2
    <3> QED
      BY <1>2, <1>3, <3>1 DEF Inv, PairsApart
  <2> QED
    BY <2>1, <2>2 DEF PairsApart, SamePair
<1>10. CommittedRows'
  <2>1. \A id \in Ids : GivenTo(r, id, TagSteps) \/ GivenTo(r, id, ValueSteps) \/ Committed(id) => Committed(id)'
    BY <1>1, <1>5 DEF GivenTo, Committed, OthersStay, Inv, TypeOK
  <2>2. /\ tag_definition \subseteq TagRows /\ tag_value \subseteq ValueRows
        /\ tx[r].tags \subseteq TagRows /\ tx[r].values \subseteq ValueRows
    BY RowFacts DEF Inv, TypeOK
  <2>3. \A t \in tag_definition' : Committed(t.id)'
    BY <1>3, <2>1, <2>2, IdFacts DEF Inv, CommittedRows, KnownRows
  <2>4. \A v \in tag_value' : Committed(v.id)' /\ Committed(v.tag)'
    BY <1>3, <2>1, <2>2, IdFacts DEF Inv, CommittedRows, KnownRows
  <2> QED
    BY <2>3, <2>4 DEF CommittedRows
<1>11. Aiming(r)' /\ Placed(r)'
  BY <1>1, <1>2 DEF Aiming, Placed, Inv, WriteSteps, Final
<1>12. \A q \in Requests \ {r} : Placed(q)'
  BY <1>5, OthersPlaced
<1> QED
  BY <1>4, <1>7, <1>8, <1>9, <1>10, <1>11, <1>12 DEF Inv

-----------------------------------------------------------------------------
(* The theorems *)

LEMMA InvInit == ReaderInit => Inv
<1> SUFFICES ASSUME Init PROVE Inv
  BY DEF ReaderInit
<1>1. FirstId \in Ids /\ FirstId[1] = Earlier
  BY DEF FirstId, Ids
<1>2. \A r \in Requests : pc[r] = "idle" /\ at[r] = 1 /\ tx[r] = NoChange
  BY DEF Init
<1>3. /\ tag_definition \subseteq TagRows /\ tag_value \subseteq ValueRows
      /\ \A t \in tag_definition : t.id = FirstId
      /\ \A v \in tag_value : v.id = FirstId /\ v.tag = FirstId
      /\ \A s, t \in tag_definition : s = t
      /\ \A v, w \in tag_value : v = w
  BY <1>1 DEF Init, TagRows, ValueRows, AllItems
<1>4. TypeOK
  <2>1. \A r \in Requests : job[r] \in Jobs[r]
    BY DEF Init
  <2>2. FirstId \in Ids /\ tx \in [Requests -> Transactions]
    BY <1>1, NoChangeTyped DEF Init
  <2> QED
    BY <1>3, <2>1, <2>2 DEF Init, TypeOK, AllItems
<1>5. \A r \in Requests :
        /\ tx[r].tags = {} /\ tx[r].values = {}
        /\ tx[r].gone_tags = {} /\ tx[r].gone_values = {}
  BY <1>2 DEF NoChange
<1>6. AllTags = tag_definition /\ AllValues = tag_value
  BY <1>5 DEF AllTags, AllValues
<1>7. NamesApart /\ PairsApart /\ IdsApart
  BY <1>3, <1>5, <1>6 DEF NamesApart, PairsApart, IdsApart, SamePair
<1>8. CommittedRows
  BY <1>1, <1>3, EarlierAssumption DEF CommittedRows, Committed
<1>9. ASSUME NEW r \in Requests PROVE KnownRows(r) /\ Aiming(r) /\ Placed(r)
  <2>1. job[r].op \in Writes => 1 \in 1..Len(job[r].props)
    BY <1>4, JobFacts
  <2> QED
    BY <1>2, <1>5, <2>1 DEF KnownRows, Aiming, Placed, WriteSteps
<1> QED
  BY <1>4, <1>7, <1>8, <1>9 DEF Inv

LEMMA InvStep == Inv /\ [Next]_allvars => Inv'
<1> SUFFICES ASSUME Inv, [Next]_allvars PROVE Inv'
  OBVIOUS
<1>1. CASE UNCHANGED allvars
  <2>1. UNCHANGED vars
    BY <1>1 DEF allvars
  <2> USE <2>1 DEF vars
  <2>2. TypeOK'
    BY DEF Inv, TypeOK
  <2>3. AllTags' = AllTags /\ AllValues' = AllValues
    BY DEF AllTags, AllValues
  <2>4. NamesApart' /\ PairsApart' /\ IdsApart'
    BY <2>3 DEF Inv, NamesApart, PairsApart, IdsApart, SamePair
  <2>5. CommittedRows'
    BY DEF Inv, CommittedRows, Committed
  <2>6. ASSUME NEW r \in Requests PROVE KnownRows(r)' /\ Placed(r)'
    <3>1. KnownRows(r) /\ Placed(r)
      BY DEF Inv
    <3>2. KnownRows(r)'
      BY <2>3, <3>1 DEF KnownRows, GivenTo, Committed, HasType
    <3>3. Placed(r)'
      BY <3>1 DEF Placed, Property
    <3> QED
      BY <3>2, <3>3
  <2>7. ASSUME NEW r \in Requests PROVE Aiming(r)'
    BY <2>3 DEF Inv, Aiming, GivenTo, Committed, HasType, Item, Property
  <2> QED
    BY <2>2, <2>4, <2>5, <2>6, <2>7 DEF Inv
<1>2. ASSUME NEW r \in Requests, Start(r) PROVE Inv'
  <2>1. CASE AddItem(r)
    BY <2>1, BeginStep DEF AddItem
  <2>2. CASE UpdateItemTag(r)
    BY <2>2, BeginStep DEF UpdateItemTag
  <2>3. CASE DeleteItemTag(r)
    BY <2>3, BeginStep DEF DeleteItemTag
  <2>4. CASE AddTag(r)
    BY <2>4, BeginStep DEF AddTag
  <2>5. CASE DeleteTag(r)
    BY <2>5, BeginStep DEF DeleteTag
  <2> QED
    BY <1>2, <2>1, <2>2, <2>3, <2>4, <2>5 DEF Start
<1>3. ASSUME NEW r \in Requests, Step(r) PROVE Inv'
  BY <1>3, CreateItemStep, CheckTagIdStep, SearchTagStep, DefineTagStep, FindValueStep, InsertValueStep,
     ChangeValueStep, FindRowStep, DeleteValueStep, CheckUsageStep, DeleteDefinitionStep, CommitStep
     DEF Step
<1>4. ASSUME NEW r \in Requests, Abort(r) PROVE Inv'
  BY <1>4, FailStep DEF Abort
<1>5. ASSUME BreakDeadlock PROVE Inv'
  <2>1. PICK r \in Requests : Blockers(r) # {} /\ Fail(r)
    BY <1>5 DEF BreakDeadlock, Deadlocked
  <2>2. pc[r] \in Steps
    BY <2>1 DEF Blockers, Steps
  <2> QED
    BY <2>1, <2>2, FailStep
<1>6. ASSUME NEW r \in Requests, get_item(r) \/ get_all_item(r) \/ get_all_tag(r) PROVE Inv'
  BY <1>6, BeginStep DEF get_item, get_all_item, get_all_tag
<1> QED
  BY <1>1, <1>2, <1>3, <1>4, <1>5, <1>6, ReadStep DEF Next, Write

(* The inductive invariant holds in every execution. *)
THEOREM InvHolds == Spec => []Inv
  BY InvInit, InvStep, PTL DEF Spec

(* The variables of the requests that write, and the tables, keep their types. *)
THEOREM TypeCorrect == Spec => []TypeOK
<1>1. Inv => TypeOK
  BY DEF Inv
<1> QED
  BY <1>1, InvHolds, PTL

(***************************************************************************)
(* A name has one definition and an item one value for a tag, for any      *)
(* number of requests that look them up first and insert them later        *)
(* (define_tag_if_needed, update_tags_on_item).                            *)
(***************************************************************************)
THEOREM NamesAndPairsAreUnique == Spec => []OneOfEach
<1>1. Inv => OneOfEach
  BY DEF Inv, NamesApart, PairsApart, SamePair, OneOfEach
<1> QED
  BY <1>1, InvHolds, PTL

(***************************************************************************)
(* A value that has the type of its tag keeps it: a row is only updated    *)
(* by a request that found it under the tag and compared the types, and    *)
(* the tag cannot be another one at the commit (is_tags_on_item).          *)
(***************************************************************************)
THEOREM TypesAreKept == Spec => TypedForGood
<1> DEFINE Kept == \A v \in tag_value, w \in tag_value' : v.id = w.id /\ Typed(v) => Typed(w)'
<1>1. ASSUME Inv, NEW r \in Requests, Commit(r) PROVE Kept
  <2> SUFFICES ASSUME NEW v \in tag_value, NEW w \in tag_value', v.id = w.id, Typed(v),
                      NEW t \in tag_definition', t.id = w.tag
               PROVE  t.type = w.type
    BY DEF Typed
  <2>1. pc[r] = "commit" /\ r \in Requests /\ t \in Tags(r) /\ w \in Values(r)
    BY <1>1 DEF Commit
  <2>2. t \in AllTags /\ v \in AllValues /\ w \in AllValues
    BY <2>1 DEF Tags, Values, AllTags, AllValues
  <2>3. v.id[1] # r /\ v.tag[1] # r
    BY <1>1, <2>1 DEF Inv, CommittedRows, Committed, Final
  <2>4. CASE w \in tx[r].values
    BY <1>1, <2>2, <2>3, <2>4 DEF Inv, KnownRows, HasType
  <2>5. CASE w \notin tx[r].values
    <3>1. w \in tag_value
      BY <2>1, <2>5 DEF Values
    <3>2. v = w
      BY <1>1, <2>2, <3>1 DEF Inv, IdsApart, PairsApart
    <3>3. t \in tag_definition
      BY <1>1, <2>1, <2>3, <3>2 DEF Tags, Inv, KnownRows
    <3> QED
      BY <3>2, <3>3 DEF Typed
  <2> QED
    BY <2>4, <2>5
<1>2. ASSUME Inv, UNCHANGED <<tag_definition, tag_value>> PROVE Kept
  <2>1. \A v, w \in tag_value : v.id = w.id => v = w
    BY <1>2 DEF Inv, IdsApart, PairsApart, AllValues
  <2> QED
    BY <1>2, <2>1 DEF Typed
<1>3. Inv /\ [Next]_allvars => [Kept]_vars
  <2> SUFFICES ASSUME Inv, Next PROVE Kept
    BY DEF allvars
  <2>1. ASSUME NEW r \in Requests, Step(r) PROVE Kept
    <3>1. CASE Commit(r)
      BY <1>1, <3>1
    <3>2. CASE ~Commit(r)
      <4>1. UNCHANGED <<tag_definition, tag_value>>
        BY <2>1, <3>2 DEF Step, CreateItem, CheckTagId, SearchTag, DefineTag, FindValue, InsertValue,
                          ChangeValue, FindRow, DeleteValue, CheckUsage, DeleteDefinition, Fail, tables
      <4> QED
        BY <4>1, <1>2
    <3> QED
      BY <3>1, <3>2
  <2>2. ASSUME NEW r \in Requests, Start(r) \/ Abort(r) \/ Fail(r) PROVE Kept
    <3>1. UNCHANGED <<tag_definition, tag_value>>
      BY <2>2 DEF Start, AddItem, UpdateItemTag, DeleteItemTag, AddTag, DeleteTag, Begin, Abort, Fail, tables
    <3> QED
      BY <3>1, <1>2
  <2>3. ASSUME NEW r \in Requests, get_item(r) \/ get_all_item(r) \/ get_all_tag(r) \/ Read(r) PROVE Kept
    <3>1. UNCHANGED <<tag_definition, tag_value>>
      BY <2>3 DEF get_item, get_all_item, get_all_tag, Begin, Read, FindItems, FindProperties, FindTags, Fail, tables
    <3> QED
      BY <3>1, <1>2
  <2>4. BreakDeadlock => \E r \in Requests : Fail(r)
    BY DEF BreakDeadlock, Deadlocked
  <2> QED
    BY <2>1, <2>2, <2>3, <2>4 DEF Next, Write
<1> QED
  BY <1>3, InvHolds, PTL DEF Spec, TypedForGood

-----------------------------------------------------------------------------
(***************************************************************************)
(* What is stored and what is read.  A transaction holds a value for each  *)
(* property it is done with (SoFar), of a tag that goes by the property's  *)
(* id or name (Named) and is there unless it was deleted (Known); so the   *)
(* commit of an item brings all its tags, and what takes one away later    *)
(* is a deletion that has ended (Whole).                                   *)
(***************************************************************************)

Named(id, tag) ==
  IF tag \in Ids THEN id = tag ELSE \A t \in AllTags : t.id = id => t.name = tag

TagGone(id) ==
  \E q \in Requests : job[q].op = "delete_tag" /\ pc[q] \in Final /\ Property(q).tag = id

Known(r, id) == TagGone(id) \/ \E t \in tag_definition \cup tx[r].tags : t.id = id

Updates == {"add_item", "update_item_tag"}

(* The steps of each operation *)
Role(r) ==
  /\ pc[r] = "create_item" => job[r].op = "add_item"
  /\ pc[r] \in {"find_tag", "find_value", "insert_value", "change_value"} => job[r].op \in Updates
  /\ pc[r] = "define_tag" => job[r].op \in Updates \cup {"add_tag"}
  /\ pc[r] \in {"find_row", "delete_value"} => job[r].op = "delete_item_tag"
  /\ pc[r] \in {"check_usage", "delete_tag"} => job[r].op = "delete_tag"
  /\ pc[r] \in {"find_items", "find_properties"} => job[r].op \in {"get_item", "get_all_item"}
  /\ pc[r] = "find_tags" => job[r].op = "get_all_tag"

(* The row that delete_item_tag found for property n *)
Takes(r, id, n) ==
  /\ GivenTo(r, id, ValueSteps)
  /\ \A v \in AllValues : v.id = id => v.item = Item(r) /\ Named(v.tag, job[r].props[n].tag)

Own(r) ==
  /\ tx[r].items # {} => tx[r].items = {r} /\ job[r].op = "add_item"
  /\ tx[r].tags # {} => job[r].op \in Updates \cup {"add_tag"}
  /\ tx[r].values # {} => job[r].op \in Updates
  /\ tx[r].gone_tags # {} => job[r].op = "delete_tag" /\ tx[r].gone_tags = {Property(r).tag}
  /\ \A id \in tx[r].gone_values :
       job[r].op = "delete_item_tag" /\ \E n \in DOMAIN job[r].props : Takes(r, id, n)
  /\ \A v \in tx[r].values :
       /\ v.by[1] = r /\ v.by[2] \in DOMAIN job[r].props /\ v.item = Item(r)
       /\ Named(v.tag, job[r].props[v.by[2]].tag) /\ Known(r, v.tag)

(* What a request works on is the tag, and the value, of its property. *)
Aimed(r) ==
  /\ pc[r] \in {"find_value", "insert_value", "change_value"} =>
       Named(tag_id[r], Property(r).tag) /\ Known(r, tag_id[r])
  /\ pc[r] \in {"find_value", "insert_value"} /\ Property(r).tag \in Ids =>
       HasType(tag_id[r], Property(r).type)
  /\ pc[r] = "change_value" =>
       /\ tag_value_id[r] \in IdsOf(Values(r)) \/ ValueIsDeleted(Item(r), Property(r).tag)
       /\ \A v \in tx[r].values :
            v.id = tag_value_id[r] /\ NamedOneWay(r) => job[r].props[v.by[2]].tag = Property(r).tag
  /\ pc[r] = "delete_value" => Takes(r, tag_value_id[r], at[r])

(* The value of property n, or of a later one that took its place *)
Holds(r, n) ==
  \E v \in tx[r].values :
    /\ Named(v.tag, job[r].props[n].tag)
    /\ NamedOneWay(r) => v.by[2] >= n /\ job[r].props[v.by[2]].tag = job[r].props[n].tag

SoFar(r) ==
  job[r].op \in Updates /\ pc[r] \in Steps =>
    \A n \in DOMAIN job[r].props :
      n < at[r] \/ pc[r] = "commit" => Holds(r, n) \/ ValueIsDeleted(Item(r), job[r].props[n].tag)

(* An item that is there has its tags. *)
Whole(i) ==
  /\ job[i].op = "add_item" /\ pc[i] \in Final
  /\ \A n \in DOMAIN job[i].props :
       \/ ValueIsDeleted(i, job[i].props[n].tag)
       \/ \E v \in tag_value : v.item = i /\ Named(v.tag, job[i].props[n].tag)

Tables ==
  /\ \A i \in item \cap Requests : Whole(i)
  /\ \A v \in tag_value : TagGone(v.tag) \/ \E t \in tag_definition : t.id = v.tag
  /\ \A v \in AllValues : HasType(v.tag, v.type) \/ GivenByName(v.id)

WInv == Tables /\ \A r \in Requests : Role(r) /\ Own(r) /\ Aimed(r) /\ SoFar(r)

(* What the readers have read, and still have to *)
Replies ==
  [of : AllItems \cup Names,
   properties : SUBSET [tag_value_id : Ids, tag_id : Ids, tag_name : Names, value : SUBSET Ids]]

Told(r) ==
  /\ todo[r] \in Seq(AllItems) /\ \A n \in DOMAIN todo[r] : todo[r][n] \in item
  /\ pc[r] = "find_properties" => todo[r] # <<>>
  /\ reply[r] \in Seq(Replies)
  /\ job[r].op # "get_all_tag" =>
       \A k \in DOMAIN reply[r] :
         /\ \A i, shown : i = reply[r][k].of /\ shown = reply[r][k].properties /\ i \in Requests =>
              ShowsTheTagsOf(shown, i)
         /\ \A p \in reply[r][k].properties : p.value = {} => GivenByName(p.tag_value_id)

RInv ==
  /\ todo = [r \in Requests |-> todo[r]] /\ reply = [r \in Requests |-> reply[r]]
  /\ \A r \in Requests : Told(r)
-----------------------------------------------------------------------------
(* What no step of one request takes back *)

NewTagsAreNew ==
  \A t \in AllTags' : t \in AllTags \/ (~Committed(t.id) /\ \A q \in Requests : ~GivenTo(q, t.id, TagSteps))

NewValuesFit ==
  \A v \in AllValues' :
    \/ \E w \in AllValues : w.id = v.id /\ SamePair(v, w)
    \/ \A q \in Requests : ~GivenTo(q, v.id, ValueSteps)

Shape(r) == OthersStay(r) /\ Advances(r) /\ NewTagsAreNew /\ NewValuesFit

Given(id) == Committed(id) \/ \E q \in Requests : GivenTo(q, id, TagSteps)

LEMMA TagsAreGiven ==
  ASSUME Inv
  PROVE  /\ \A v \in AllValues : Given(v.tag)
         /\ \A q \in Requests : pc[q] \in {"find_value", "insert_value", "change_value"} => Given(tag_id[q])
<1>1. \A v \in AllValues : Given(v.tag)
  BY DEF AllValues, Given, Inv, CommittedRows, KnownRows
<1>2. \A q \in Requests : pc[q] \in {"find_value", "insert_value", "change_value"} => Given(tag_id[q])
  BY DEF Given, Inv, Aiming
<1> QED
  BY <1>1, <1>2

LEMMA DeletedStays ==
  ASSUME NEW r \in Requests, OthersStay(r), pc[r] \notin Final, NEW i, NEW tag
  PROVE  /\ TagGone(tag) => TagGone(tag)'
         /\ TagIsDeleted(tag) => TagIsDeleted(tag)'
         /\ ValueIsDeleted(i, tag) => ValueIsDeleted(i, tag)'
<1>1. \A q \in Requests : pc[q] \in Final => pc'[q] \in Final /\ Property(q)' = Property(q)
  BY DEF OthersStay, Property
<1>2. job' = job
  BY DEF OthersStay
<1>3. TagGone(tag) => TagGone(tag)'
  BY <1>1, <1>2 DEF TagGone
<1>4. TagIsDeleted(tag) => TagIsDeleted(tag)'
  BY <1>1, <1>2 DEF TagIsDeleted
<1> QED
  BY <1>1, <1>2, <1>3, <1>4 DEF ValueIsDeleted

LEMMA TagStays ==
  ASSUME NewTagsAreNew, NEW id, Given(id)
  PROVE  /\ \A tag : Named(id, tag) => Named(id, tag)'
         /\ \A type : HasType(id, type) => HasType(id, type)'
<1>1. \A t \in AllTags' : t.id = id => t \in AllTags
  BY DEF NewTagsAreNew, Given
<1> QED
  BY <1>1 DEF Named, HasType

LEMMA TakesStays ==
  ASSUME Inv, NEW r \in Requests, Shape(r), NEW q \in Requests, NEW id \in Ids, NEW n,
         Takes(q, id, n)
  PROVE  Takes(q, id, n)'
<1>1. GivenTo(q, id, ValueSteps)'
  BY GivenStays DEF Inv, Takes, Shape
<1>2. job' = job /\ Item(q)' = Item(q)
  BY DEF Shape, OthersStay, Item
<1>3. ASSUME NEW v \in AllValues', v.id = id
      PROVE  v.item = Item(q) /\ Named(v.tag, job[q].props[n].tag)'
  <2>1. PICK w \in AllValues : w.id = id /\ w.tag = v.tag /\ w.item = v.item
    BY <1>3 DEF Shape, NewValuesFit, SamePair, Takes
  <2>2. w.item = Item(q) /\ Named(w.tag, job[q].props[n].tag)
    BY <2>1 DEF Takes
  <2>3. Given(w.tag)
    BY TagsAreGiven
  <2>4. \A tag : Named(w.tag, tag) => Named(w.tag, tag)'
    BY <2>3, TagStays DEF Shape
  <2> QED
    BY <1>2, <2>1, <2>2, <2>4 DEF Named
<1> QED
  BY <1>1, <1>2, <1>3 DEF Takes

-----------------------------------------------------------------------------
(* The steps that change no table *)

LEMMA OwnStays ==
  ASSUME Inv, WInv, NEW r \in Requests, Shape(r), TypeOK', NEW q \in Requests,
         UNCHANGED tables \/ \A id : Known(q, id) => Known(q, id)',
         tx'[q].items = tx[q].items, tx[q].tags \subseteq tx'[q].tags, tx'[q].gone_tags = tx[q].gone_tags,
         tx[q].gone_tags # {} => at'[q] = at[q],
         tx'[q].tags # {} => job[q].op \in Updates \cup {"add_tag"},
         tx'[q].values \subseteq tx[q].values, tx'[q].gone_values \subseteq tx[q].gone_values
  PROVE  Own(q)'
<1>1. job' = job /\ Item(q)' = Item(q) /\ Own(q)
  BY DEF Shape, OthersStay, Item, WInv
<1>2. tx[q].gone_tags # {} => Property(q)' = Property(q)
  BY <1>1 DEF Property
<1>3. \A id \in tx'[q].gone_values :
        job[q].op = "delete_item_tag" /\ \E n \in DOMAIN job[q].props : Takes(q, id, n)'
  BY <1>1, RowFacts, TakesStays DEF Own, Inv
<1>4. ASSUME NEW v \in tx'[q].values
      PROVE  /\ v.by[1] = q /\ v.by[2] \in DOMAIN job[q].props /\ v.item = Item(q)
             /\ Named(v.tag, job[q].props[v.by[2]].tag)' /\ Known(q, v.tag)'
  <2>1. v \in tx[q].values /\ v \in AllValues
    BY DEF AllValues
  <2>2. /\ v.by[1] = q /\ v.by[2] \in DOMAIN job[q].props /\ v.item = Item(q)
        /\ Named(v.tag, job[q].props[v.by[2]].tag) /\ Known(q, v.tag)
    BY <1>1, <2>1 DEF Own
  <2>3. \A tag : Named(v.tag, tag) => Named(v.tag, tag)'
    BY <2>1, TagsAreGiven, TagStays DEF Shape
  <2>4. TagGone(v.tag) => TagGone(v.tag)'
    BY DeletedStays DEF Advances, Shape
  <2>5. Known(q, v.tag)'
    BY <2>2, <2>4 DEF Known, tables
  <2> QED
    BY <1>1, <2>2, <2>3, <2>5 DEF Named
<1> QED
  BY <1>1, <1>2, <1>3, <1>4 DEF Own

LEMMA HoldsStays ==
  ASSUME Inv, NEW r \in Requests, Shape(r), NEW q \in Requests, NEW n, Holds(q, n),
         tx[q].values \subseteq tx'[q].values
  PROVE  Holds(q, n)'
<1>1. job' = job /\ NamedOneWay(q)' = NamedOneWay(q)
  BY DEF Shape, OthersStay, NamedOneWay
<1>2. PICK v \in tx[q].values :
        /\ Named(v.tag, job[q].props[n].tag)
        /\ NamedOneWay(q) => v.by[2] >= n /\ job[q].props[v.by[2]].tag = job[q].props[n].tag
  BY DEF Holds
<1>3. \A tag : Named(v.tag, tag) => Named(v.tag, tag)'
  BY TagsAreGiven, TagStays DEF Shape, AllValues
<1>4. Named(v.tag, job[q].props[n].tag)'
  BY <1>1, <1>2, <1>3 DEF Named
<1> QED
  BY <1>1, <1>2, <1>4 DEF Holds

LEMMA SoFarStays ==
  ASSUME Inv, WInv, NEW r \in Requests, Shape(r), NEW q \in Requests,
         job[q].op \in Updates /\ pc'[q] \in Steps =>
           /\ pc[q] \in Steps
           /\ at'[q] = at[q] /\ (pc'[q] = "commit" => pc[q] = "commit")
           /\ tx[q].values \subseteq tx'[q].values
  PROVE  SoFar(q)'
<1>1. job' = job /\ Item(q)' = Item(q)
  BY DEF Shape, OthersStay, Item
<1>2. ASSUME job[q].op \in Updates, pc'[q] \in Steps, NEW n \in DOMAIN job[q].props,
             n < at'[q] \/ pc'[q] = "commit", NEW i, NEW tag, i = Item(q), tag = job[q].props[n].tag
      PROVE  Holds(q, n)' \/ ValueIsDeleted(i, tag)'
  <2>1. Holds(q, n) \/ ValueIsDeleted(i, tag)
    BY <1>2 DEF WInv, SoFar
  <2>2. ValueIsDeleted(i, tag) => ValueIsDeleted(i, tag)'
    BY DeletedStays DEF Advances, Shape
  <2>3. Holds(q, n) => Holds(q, n)'
    BY <1>2, HoldsStays
  <2> QED
    BY <2>1, <2>2, <2>3
<1> QED
  BY <1>1, <1>2 DEF SoFar, ValueIsDeleted, TagIsDeleted, Property

LEMMA AimedStays ==
  ASSUME Inv, WInv, NEW r \in Requests, Shape(r), NEW q \in Requests \ {r},
         \/ UNCHANGED tables
         \/ /\ \A id : Known(q, id) => Known(q, id)'
            /\ pc[q] = "change_value" /\ tag_value_id[q] \in IdsOf(Values(q)) =>
                 tag_value_id[q] \in IdsOf(Values(q))' \/ ValueIsDeleted(Item(q), Property(q).tag)'
  PROVE  Aimed(q)'
<1>1. /\ job' = job /\ Item(q)' = Item(q) /\ Property(q)' = Property(q) /\ NamedOneWay(q)' = NamedOneWay(q)
      /\ pc'[q] = pc[q] /\ tag_id'[q] = tag_id[q] /\ tag_value_id'[q] = tag_value_id[q] /\ tx'[q] = tx[q]
      /\ at'[q] = at[q]
  BY DEF Shape, OthersStay, Item, Property, NamedOneWay
<1>2. Aimed(q)
  BY DEF WInv
<1>3. pc[q] = "change_value" /\ tag_value_id[q] \in IdsOf(Values(q)) =>
        tag_value_id[q] \in IdsOf(Values(q))' \/ ValueIsDeleted(Item(q), Property(q).tag)'
  <2>1. UNCHANGED tables => Values(q)' = Values(q)
    BY <1>1 DEF Values, tables
  <2> QED
    BY <1>1, <2>1 DEF IdsOf
<1>4. \A tag : TagGone(tag) => TagGone(tag)'
  BY DeletedStays DEF Advances, Shape
<1>5. \A i, tag : ValueIsDeleted(i, tag) => ValueIsDeleted(i, tag)'
  BY DeletedStays DEF Advances, Shape
<1>6. ASSUME pc[q] \in {"find_value", "insert_value", "change_value"}, NEW id, id = tag_id[q]
      PROVE  /\ \A tag : Named(id, tag) => Named(id, tag)'
             /\ \A type : HasType(id, type) => HasType(id, type)'
             /\ Known(q, id) => Known(q, id)'
  <2>1. Given(id)
    BY <1>6, TagsAreGiven
  <2>2. Known(q, id) => Known(q, id)'
    BY <1>1, <1>4 DEF Known, tables
  <2> QED
    BY <2>1, <2>2, TagStays DEF Shape
<1>7. pc[q] = "delete_value" => Takes(q, tag_value_id[q], at[q])'
  <2>1. tag_value_id[q] \in Ids
    BY DEF Inv, TypeOK
  <2>2. ASSUME NEW id \in Ids, NEW n, id = tag_value_id[q], n = at[q], pc[q] = "delete_value" PROVE Takes(q, id, n)'
    BY <1>2, <2>2, TakesStays DEF Aimed
  <2> QED
    BY <1>1, <2>1, <2>2 DEF Takes
<1>8. ASSUME NEW id, NEW tag, NEW type, NEW i, NEW value,
             id = tag_id[q], tag = Property(q).tag, type = Property(q).type, i = Item(q), value = tag_value_id[q]
      PROVE  /\ pc[q] \in {"find_value", "insert_value", "change_value"} => Named(id, tag)' /\ Known(q, id)'
             /\ pc[q] \in {"find_value", "insert_value"} /\ tag \in Ids => HasType(id, type)'
             /\ pc[q] = "change_value" => value \in IdsOf(Values(q)) \/ ValueIsDeleted(i, tag)'
  BY <1>2, <1>5, <1>6, <1>8 DEF Aimed
<1>9. pc[q] = "change_value" =>
        tag_value_id[q] \in IdsOf(Values(q))' \/ ValueIsDeleted(Item(q), Property(q).tag)'
  <2>1. PICK i, tag : i = Item(q) /\ tag = Property(q).tag
    OBVIOUS
  <2>2. ValueIsDeleted(i, tag)' => ValueIsDeleted(Item(q), Property(q).tag)'
    BY <1>1, <2>1 DEF ValueIsDeleted, TagIsDeleted
  <2> QED
    BY <1>2, <1>3, <1>5, <2>1, <2>2 DEF Aimed
<1>10. pc[q] \in {"find_value", "insert_value", "change_value"} =>
         Named(tag_id[q], Property(q).tag)' /\ Known(q, tag_id[q])'
  <2>1. \A id, tag : id = tag_id[q] /\ tag = Property(q).tag /\ Named(id, tag)' =>
          Named(tag_id[q], Property(q).tag)'
    BY <1>1 DEF Named
  <2>2. \A id : id = tag_id[q] /\ Known(q, id)' => Known(q, tag_id[q])'
    BY <1>1 DEF Known, TagGone
  <2> QED
    BY <1>8, <2>1, <2>2
<1>11. pc[q] \in {"find_value", "insert_value"} /\ Property(q).tag \in Ids => HasType(tag_id[q], Property(q).type)'
  <2>1. \A id, type : id = tag_id[q] /\ type = Property(q).type /\ HasType(id, type)' =>
          HasType(tag_id[q], Property(q).type)'
    BY <1>1 DEF HasType
  <2> QED
    BY <1>8, <2>1
<1>12. \A v \in tx[q].values :
         v.id = tag_value_id[q] /\ NamedOneWay(q) /\ pc[q] = "change_value" =>
           job[q].props[v.by[2]].tag = Property(q).tag
  BY <1>2 DEF Aimed
<1> QED
  BY <1>1, <1>7, <1>9, <1>10, <1>11, <1>12 DEF Aimed

LEMMA OthersStayWhole ==
  ASSUME Inv, WInv, NEW r \in Requests, Shape(r), TypeOK', UNCHANGED tables,
         \A v \in AllValues' : v \in AllValues \/ HasType(v.tag, v.type)' \/ GivenByName(v.id),
         Role(r)', Own(r)', Aimed(r)', SoFar(r)'
  PROVE  WInv'
<1>1. job' = job
  BY DEF Shape, OthersStay
<1>2. ASSUME NEW q \in Requests \ {r} PROVE Role(q)' /\ Own(q)' /\ Aimed(q)' /\ SoFar(q)'
  <2>1. pc'[q] = pc[q] /\ at'[q] = at[q] /\ tx'[q] = tx[q]
    BY DEF Shape, OthersStay
  <2>2. Role(q)' /\ Role(q)
    BY <1>1, <2>1 DEF Role, WInv
  <2>3. Own(q)'
    <3>1. tx[q].tags # {} => job[q].op \in Updates \cup {"add_tag"}
      BY DEF Own, WInv
    <3> QED
      BY <2>1, <3>1, OwnStays
  <2>4. SoFar(q)'
    BY <2>1, SoFarStays
  <2> QED
    BY <2>2, <2>3, <2>4, AimedStays
<1>3. Tables'
  <2>1. ASSUME NEW i \in item \cap Requests PROVE Whole(i)'
    <3>1. Whole(i) /\ pc'[i] \in Final
      BY DEF WInv, Tables, Whole, Shape, OthersStay, Advances
    <3>2. ASSUME NEW n \in DOMAIN job[i].props, NEW tag, tag = job[i].props[n].tag
          PROVE  ValueIsDeleted(i, tag)' \/ \E v \in tag_value : v.item = i /\ Named(v.tag, tag)'
      <4>1. ValueIsDeleted(i, tag) => ValueIsDeleted(i, tag)'
        BY DeletedStays DEF Advances, Shape
      <4>2. \A v \in tag_value : Named(v.tag, tag) => Named(v.tag, tag)'
        BY TagsAreGiven, TagStays DEF Shape, AllValues
      <4> QED
        BY <3>1, <3>2, <4>1, <4>2 DEF Whole
    <3> QED
      BY <1>1, <3>1, <3>2 DEF Whole, ValueIsDeleted, TagIsDeleted, Property, Named, tables
  <2>2. ASSUME NEW v \in tag_value PROVE TagGone(v.tag)' \/ \E t \in tag_definition : t.id = v.tag
    BY DeletedStays DEF Advances, WInv, Tables, Shape
  <2>3. ASSUME NEW v \in AllValues' PROVE HasType(v.tag, v.type)' \/ GivenByName(v.id)'
    <3>1. GivenByName(v.id)' <=> GivenByName(v.id)
      BY <1>1 DEF GivenByName
    <3>2. v \in AllValues /\ HasType(v.tag, v.type) => HasType(v.tag, v.type)'
      BY TagsAreGiven, TagStays DEF Shape
    <3> QED
      BY <3>1, <3>2 DEF WInv, Tables
  <2> QED
    BY <2>1, <2>2, <2>3 DEF Tables, tables
<1> QED
  BY <1>2, <1>3 DEF WInv

(* A step that makes no row *)
LEMMA FewerRowsShape ==
  ASSUME NEW r \in Requests, OthersStay(r), Advances(r),
         tag_definition' \subseteq AllTags, tag_value' \subseteq AllValues,
         tx'[r].tags \subseteq tx[r].tags, tx'[r].values \subseteq tx[r].values
  PROVE  Shape(r) /\ AllTags' \subseteq AllTags /\ AllValues' \subseteq AllValues
<1>1. \A q \in Requests : tx'[q].tags \subseteq tx[q].tags /\ tx'[q].values \subseteq tx[q].values
  BY DEF OthersStay
<1>2. AllTags' \subseteq AllTags /\ AllValues' \subseteq AllValues
  BY <1>1 DEF AllTags, AllValues
<1> QED
  BY <1>2 DEF Shape, NewTagsAreNew, NewValuesFit, SamePair

(* A request gives up, or ends without a change. *)
LEMMA EndWhole ==
  ASSUME Inv, WInv, NEW r \in Requests, pc[r] \notin Final, End(r, "error"), UNCHANGED tables
  PROVE  WInv'
<1>1. /\ pc' = [pc EXCEPT ![r] = "error"] /\ tx' = [tx EXCEPT ![r] = NoChange]
      /\ UNCHANGED <<at, job, tag_id, tag_value_id, item, tag_definition, tag_value>>
  BY DEF End, Goto, locals, tables
<1>2. pc'[r] = "error" /\ tx'[r] = NoChange
  BY <1>1 DEF Inv, TypeOK
<1>3. TypeOK'
  BY <1>1, NoChangeTyped DEF Inv, TypeOK, Final
<1>4. OthersStay(r)
  BY <1>1 DEF OthersStay, Inv, TypeOK
<1>5. Advances(r)
  BY <1>1, <1>2 DEF Advances, TagSteps, ValueSteps
<1>6. Shape(r) /\ AllValues' \subseteq AllValues
  BY <1>1, <1>2, <1>4, <1>5, FewerRowsShape DEF NoChange, AllTags, AllValues
<1>7. Role(r)' /\ Own(r)' /\ Aimed(r)' /\ SoFar(r)'
  BY <1>2 DEF Role, Own, Aimed, SoFar, NoChange, Steps
<1> QED
  BY <1>3, <1>6, <1>7, OthersStayWhole

(* A statement that only looks something up *)
LEMMA LookUpShape ==
  ASSUME Inv, NEW r \in Requests, NEW step \in Steps, Goto(r, step),
         UNCHANGED <<at, job, tx, item, tag_definition, tag_value>>,
         pc[r] \in {"idle"} \cup Steps,
         step \in TagSteps => pc[r] \in TagSteps,
         step \in ValueSteps => pc[r] \in ValueSteps,
         tag_id' = [tag_id EXCEPT ![r] = tag_id'[r]], tag_id'[r] \in Ids,
         tag_value_id' = [tag_value_id EXCEPT ![r] = tag_value_id'[r]], tag_value_id'[r] \in Ids
  PROVE  /\ TypeOK' /\ pc' = [pc EXCEPT ![r] = step] /\ pc'[r] = step /\ Shape(r)
         /\ AllTags' = AllTags /\ AllValues' = AllValues
<1>1. pc' = [pc EXCEPT ![r] = step] /\ pc'[r] = step
  BY DEF Goto, Inv, TypeOK
<1>2. TypeOK'
  BY <1>1 DEF Inv, TypeOK
<1>3. OthersStay(r)
  BY <1>1 DEF OthersStay, Inv, TypeOK
<1>4. Advances(r)
  BY <1>1 DEF Advances, Steps, Final
<1>5. AllTags' = AllTags /\ AllValues' = AllValues
  BY DEF AllTags, AllValues
<1> QED
  BY <1>1, <1>2, <1>3, <1>4, <1>5, FewerRowsShape DEF AllTags, AllValues

LEMMA LookUpWhole ==
  ASSUME Inv, WInv, NEW r \in Requests, TypeOK', Shape(r),
         UNCHANGED <<at, job, tx, item, tag_definition, tag_value>>, AllValues' = AllValues,
         pc'[r] = "commit" => job[r].op \notin Updates,
         pc[r] \in Steps \/ at[r] = 1,
         Role(r)', Aimed(r)'
  PROVE  WInv'
<1>1. tx[r].tags # {} => job[r].op \in Updates \cup {"add_tag"}
  BY DEF WInv, Own
<1>2. Own(r)'
  BY <1>1, OwnStays DEF tables
<1>3. SoFar(r)'
  <2>1. CASE pc[r] \in Steps
    BY <2>1, SoFarStays
  <2>2. CASE at[r] = 1
    <3>1. job[r].op \in Updates => DOMAIN job[r].props = 1..Len(job[r].props)
      BY JobFacts DEF Inv, Updates, Writes
    <3> QED
      BY <2>2, <3>1 DEF SoFar
  <2> QED
    BY <2>1, <2>2
<1> QED
  BY <1>2, <1>3, OthersStayWhole DEF tables

LEMMA BeginWhole ==
  ASSUME Inv, WInv, NEW r \in Requests, NEW op, NEW step, Begin(r, op, step),
         \/ step = "find_tag" /\ op = "update_item_tag"
         \/ step = "create_item" /\ op = "add_item"
         \/ step = "find_row" /\ op = "delete_item_tag"
         \/ step = "define_tag" /\ op = "add_tag"
         \/ step = "check_usage" /\ op = "delete_tag"
         \/ step = "find_items" /\ op \in {"get_item", "get_all_item"}
         \/ step = "find_tags" /\ op = "get_all_tag"
  PROVE  WInv'
<1>1. pc[r] = "idle" /\ job[r].op = op
      /\ UNCHANGED <<at, job, tag_id, tag_value_id, item, tag_definition, tag_value>>
  BY DEF Begin, End, Goto, locals, tables
<1>2. CASE End(r, "error")
  BY <1>1, <1>2, EndWhole DEF Final, tables
<1>3. CASE Goto(r, step) /\ UNCHANGED tx
  <2>1. step \in Steps /\ (step \in TagSteps => pc[r] \in TagSteps) /\ (step \in ValueSteps => pc[r] \in ValueSteps)
    BY <1>1 DEF Steps, TagSteps, ValueSteps
  <2>2. TypeOK' /\ pc'[r] = step /\ Shape(r) /\ AllValues' = AllValues
    BY <1>1, <1>3, <2>1, LookUpShape DEF Inv, TypeOK
  <2>3. Role(r)' /\ Aimed(r)'
    BY <1>1, <2>2 DEF Role, Aimed, Updates
  <2> QED
    BY <1>1, <1>3, <2>2, <2>3, LookUpWhole DEF Inv, Placed
<1> QED
  BY <1>2, <1>3 DEF Begin

LEMMA CreateItemWhole ==
  ASSUME Inv, WInv, NEW r \in Requests, CreateItem(r)
  PROVE  WInv'
<1>1. /\ pc[r] = "create_item" /\ pc' = [pc EXCEPT ![r] = "find_tag"]
      /\ tx' = [tx EXCEPT ![r]["items"] = {r}]
      /\ UNCHANGED <<at, job, tag_id, tag_value_id, item, tag_definition, tag_value>>
  BY DEF CreateItem, Change, Goto, locals, tables
<1>2. /\ pc'[r] = "find_tag"
      /\ tx'[r] = [tx[r] EXCEPT !["items"] = {r}]
      /\ tx' = [tx EXCEPT ![r] = tx'[r]]
  BY <1>1 DEF Inv, TypeOK
<1>3. /\ tx'[r].tags = tx[r].tags /\ tx'[r].values = tx[r].values /\ tx'[r].items = {r}
      /\ tx'[r].gone_tags = tx[r].gone_tags /\ tx'[r].gone_values = tx[r].gone_values
      /\ tx'[r] \in Transactions
  <2>1. tx[r] \in Transactions /\ {r} \subseteq AllItems
    BY RowFacts DEF Inv, AllItems
  <2> QED
    BY <1>2, <2>1 DEF Transactions
<1>4. TypeOK'
  BY <1>1, <1>2, <1>3 DEF Inv, TypeOK, Steps
<1>5. OthersStay(r)
  BY <1>1, <1>2, <1>3 DEF OthersStay, Inv, TypeOK
<1>6. Advances(r)
  BY <1>1, <1>2, <1>3 DEF Advances, TagSteps, ValueSteps, Final
<1>7. Shape(r) /\ AllValues' \subseteq AllValues
  BY <1>1, <1>3, <1>5, <1>6, FewerRowsShape DEF AllTags, AllValues
<1>8. job[r].op = "add_item" /\ tx[r].gone_tags = {} /\ tx[r].gone_values = {}
  BY <1>1 DEF WInv, Role, Inv, Placed
<1>9. Own(r)'
  <2>1. ASSUME NEW v \in tx[r].values
        PROVE  /\ v.by[1] = r /\ v.by[2] \in DOMAIN job[r].props /\ v.item = Item(r)
               /\ Named(v.tag, job[r].props[v.by[2]].tag)' /\ Known(r, v.tag)'
    <3>1. /\ v.by[1] = r /\ v.by[2] \in DOMAIN job[r].props /\ v.item = Item(r)
          /\ Named(v.tag, job[r].props[v.by[2]].tag) /\ Known(r, v.tag)
      BY DEF WInv, Own
    <3>2. \A tag : Named(v.tag, tag) => Named(v.tag, tag)'
      BY <1>7, TagsAreGiven, TagStays DEF Shape, AllValues
    <3>3. TagGone(v.tag) => TagGone(v.tag)'
      BY <1>5, <1>6, DeletedStays DEF Advances
    <3> QED
      BY <1>1, <1>3, <3>1, <3>2, <3>3 DEF Named, Known
  <2> QED
    BY <1>1, <1>3, <1>8, <2>1 DEF Own, Item, WInv, Updates
<1>10. Role(r)' /\ Aimed(r)'
  BY <1>1, <1>2, <1>8 DEF Role, Aimed, Updates
<1>11. SoFar(r)'
  BY <1>1, <1>2, <1>3, <1>7, SoFarStays DEF Steps
<1> QED
  BY <1>1, <1>4, <1>7, <1>9, <1>10, <1>11, OthersStayWhole DEF tables

(* A tag that a request sees has its name, and is there. *)
LEMMA SeenTag ==
  ASSUME Inv, NEW r \in Requests, NEW t \in Tags(r)
  PROVE  /\ t \in AllTags /\ t.id \in Ids /\ t.name \in Names
         /\ Known(r, t.id) /\ HasType(t.id, t.type)
         /\ \A tag \in {t.id, t.name} : Named(t.id, tag)
<1>1. t \in tag_definition \cup tx[r].tags
  BY DEF Tags
<1>2. t \in AllTags
  BY <1>1 DEF AllTags
<1>3. t.id \in Ids /\ t.name \in Names
  BY <1>2, AllRowsTyped, IdFacts DEF Inv
<1>4. HasType(t.id, t.type) /\ \A tag \in {t.id, t.name} : Named(t.id, tag)
  BY <1>2, <1>3, NamesAssumption DEF HasType, Named, Inv, IdsApart
<1> QED
  BY <1>1, <1>2, <1>3, <1>4 DEF Known

LEMMA CheckTagIdWhole ==
  ASSUME Inv, WInv, NEW r \in Requests, CheckTagId(r)
  PROVE  WInv'
<1>1. pc[r] = "find_tag" /\ Property(r).tag \in Ids
  BY DEF CheckTagId
<1>2. CASE Fail(r)
  BY <1>1, <1>2, EndWhole DEF Fail, Final
<1>3. CASE ~Fail(r)
  <2>1. PICK t \in Tags(r) : t.id = Property(r).tag /\ t.type = Property(r).type
    BY <1>3 DEF CheckTagId
  <2>2. /\ Goto(r, "find_value") /\ tag_id' = [tag_id EXCEPT ![r] = t.id]
        /\ UNCHANGED <<at, job, tag_value_id, tx, item, tag_definition, tag_value>>
    BY <1>3, <2>1 DEF CheckTagId, tables
  <2>3. t.id \in Ids /\ Known(r, t.id) /\ HasType(t.id, t.type) /\ Named(t.id, t.id)
    BY SeenTag
  <2>4. tag_id'[r] = t.id
    BY <2>2 DEF Inv, TypeOK
  <2>5. TypeOK' /\ pc'[r] = "find_value" /\ Shape(r) /\ AllTags' = AllTags /\ AllValues' = AllValues
    BY <1>1, <2>2, <2>3, <2>4, LookUpShape DEF Steps, TagSteps, ValueSteps, Inv, TypeOK
  <2>6. Known(r, t.id)'
    BY <2>2, <2>3, <2>5, DeletedStays DEF Advances, Known, Shape
  <2>7. Aimed(r)'
    BY <2>1, <2>2, <2>3, <2>4, <2>5, <2>6 DEF Aimed, Property, HasType, Named, Known, TagGone
  <2>8. Role(r)'
    BY <1>1, <2>2, <2>5 DEF Role, WInv
  <2> QED
    BY <1>1, <2>2, <2>5, <2>7, <2>8, LookUpWhole DEF Steps
<1> QED
  BY <1>2, <1>3

LEMMA SearchTagWhole ==
  ASSUME Inv, WInv, NEW r \in Requests, SearchTag(r)
  PROVE  WInv'
<1>1. /\ pc[r] = "find_tag" /\ Property(r).tag \in Names
      /\ UNCHANGED <<at, job, tag_value_id, tx, item, tag_definition, tag_value>>
  BY DEF SearchTag, tables
<1>2. ASSUME NEW t \in Tags(r), t.name = Property(r).tag, tag_id' = [tag_id EXCEPT ![r] = t.id],
             Goto(r, "find_value")
      PROVE  WInv'
  <2>1. t.id \in Ids /\ Known(r, t.id) /\ Named(t.id, t.name)
    BY SeenTag
  <2>2. tag_id'[r] = t.id
    BY <1>2 DEF Inv, TypeOK
  <2>3. TypeOK' /\ pc'[r] = "find_value" /\ Shape(r) /\ AllTags' = AllTags /\ AllValues' = AllValues
    BY <1>1, <1>2, <2>1, <2>2, LookUpShape DEF Steps, TagSteps, ValueSteps, Inv, TypeOK
  <2>4. Known(r, t.id)'
    BY <1>1, <2>1, <2>3, DeletedStays DEF Advances, Known, Shape
  <2>5. Aimed(r)'
    BY <1>1, <1>2, <2>1, <2>2, <2>3, <2>4, NamesAssumption DEF Aimed, Property, Named, Known, TagGone
  <2>6. Role(r)'
    BY <1>1, <2>3 DEF Role, WInv
  <2> QED
    BY <1>1, <2>3, <2>5, <2>6, LookUpWhole DEF Steps
<1>3. ASSUME Goto(r, "define_tag"), UNCHANGED tag_id
      PROVE  WInv'
  <2>1. TypeOK' /\ pc'[r] = "define_tag" /\ Shape(r) /\ AllValues' = AllValues
    BY <1>1, <1>3, LookUpShape DEF Steps, TagSteps, ValueSteps, Inv, TypeOK
  <2>2. Role(r)' /\ Aimed(r)'
    BY <1>1, <2>1 DEF Role, Aimed, WInv
  <2> QED
    BY <1>1, <2>1, <2>2, LookUpWhole DEF Steps
<1> QED
  BY <1>2, <1>3 DEF SearchTag, search_tag_by_name

(* Whoever changes its own value a second time names the tag in the same way. *)
LEMMA SameTag ==
  ASSUME Inv, NEW r \in Requests, job[r].op \in Writes, NamedOneWay(r),
         NEW m \in DOMAIN job[r].props, NEW n \in DOMAIN job[r].props,
         NEW t \in AllTags, Named(t.id, job[r].props[m].tag), Named(t.id, job[r].props[n].tag)
  PROVE  job[r].props[m].tag = job[r].props[n].tag
<1>1. \A k \in DOMAIN job[r].props : job[r].props[k].tag \in Names \cup Ids
  <2>1. \A k \in DOMAIN job[r].props : job[r].props[k] \in Properties
    BY JobFacts DEF Inv
  <2> QED
    BY <2>1 DEF Properties
<1>2. (\A k \in DOMAIN job[r].props : job[r].props[k].tag \in Ids)
        \/ (\A k \in DOMAIN job[r].props : job[r].props[k].tag \in Names)
  BY DEF NamedOneWay
<1> QED
  BY <1>1, <1>2, NamesAssumption DEF Named

LEMMA FindValueWhole ==
  ASSUME Inv, WInv, NEW r \in Requests, FindValue(r)
  PROVE  WInv'
<1>1. pc[r] = "find_value" /\ job[r].op \in Updates /\ job[r].op \in Writes
  BY DEF FindValue, WInv, Role, Updates, Writes
<1>2. CASE Fail(r)
  BY <1>1, <1>2, EndWhole DEF Fail, Final
<1>3. CASE ~Fail(r)
  <2>1. UNCHANGED <<at, job, tag_id, tx, item, tag_definition, tag_value>>
    BY <1>3 DEF FindValue, locals, tables
  <2>2. ASSUME NEW id, id = tag_id[r], NEW tag, tag = Property(r).tag,
               Shape(r), AllTags' = AllTags
        PROVE  Named(id, tag)' /\ Known(r, id)' /\ (tag \in Ids => HasType(id, Property(r).type)')
    <3>1. Named(id, tag) /\ Known(r, id) /\ (tag \in Ids => HasType(id, Property(r).type))
      BY <1>1, <2>2 DEF WInv, Aimed
    <3>2. TagGone(id) => TagGone(id)'
      BY <2>2, DeletedStays DEF Advances, Shape
    <3> QED
      BY <2>1, <2>2, <3>1, <3>2 DEF Named, Known, HasType, Property
  <2>3. CASE Goto(r, "insert_value") /\ UNCHANGED tag_value_id
    <3>1. TypeOK' /\ pc'[r] = "insert_value" /\ Shape(r) /\ AllTags' = AllTags /\ AllValues' = AllValues
      BY <1>1, <2>1, <2>3, LookUpShape DEF Steps, TagSteps, ValueSteps, Inv, TypeOK
    <3>2. Role(r)'
      BY <1>1, <2>1, <3>1 DEF Role
    <3>3. Aimed(r)'
      BY <2>1, <2>2, <3>1 DEF Aimed, Named, Known, TagGone, HasType, Property
    <3> QED
      BY <1>1, <2>1, <3>1, <3>2, <3>3, LookUpWhole DEF Steps
  <2>4. ASSUME NEW row \in is_tags_on_item(r, Item(r), tag_id[r]),
               tag_value_id' = [tag_value_id EXCEPT ![r] = row[1]], Goto(r, "change_value")
        PROVE  WInv'
    <3>1. PICK v \in Values(r), t \in Tags(r) :
            row[1] = v.id /\ v.item = Item(r) /\ v.tag = tag_id[r] /\ t.id = tag_id[r]
      BY <2>4 DEF is_tags_on_item
    <3>2. v \in AllValues /\ t \in AllTags /\ v.id \in Ids
      BY <1>1, SeenIsGiven DEF Steps
    <3>3. tag_value_id'[r] = v.id
      BY <2>4, <3>1 DEF Inv, TypeOK
    <3>4. TypeOK' /\ pc'[r] = "change_value" /\ Shape(r) /\ AllTags' = AllTags /\ AllValues' = AllValues
      BY <1>1, <2>1, <2>4, <3>1, <3>2, <3>3, LookUpShape DEF Steps, TagSteps, ValueSteps, Inv, TypeOK
    <3>5. Role(r)'
      BY <1>1, <2>1, <3>4 DEF Role
    <3>6. v.id \in IdsOf(Values(r)')
      BY <2>1, <3>1 DEF IdsOf, Values
    <3>7. ASSUME NEW w \in tx[r].values, w.id = v.id, NamedOneWay(r)
          PROVE  job[r].props[w.by[2]].tag = Property(r).tag
      <4>1. w.tag = tag_id[r]
        BY <3>1, <3>2, <3>7 DEF Inv, IdsApart, SamePair, AllValues
      <4>2. w.by[2] \in DOMAIN job[r].props /\ Named(t.id, job[r].props[w.by[2]].tag)
        BY <3>1, <4>1 DEF WInv, Own
      <4>3. at[r] \in DOMAIN job[r].props /\ Named(t.id, job[r].props[at[r]].tag)
        BY <1>1, <3>1, JobFacts DEF WInv, Aimed, Inv, Placed, Property
      <4> QED
        BY <1>1, <3>2, <3>7, <4>2, <4>3, SameTag DEF Property
    <3>8. \A w \in tx'[r].values :
            w.id = v.id /\ NamedOneWay(r)' => job'[r].props[w.by[2]].tag = Property(r)'.tag
      BY <2>1, <3>7 DEF NamedOneWay, Property
    <3>9. tag_value_id'[r] \in IdsOf(Values(r))'
      BY <3>3, <3>6 DEF IdsOf
    <3>10. Named(tag_id[r], Property(r).tag)' /\ Known(r, tag_id[r])'
      BY <2>1, <2>2, <3>4 DEF Named, Known, TagGone, Property
    <3>11. Aimed(r)'
      BY <3>3, <3>4, <3>8, <3>9, <3>10 DEF Aimed
    <3> QED
      BY <1>1, <2>1, <3>4, <3>5, <3>11, LookUpWhole DEF Steps
  <2> QED
    BY <1>3, <2>3, <2>4 DEF FindValue, locals
<1> QED
  BY <1>2, <1>3

LEMMA NextPropertyWhole ==
  ASSUME Inv, NEW r \in Requests, NEW step \in Steps \ {"commit"}, NextProperty(r, step), pc[r] \in WriteSteps,
         UNCHANGED <<job, tag_id, tag_value_id>>,
         \A q \in Requests \ {r} : tx'[q] = tx[q],
         step \in {"find_row", "find_tag"}
  PROVE  /\ pc' = [pc EXCEPT ![r] = pc'[r]] /\ pc'[r] \in {step, "commit"}
         /\ at' = [at EXCEPT ![r] = at'[r]] /\ at'[r] \in Nat \ {0}
         /\ at[r] \in 1..Len(job[r].props)
         /\ (at'[r] = at[r] + 1 /\ pc'[r] = step)
              \/ (at'[r] = at[r] /\ at[r] = Len(job[r].props) /\ pc'[r] = "commit")
         /\ OthersStay(r) /\ Advances(r)
<1>1. at[r] \in 1..Len(job[r].props) /\ Len(job[r].props) \in Nat
  BY JobFacts DEF Inv, Placed
<1>2. /\ pc' = [pc EXCEPT ![r] = pc'[r]] /\ pc'[r] \in {step, "commit"}
      /\ at' = [at EXCEPT ![r] = at'[r]] /\ at'[r] \in Nat \ {0}
      /\ (at'[r] = at[r] + 1 /\ pc'[r] = step)
           \/ (at'[r] = at[r] /\ at[r] = Len(job[r].props) /\ pc'[r] = "commit")
  <2>1. CASE at[r] < Len(job[r].props)
    BY <1>1, <2>1 DEF NextProperty, Goto, Inv, TypeOK
  <2>2. CASE ~(at[r] < Len(job[r].props))
    BY <1>1, <2>2 DEF NextProperty, Goto, Inv, TypeOK
  <2> QED
    BY <2>1, <2>2
<1>3. OthersStay(r)
  BY <1>2 DEF OthersStay, Inv, TypeOK
<1>4. Advances(r)
  BY <1>2 DEF Advances, Inv, TypeOK, TagSteps, ValueSteps, Final, WriteSteps
<1> QED
  BY <1>1, <1>2, <1>3, <1>4

LEMMA FindRowWhole ==
  ASSUME Inv, WInv, NEW r \in Requests, FindRow(r)
  PROVE  WInv'
<1>1. /\ pc[r] = "find_row" /\ UNCHANGED <<job, tag_id, tx, item, tag_definition, tag_value>>
      /\ job[r].op = "delete_item_tag" /\ job[r].op \notin Updates
  BY DEF FindRow, tables, WInv, Role, Updates
<1>2. ASSUME NEW v \in delete_item_tag_value(r), tag_value_id' = [tag_value_id EXCEPT ![r] = v.id],
             Goto(r, "delete_value"), UNCHANGED at
      PROVE  WInv'
  <2>1. PICK t \in Tags(r) : t.name = Property(r).tag /\ t.id = v.tag
    BY <1>2 DEF delete_item_tag_value, search_tag_by_name, IdsOf
  <2>2. v \in Values(r) /\ v.item = Item(r) /\ v \in AllValues /\ v.id \in Ids /\ GivenTo(r, v.id, ValueSteps)
    BY <1>1, <1>2, SeenIsGiven DEF delete_item_tag_value, Steps
  <2>3. tag_value_id'[r] = v.id
    BY <1>2 DEF Inv, TypeOK
  <2>4. TypeOK' /\ pc'[r] = "delete_value" /\ Shape(r) /\ AllTags' = AllTags /\ AllValues' = AllValues
    BY <1>1, <1>2, <2>2, <2>3, LookUpShape DEF Steps, TagSteps, ValueSteps, Inv, TypeOK
  <2>5. \A w \in AllValues : w.id = v.id => w.item = Item(r) /\ w.tag = t.id
    BY <2>1, <2>2 DEF Inv, IdsApart, SamePair
  <2>6. Takes(r, v.id, at[r])
    <3>1. Named(t.id, job[r].props[at[r]].tag)
      BY <2>1, SeenTag DEF Property
    <3> QED
      BY <2>2, <2>5, <3>1 DEF Takes
  <2>7. Takes(r, v.id, at[r])'
    <3>1. PICK n : n = at[r]
      OBVIOUS
    <3>2. Takes(r, v.id, n)'
      BY <2>2, <2>4, <2>6, <3>1, TakesStays
    <3> QED
      BY <1>2, <3>1, <3>2 DEF Takes
  <2>8. Aimed(r)' /\ Role(r)'
    BY <1>1, <2>3, <2>4, <2>7 DEF Aimed, Role, Takes, Item, Named, GivenTo, Committed
  <2> QED
    BY <1>1, <1>2, <2>4, <2>8, LookUpWhole DEF Steps
<1>3. ASSUME NextProperty(r, "find_row"), UNCHANGED tag_value_id
      PROVE  WInv'
  <2>1. /\ pc' = [pc EXCEPT ![r] = pc'[r]] /\ pc'[r] \in {"find_row", "commit"}
        /\ at' = [at EXCEPT ![r] = at'[r]] /\ at'[r] \in Nat \ {0}
        /\ OthersStay(r) /\ Advances(r)
    BY <1>1, <1>3, NextPropertyWhole DEF Steps, WriteSteps
  <2>2. TypeOK'
    BY <1>1, <1>3, <2>1 DEF Inv, TypeOK, Steps
  <2>3. Shape(r) /\ AllValues' \subseteq AllValues
    BY <1>1, <2>1, FewerRowsShape DEF AllTags, AllValues
  <2>4. tx[r].gone_tags = {} /\ tx[r].tags = {}
    BY <1>1 DEF Inv, Placed, WInv, Own, Updates
  <2>5. Own(r)'
    BY <1>1, <2>2, <2>3, <2>4, OwnStays DEF tables
  <2>6. Role(r)' /\ Aimed(r)' /\ SoFar(r)'
    BY <1>1, <2>1 DEF Role, Aimed, SoFar
  <2> QED
    BY <1>1, <2>2, <2>3, <2>5, <2>6, OthersStayWhole DEF tables
<1> QED
  BY <1>2, <1>3 DEF FindRow

LEMMA CheckUsageWhole ==
  ASSUME Inv, WInv, NEW r \in Requests, CheckUsage(r)
  PROVE  WInv'
<1>1. pc[r] = "check_usage" /\ job[r].op = "delete_tag"
  BY DEF CheckUsage, WInv, Role
<1>2. CASE Fail(r)
  BY <1>1, <1>2, EndWhole DEF Fail, Final
<1>3. CASE ~Fail(r)
  <2>1. /\ Goto(r, "delete_tag")
        /\ UNCHANGED <<at, job, tag_id, tag_value_id, tx, item, tag_definition, tag_value>>
    BY <1>3 DEF CheckUsage, locals, tables
  <2>2. TypeOK' /\ pc'[r] = "delete_tag" /\ Shape(r) /\ AllValues' = AllValues
    BY <1>1, <2>1, LookUpShape DEF Steps, TagSteps, ValueSteps, Inv, TypeOK
  <2>3. Role(r)' /\ Aimed(r)'
    BY <1>1, <2>1, <2>2 DEF Role, Aimed
  <2> QED
    BY <1>1, <2>1, <2>2, <2>3, LookUpWhole DEF Steps
<1> QED
  BY <1>2, <1>3

LEMMA ReadWhole ==
  ASSUME Inv, WInv, NEW r \in Requests, Read(r)
  PROVE  WInv'
<1>1. /\ pc[r] \in {"find_items", "find_properties", "find_tags"}
      /\ job[r].op \in {"get_item", "get_all_item", "get_all_tag"}
      /\ pc[r] # "find_tags" => job[r].op # "get_all_tag"
  BY DEF Read, FindItems, FindProperties, FindTags, WInv, Role
<1>2. CASE Fail(r)
  BY <1>1, <1>2, EndWhole DEF Fail, Final
<1>3. CASE ~Fail(r)
  <2>1. PICK step \in {"find_properties", "commit"} :
          /\ Goto(r, step) /\ (step = "find_properties" => pc[r] # "find_tags")
          /\ UNCHANGED <<at, job, tag_id, tag_value_id, tx, item, tag_definition, tag_value>>
    BY <1>3 DEF Read, FindItems, FindProperties, FindTags, locals, tables
  <2>2. TypeOK' /\ pc'[r] = step /\ Shape(r) /\ AllValues' = AllValues
    BY <1>1, <2>1, LookUpShape DEF Steps, TagSteps, ValueSteps, Inv, TypeOK
  <2>3. Role(r)' /\ Aimed(r)' /\ job[r].op \notin Updates
    BY <1>1, <2>1, <2>2 DEF Role, Aimed, Updates
  <2> QED
    BY <1>1, <2>1, <2>2, <2>3, LookUpWhole DEF Steps
<1> QED
  BY <1>2, <1>3

-----------------------------------------------------------------------------
(* The steps that make or take a row *)

LEMMA DefineTagWhole ==
  ASSUME Inv, WInv, NEW r \in Requests, DefineTag(r), Inv'
  PROVE  WInv'
<1> DEFINE n == [id |-> Id(r), name |-> Property(r).tag, type |-> Property(r).type]
<1>1. pc[r] = "define_tag" /\ job[r].op \in Updates \cup {"add_tag"} /\ Property(r).tag \in Names
  BY DEF DefineTag, WInv, Role, Inv, Placed
<1>2. CASE Fail(r)
  BY <1>1, <1>2, EndWhole DEF Fail, Final
<1>3. CASE ~Fail(r)
  <2>1. /\ tx' = [tx EXCEPT ![r]["tags"] = tx[r].tags \cup {n}]
        /\ tag_id' = [tag_id EXCEPT ![r] = Id(r)]
        /\ pc' = [pc EXCEPT ![r] = IF job[r].op = "add_tag" THEN "commit" ELSE "find_value"]
        /\ UNCHANGED <<at, job, tag_value_id, item, tag_definition, tag_value>>
    BY <1>3, OneRow DEF DefineTag, Change, Goto, tables
  <2>2. /\ tag_id'[r] = Id(r)
        /\ pc'[r] = IF job[r].op = "add_tag" THEN "commit" ELSE "find_value"
        /\ tx'[r] = [tx[r] EXCEPT !["tags"] = tx[r].tags \cup {n}]
        /\ tx' = [tx EXCEPT ![r] = tx'[r]]
        /\ \A q \in Requests \ {r} : tx'[q] = tx[q]
    BY <2>1 DEF Inv, TypeOK
  <2>3. /\ tx'[r].tags = tx[r].tags \cup {n} /\ tx'[r].values = tx[r].values /\ tx'[r].items = tx[r].items
        /\ tx'[r].gone_tags = tx[r].gone_tags /\ tx'[r].gone_values = tx[r].gone_values
    <3>1. tx[r] \in Transactions
      BY RowFacts DEF Inv
    <3> QED
      BY <2>2, <3>1 DEF Transactions
  <2>4. OthersStay(r) /\ Advances(r)
    BY <1>1, <2>1, <2>2 DEF OthersStay, Advances, Inv, TypeOK, TagSteps, ValueSteps, Final
  <2>5. AllTags' = AllTags \cup {n} /\ AllValues' = AllValues
    BY <2>1, <2>2, <2>3 DEF AllTags, AllValues
  <2>6. ~Committed(n.id) /\ \A q \in Requests : ~GivenTo(q, n.id, TagSteps)
    BY <1>1, NextIdIsNew DEF Inv, TagSteps, Final
  <2>7. Shape(r)
    BY <2>4, <2>5, <2>6 DEF Shape, NewTagsAreNew, NewValuesFit, SamePair
  <2>8. Own(r)'
    BY <1>1, <2>1, <2>3, <2>7, OwnStays DEF tables, Inv
  <2>9. Role(r)'
    BY <1>1, <2>1, <2>2 DEF Role, Updates
  <2>10. SoFar(r)'
    BY <1>1, <2>1, <2>2, <2>3, <2>7, SoFarStays DEF Steps, Updates
  <2>11. ASSUME NEW id, id = n.id, NEW tag, tag = Property(r).tag
         PROVE  Named(id, tag)' /\ Known(r, id)' /\ tag \notin Ids
    <3>1. \A t \in AllTags' : t.id = id => t = n
      BY <2>5, <2>11 DEF Inv, IdsApart
    <3>2. Known(r, id)'
      BY <2>3, <2>11 DEF Known
    <3> QED
      BY <1>1, <2>11, <3>1, <3>2, NamesAssumption DEF Named
  <2>12. ASSUME pc'[r] = "find_value"
         PROVE  Named(tag_id[r], Property(r).tag)' /\ Known(r, tag_id[r])' /\ Property(r)'.tag \notin Ids
    <3>1. n.id = Id(r) /\ Property(r)' = Property(r)
      BY <2>1 DEF Property
    <3>2. PICK id, tag : id = Id(r) /\ tag = Property(r).tag
      OBVIOUS
    <3>3. Named(id, tag)' /\ Known(r, id)' /\ tag \notin Ids
      BY <2>11, <3>1, <3>2
    <3>4. tag_id'[r] = id /\ Property(r)'.tag = tag
      BY <2>2, <3>1, <3>2
    <3> HIDE DEF n
    <3>5. Named(tag_id[r], Property(r).tag)'
      BY <3>3, <3>4 DEF Named
    <3>6. Known(r, tag_id[r])'
      BY <3>3, <3>4 DEF Known, TagGone
    <3> QED
      BY <3>3, <3>4, <3>5, <3>6
  <2>13. Aimed(r)'
    BY <1>1, <2>2, <2>12 DEF Aimed, Updates
  <2> QED
    BY <2>1, <2>5, <2>7, <2>8, <2>9, <2>10, <2>13, OthersStayWhole DEF tables, Inv
<1> QED
  BY <1>2, <1>3

(* The value of the property is stored: a new one, or in place of one that *)
(* had its id.                                                             *)
LEMMA PutValueWhole ==
  ASSUME Inv, WInv, NEW r \in Requests, pc[r] \in {"insert_value", "change_value"}, NEW n,
         n = NewValue(r, n.id, tag_id[r]), Inv',
         tx' = [tx EXCEPT ![r]["values"] = {v \in tx[r].values : v.id # n.id} \cup {n}],
         NextProperty(r, "find_tag"),
         UNCHANGED <<job, tag_id, tag_value_id, item, tag_definition, tag_value>>,
         \/ \E v \in AllValues : v.id = n.id /\ SamePair(v, n)
         \/ \A q \in Requests : ~GivenTo(q, n.id, ValueSteps),
         \A v \in tx[r].values : v.id = n.id =>
           v.tag = n.tag /\ (NamedOneWay(r) => job[r].props[v.by[2]].tag = Property(r).tag),
         HasType(n.tag, n.type) \/ GivenByName(n.id)
  PROVE  WInv'
<1>1. /\ pc' = [pc EXCEPT ![r] = pc'[r]] /\ pc'[r] \in {"find_tag", "commit"}
      /\ at' = [at EXCEPT ![r] = at'[r]]
      /\ at[r] \in 1..Len(job[r].props)
      /\ (at'[r] = at[r] + 1 /\ pc'[r] = "find_tag")
           \/ (at'[r] = at[r] /\ at[r] = Len(job[r].props) /\ pc'[r] = "commit")
      /\ OthersStay(r) /\ Advances(r)
  <2>1. \A q \in Requests \ {r} : tx'[q] = tx[q]
    BY DEF Inv, TypeOK
  <2> QED
    BY <2>1, NextPropertyWhole DEF Steps, WriteSteps
<1>2. job[r].op \in Updates /\ job[r].op \in Writes /\ job[r].props \in Seq(Properties)
  BY JobFacts DEF WInv, Role, Updates, Writes, Inv
<1>3. n.tag = tag_id[r] /\ n.item = Item(r) /\ n.type = Property(r).type /\ n.by = Id(r)
      /\ n.by[1] = r /\ n.by[2] = at[r]
  BY RowFacts DEF NewValue, Inv
<1>4. /\ tx'[r] = [tx[r] EXCEPT !["values"] = {v \in tx[r].values : v.id # n.id} \cup {n}]
      /\ \A q \in Requests \ {r} : tx'[q] = tx[q]
  BY DEF Inv, TypeOK
<1>5. /\ tx'[r].values = {v \in tx[r].values : v.id # n.id} \cup {n}
      /\ tx'[r].tags = tx[r].tags /\ tx'[r].items = tx[r].items
      /\ tx'[r].gone_tags = tx[r].gone_tags /\ tx'[r].gone_values = tx[r].gone_values
  <2>1. tx[r] \in Transactions
    BY RowFacts DEF Inv
  <2> QED
    BY <1>4, <2>1 DEF Transactions
<1>6. AllTags' = AllTags /\ AllValues' \subseteq AllValues \cup {n}
  BY <1>4, <1>5 DEF AllTags, AllValues
<1>7. Shape(r)
  BY <1>1, <1>6 DEF Shape, NewTagsAreNew, NewValuesFit, SamePair
<1>8. HasType(n.tag, n.type)' \/ GivenByName(n.id)
  BY <1>6 DEF HasType
<1>9. Named(n.tag, Property(r).tag) /\ Known(r, n.tag)
  BY <1>3 DEF WInv, Aimed
<1>10. \A v \in tx[r].values \cup {n} :
         /\ v.by[1] = r /\ v.by[2] \in DOMAIN job[r].props /\ v.item = Item(r)
         /\ Named(v.tag, job[r].props[v.by[2]].tag) /\ Known(r, v.tag)
  <2>1. at[r] \in DOMAIN job[r].props
    BY <1>1, <1>2
  <2>2. Own(r)
    BY DEF WInv
  <2>3. Named(n.tag, job[r].props[n.by[2]].tag)
    BY <1>3, <1>9 DEF Property
  <2> QED
    BY <1>3, <1>9, <2>1, <2>2, <2>3 DEF Own
<1>11. \A id : Known(r, id) => Known(r, id)'
  BY <1>1, <1>5, DeletedStays DEF Advances, Known
<1>12. Own(r)'
  <2>1. tx[r].gone_tags = {} /\ tx[r].gone_values = {}
    BY DEF Inv, Placed
  <2>2. Item(r)' = Item(r) /\ tx[r].items = tx'[r].items
    BY <1>5 DEF Item
  <2>3. \A v \in tx'[r].values :
          /\ v.by[1] = r /\ v.by[2] \in DOMAIN job[r].props /\ v.item = Item(r)
          /\ Named(v.tag, job[r].props[v.by[2]].tag)' /\ Known(r, v.tag)'
    BY <1>5, <1>6, <1>10, <1>11 DEF Named
  <2> QED
    BY <1>2, <1>5, <2>1, <2>2, <2>3 DEF Own, WInv
<1>13. Role(r)' /\ Aimed(r)'
  BY <1>1, <1>2 DEF Role, Aimed
<1>14. SoFar(r)'
  <2>1. Item(r)' = Item(r) /\ NamedOneWay(r)' = NamedOneWay(r)
    BY DEF Item, NamedOneWay
  <2>2. ASSUME NEW m \in DOMAIN job[r].props, m = at[r]
        PROVE  Holds(r, m)'
    <3>1. n \in tx'[r].values
      BY <1>5
    <3>2. job'[r].props[m].tag = Property(r).tag /\ n.by[2] = m
      BY <1>3, <2>2 DEF Property
    <3>3. m \in Int
      BY <1>1, <1>2, <2>2
    <3>4. Named(n.tag, job[r].props[m].tag)'
      BY <1>6, <1>9, <2>2 DEF Named, Property
    <3> QED
      BY <2>1, <3>1, <3>2, <3>3, <3>4 DEF Holds, Named
  <2>3. ASSUME NEW m \in DOMAIN job[r].props, m < at[r], NEW i, NEW tag, i = Item(r), tag = job[r].props[m].tag
        PROVE  Holds(r, m)' \/ ValueIsDeleted(i, tag)'
    <3>1. CASE ValueIsDeleted(i, tag)
      BY <1>1, <3>1, DeletedStays DEF Advances
    <3>2. ASSUME NEW v \in tx[r].values, Named(v.tag, tag),
                 NamedOneWay(r) => v.by[2] >= m /\ job[r].props[v.by[2]].tag = tag
          PROVE  Holds(r, m)'
      <4>1. CASE v.id # n.id
        BY <1>5, <1>6, <2>1, <2>3, <3>2, <4>1 DEF Holds, Named
      <4>2. CASE v.id = n.id
        <5>1. Named(n.tag, tag) /\ n \in tx'[r].values
          BY <1>5, <3>2, <4>2
        <5>2. NamedOneWay(r) => n.by[2] >= m /\ job[r].props[n.by[2]].tag = tag
          <6>1. v.tag = n.tag /\ (NamedOneWay(r) => job[r].props[v.by[2]].tag = Property(r).tag)
            BY <3>2, <4>2
          <6>2. n.by[2] = at[r] /\ Property(r) = job[r].props[at[r]]
            BY <1>3 DEF Property
          <6>3. m \in Int /\ at[r] \in Int
            BY <1>1, <1>2, <2>3
          <6>4. at[r] >= m
            BY <2>3, <6>3
          <6> QED
            BY <2>3, <3>2, <6>1, <6>2, <6>4
        <5> QED
          BY <1>6, <2>1, <2>3, <5>1, <5>2 DEF Holds, Named
      <4> QED
        BY <4>1, <4>2
    <3>3. pc[r] \in Steps
      BY DEF Steps
    <3> QED
      BY <1>2, <2>3, <3>1, <3>2, <3>3 DEF WInv, SoFar, Holds
  <2>4. ASSUME NEW m \in DOMAIN job[r].props, m < at'[r] \/ pc'[r] = "commit"
        PROVE  m < at[r] \/ m = at[r]
    <3>1. m \in Nat /\ m <= Len(job[r].props) /\ at[r] \in Nat
      BY <1>1, <1>2
    <3> QED
      BY <1>1, <2>4, <3>1
  <2> QED
    BY <2>1, <2>2, <2>3, <2>4 DEF SoFar, ValueIsDeleted, TagIsDeleted, Property
<1> QED
  BY <1>6, <1>7, <1>8, <1>12, <1>13, <1>14, OthersStayWhole DEF tables, Inv

LEMMA InsertValueWhole ==
  ASSUME Inv, WInv, NEW r \in Requests, InsertValue(r), Inv'
  PROVE  WInv'
<1>1. CASE Fail(r)
  BY <1>1, EndWhole DEF Fail, InsertValue, Final
<1>2. CASE ~Fail(r)
  <2>1. /\ pc[r] = "insert_value"
        /\ tx' = [tx EXCEPT ![r]["values"] = tx[r].values \cup {NewValue(r, Id(r), tag_id[r])}]
        /\ NextProperty(r, "find_tag")
        /\ UNCHANGED <<job, tag_id, tag_value_id, item, tag_definition, tag_value>>
    BY <1>2 DEF InsertValue, Change, locals, tables
  <2>2. PICK n : n = NewValue(r, Id(r), tag_id[r])
    OBVIOUS
  <2>3. /\ n.id = Id(r) /\ n.tag = tag_id[r] /\ n.type = Property(r).type /\ n.id \in Ids
        /\ n.id[1] = r /\ n.id[2] = at[r]
    BY <2>2, RowFacts DEF NewValue, Inv
  <2>4. ~Committed(n.id) /\ \A q \in Requests : ~GivenTo(q, n.id, ValueSteps)
    BY <2>1, <2>3, NextIdIsNew DEF Inv, ValueSteps, Final
  <2>5. \A v \in AllValues : v.id # n.id
    BY <2>4 DEF AllValues, Inv, CommittedRows, KnownRows
  <2>6. tx' = [tx EXCEPT ![r]["values"] = {v \in tx[r].values : v.id # n.id} \cup {n}]
    <3>1. tx[r].values = {v \in tx[r].values : v.id # n.id}
      BY <2>5 DEF AllValues
    <3> QED
      BY <2>1, <2>2, <3>1
  <2>7. HasType(n.tag, n.type) \/ GivenByName(n.id)
    <3>1. Property(r).tag \in Names \cup Ids
      <4>1. Placed(r) /\ job[r].op \in Writes
        BY <2>1 DEF Inv, Placed, WriteSteps
      <4> QED
        BY <4>1, PropertyFacts DEF Inv
    <3>2. CASE Property(r).tag \in Ids
      BY <2>1, <2>3, <3>2 DEF WInv, Aimed
    <3>3. CASE Property(r).tag \in Names
      BY <2>3, <3>3 DEF GivenByName, Property
    <3> QED
      BY <3>1, <3>2, <3>3
  <2>8. \A v \in tx[r].values : v.id # n.id
    BY <2>5 DEF AllValues
  <2>9. n = NewValue(r, n.id, tag_id[r])
    BY <2>2, <2>3
  <2> QED
    BY <2>1, <2>4, <2>6, <2>7, <2>8, <2>9, PutValueWhole
<1> QED
  BY <1>1, <1>2

LEMMA ChangeValueWhole ==
  ASSUME Inv, WInv, NEW r \in Requests, ChangeValue(r), Inv'
  PROVE  WInv'
<1>1. /\ pc[r] = "change_value" /\ NextProperty(r, "find_tag")
      /\ UNCHANGED <<job, tag_id, tag_value_id, item, tag_definition, tag_value>>
  BY DEF ChangeValue, locals, tables
<1>2. CASE tag_value_id[r] \in IdsOf(Values(r))
  <2>1. PICK n : n = NewValue(r, tag_value_id[r], tag_id[r])
    OBVIOUS
  <2>2. /\ n.id = tag_value_id[r] /\ n.tag = tag_id[r] /\ n.item = Item(r) /\ n.type = Property(r).type
    BY <2>1 DEF NewValue
  <2>3. tx' = [tx EXCEPT ![r]["values"] = {v \in tx[r].values : v.id # n.id} \cup {n}]
    BY <1>2, <2>1, <2>2 DEF ChangeValue, Change
  <2>4. HasType(n.tag, n.type) /\ \A v \in AllValues : v.id = n.id => SamePair(v, n)
    BY <1>1, <2>2 DEF Inv, Aiming, SamePair
  <2>5. PICK old \in Values(r) : old.id = n.id
    BY <1>2, <2>2 DEF IdsOf
  <2>6. old \in AllValues /\ SamePair(old, n)
    BY <2>4, <2>5 DEF Values, AllValues
  <2>7. \A v \in tx[r].values : v.id = n.id =>
          v.tag = n.tag /\ (NamedOneWay(r) => job[r].props[v.by[2]].tag = Property(r).tag)
    BY <1>1, <2>2, <2>4 DEF WInv, Aimed, SamePair, AllValues
  <2>8. n = NewValue(r, n.id, tag_id[r])
    BY <2>1, <2>2
  <2> QED
    BY <1>1, <2>3, <2>4, <2>5, <2>6, <2>7, <2>8, PutValueWhole
<1>3. CASE tag_value_id[r] \notin IdsOf(Values(r))
  <2>1. UNCHANGED tx
    BY <1>3 DEF ChangeValue
  <2>2. /\ pc' = [pc EXCEPT ![r] = pc'[r]] /\ pc'[r] \in {"find_tag", "commit"}
        /\ at' = [at EXCEPT ![r] = at'[r]] /\ at'[r] \in Nat \ {0}
        /\ at[r] \in 1..Len(job[r].props)
        /\ (at'[r] = at[r] + 1 /\ pc'[r] = "find_tag")
             \/ (at'[r] = at[r] /\ at[r] = Len(job[r].props) /\ pc'[r] = "commit")
        /\ OthersStay(r) /\ Advances(r)
    BY <1>1, <2>1, NextPropertyWhole DEF Steps, WriteSteps
  <2>3. Shape(r) /\ AllValues' \subseteq AllValues
    BY <1>1, <2>1, <2>2, FewerRowsShape DEF AllTags, AllValues
  <2>4. job[r].op \in Updates /\ job[r].op \in Writes /\ job[r].props \in Seq(Properties)
    BY <1>1, JobFacts DEF WInv, Role, Updates, Writes, Inv
  <2>5. Own(r)'
    <3>1. tx[r].gone_tags = {}
      BY <1>1 DEF Inv, Placed
    <3>2. TypeOK'
      BY DEF Inv
    <3> QED
      BY <1>1, <2>1, <2>3, <2>4, <3>1, <3>2, OwnStays DEF tables
  <2>6. Role(r)' /\ Aimed(r)'
    BY <1>1, <2>2, <2>4 DEF Role, Aimed
  <2>7. SoFar(r)'
    <3>1. ASSUME NEW m \in DOMAIN job[r].props, m < at'[r] \/ pc'[r] = "commit",
                 NEW i, NEW tag, i = Item(r), tag = job[r].props[m].tag
          PROVE  Holds(r, m)' \/ ValueIsDeleted(i, tag)'
      <4>1. m < at[r] \/ m = at[r]
        <5>1. m \in Nat /\ m <= Len(job[r].props) /\ at[r] \in Nat
          BY <2>2, <2>4
        <5> QED
          BY <2>2, <3>1, <5>1
      <4>2. Holds(r, m) \/ ValueIsDeleted(i, tag)
        <5>1. CASE m < at[r]
          BY <1>1, <2>4, <3>1, <5>1 DEF WInv, SoFar, Steps
        <5>2. CASE m = at[r]
          BY <1>1, <1>3, <3>1, <5>2 DEF WInv, Aimed, Property
        <5> QED
          BY <4>1, <5>1, <5>2
      <4>3. Holds(r, m) => Holds(r, m)'
        BY <2>1, <2>3, HoldsStays
      <4>4. ValueIsDeleted(i, tag) => ValueIsDeleted(i, tag)'
        BY <2>2, DeletedStays DEF Advances
      <4> QED
        BY <4>2, <4>3, <4>4
    <3>2. job' = job /\ Item(r)' = Item(r)
      BY <1>1 DEF Item
    <3> QED
      BY <3>1, <3>2 DEF SoFar, ValueIsDeleted, TagIsDeleted, Property
  <2> QED
    BY <1>1, <2>3, <2>5, <2>6, <2>7, OthersStayWhole DEF tables, Inv
<1> QED
  BY <1>2, <1>3

LEMMA DeleteValueWhole ==
  ASSUME Inv, WInv, NEW r \in Requests, DeleteValue(r), Inv'
  PROVE  WInv'
<1>1. /\ pc[r] = "delete_value" /\ NextProperty(r, "find_row")
      /\ tx' = [tx EXCEPT ![r]["gone_values"] =
                  tx[r].gone_values \cup (IdsOf(Values(r)) \cap {tag_value_id[r]})]
      /\ UNCHANGED <<job, tag_id, tag_value_id, item, tag_definition, tag_value>>
  BY DEF DeleteValue, Change, locals, tables
<1>2. /\ job[r].op = "delete_item_tag" /\ job[r].op \notin Updates
      /\ tx[r].gone_tags = {} /\ tx[r].tags = {} /\ tx[r].values = {} /\ tx[r].items = {}
  BY <1>1 DEF WInv, Role, Own, Updates, Inv, Placed
<1>3. /\ tx'[r] = [tx[r] EXCEPT !["gone_values"] =
                     tx[r].gone_values \cup (IdsOf(Values(r)) \cap {tag_value_id[r]})]
      /\ \A q \in Requests \ {r} : tx'[q] = tx[q]
  BY <1>1 DEF Inv, TypeOK
<1>4. /\ tx'[r].tags = {} /\ tx'[r].values = {} /\ tx'[r].items = {} /\ tx'[r].gone_tags = {}
      /\ tx'[r].gone_values \subseteq tx[r].gone_values \cup {tag_value_id[r]}
  <2>1. tx[r] \in Transactions
    BY RowFacts DEF Inv
  <2> QED
    BY <1>2, <1>3, <2>1 DEF Transactions
<1>5. /\ pc' = [pc EXCEPT ![r] = pc'[r]] /\ pc'[r] \in {"find_row", "commit"}
      /\ at[r] \in 1..Len(job[r].props)
      /\ OthersStay(r) /\ Advances(r)
  BY <1>1, <1>3, NextPropertyWhole DEF Steps, WriteSteps
<1>6. Shape(r) /\ AllValues' \subseteq AllValues
  BY <1>1, <1>2, <1>4, <1>5, FewerRowsShape DEF AllTags, AllValues
<1>7. at[r] \in DOMAIN job[r].props
  <2>1. job[r].props \in Seq(Properties)
    BY <1>2, JobFacts DEF Writes, Inv
  <2> QED
    BY <1>5, <2>1
<1>8. ASSUME NEW id \in tx'[r].gone_values
      PROVE  \E n \in DOMAIN job[r].props : Takes(r, id, n)'
  <2>1. id \in Ids
    BY <1>4, <1>8, RowFacts DEF Inv, TypeOK
  <2>2. PICK n \in DOMAIN job[r].props : Takes(r, id, n)
    <3>1. CASE id \in tx[r].gone_values
      BY <3>1 DEF WInv, Own
    <3>2. CASE id = tag_value_id[r]
      BY <1>1, <1>7, <3>2 DEF WInv, Aimed
    <3> QED
      BY <1>4, <3>1, <3>2
  <2> QED
    BY <1>6, <2>1, <2>2, TakesStays
<1>9. Own(r)'
  BY <1>1, <1>2, <1>4, <1>8 DEF Own
<1>10. Role(r)' /\ Aimed(r)' /\ SoFar(r)'
  BY <1>1, <1>2, <1>5 DEF Role, Aimed, SoFar
<1> QED
  BY <1>1, <1>6, <1>9, <1>10, OthersStayWhole DEF tables, Inv

LEMMA DeleteDefinitionWhole ==
  ASSUME Inv, WInv, NEW r \in Requests, DeleteDefinition(r), Inv'
  PROVE  WInv'
<1> DEFINE gone == IdsOf(tag_definition) \cap {Property(r).tag}
<1>1. /\ pc[r] = "delete_tag" /\ pc' = [pc EXCEPT ![r] = "commit"]
      /\ tx' = [tx EXCEPT ![r]["gone_tags"] = gone]
      /\ UNCHANGED <<at, job, tag_id, tag_value_id, item, tag_definition, tag_value>>
  BY DEF DeleteDefinition, Change, Goto, locals, tables
<1>2. /\ job[r].op = "delete_tag" /\ job[r].op \notin Updates
      /\ tx[r].gone_values = {} /\ tx[r].tags = {} /\ tx[r].values = {} /\ tx[r].items = {}
  BY <1>1 DEF WInv, Role, Own, Updates, Inv, Placed
<1>3. /\ pc'[r] = "commit"
      /\ tx'[r] = [tx[r] EXCEPT !["gone_tags"] = gone]
      /\ \A q \in Requests \ {r} : tx'[q] = tx[q]
  BY <1>1 DEF Inv, TypeOK
<1>4. /\ tx'[r].tags = {} /\ tx'[r].values = {} /\ tx'[r].items = {} /\ tx'[r].gone_values = {}
      /\ tx'[r].gone_tags = gone
  <2>1. tx[r] \in Transactions
    BY RowFacts DEF Inv
  <2> HIDE DEF gone
  <2> QED
    BY <1>2, <1>3, <2>1 DEF Transactions
<1>5. OthersStay(r) /\ Advances(r)
  BY <1>1, <1>3 DEF OthersStay, Advances, Inv, TypeOK, TagSteps, ValueSteps, Final
<1>6. Shape(r) /\ AllValues' \subseteq AllValues
  BY <1>1, <1>2, <1>4, <1>5, FewerRowsShape DEF AllTags, AllValues
<1>7. Own(r)'
  BY <1>1, <1>2, <1>4 DEF Own, Property
<1>8. Role(r)' /\ Aimed(r)' /\ SoFar(r)'
  BY <1>1, <1>2, <1>3 DEF Role, Aimed, SoFar
<1> QED
  BY <1>1, <1>6, <1>7, <1>8, OthersStayWhole DEF tables, Inv

(* A value that a commit takes away, and puts no other in its place, was   *)
(* deleted under the name of its tag.                                      *)
LEMMA ValueGone ==
  ASSUME Inv, WInv, NEW r \in Requests, pc[r] = "commit", pc'[r] \in Final, Shape(r), tag_value' = Values(r),
         NEW v \in tag_value, NEW tag \in Names \cup Ids, Named(v.tag, tag), NEW i, i = v.item
  PROVE  ValueIsDeleted(i, tag)' \/ \E w \in tag_value' : w.id = v.id /\ SamePair(w, v)
<1>1. CASE v.id \notin tx[r].gone_values
  <2>1. CASE v.id \in IdsOf(tx[r].values)
    <3>1. PICK w \in tx[r].values : w.id = v.id
      BY <2>1 DEF IdsOf
    <3>2. SamePair(w, v)
      BY <3>1 DEF Inv, IdsApart, AllValues
    <3> QED
      BY <3>1, <3>2 DEF Values
  <2>2. CASE v.id \notin IdsOf(tx[r].values)
    BY <1>1, <2>2 DEF Values, SamePair
  <2> QED
    BY <2>1, <2>2
<1>2. CASE v.id \in tx[r].gone_values
  <2>1. PICK n \in DOMAIN job[r].props : job[r].op = "delete_item_tag" /\ Takes(r, v.id, n)
    BY <1>2 DEF WInv, Own
  <2>2. v.item = job[r].item /\ Named(v.tag, job[r].props[n].tag)
    BY <2>1 DEF Takes, Item, AllValues
  <2>3. job[r].props[n].tag \in Names
    BY <2>1, JobsAssumption DEF Inv, TypeOK
  <2>4. tag \in Names => TagIsDeleted(tag) \/ job[r].props[n].tag = tag
    <3>1. CASE TagGone(v.tag)
      BY <3>1, NamesAssumption DEF TagGone, TagIsDeleted
    <3>2. ASSUME NEW t \in tag_definition, t.id = v.tag
          PROVE  tag \in Names => job[r].props[n].tag = tag
      BY <2>2, <2>3, <3>2, NamesAssumption DEF Named, AllTags
    <3> QED
      BY <3>1, <3>2 DEF WInv, Tables
  <2>5. TagIsDeleted(tag) => TagIsDeleted(tag)'
    BY DeletedStays DEF Advances, Shape
  <2>6. job' = job
    BY DEF Shape, OthersStay
  <2> QED
    BY <2>1, <2>2, <2>4, <2>5, <2>6 DEF ValueIsDeleted
<1> QED
  BY <1>1, <1>2

(* A tag that a commit takes away was deleted. *)
LEMMA TagStaysOrGone ==
  ASSUME Inv, WInv, NEW r \in Requests, pc[r] = "commit", pc'[r] \in Final, Shape(r), tag_definition' = Tags(r),
         at' = at, NEW id, TagGone(id) \/ \E t \in tag_definition \cup tx[r].tags : t.id = id
  PROVE  TagGone(id)' \/ \E t \in tag_definition' : t.id = id
<1>1. job' = job /\ Property(r)' = Property(r)
  BY DEF Shape, OthersStay, Property
<1>2. CASE TagGone(id)
  BY <1>2, DeletedStays DEF Advances, Shape
<1>3. ASSUME NEW t \in tag_definition \cup tx[r].tags, t.id = id
      PROVE  TagGone(id)' \/ t \in tag_definition'
  <2>1. CASE t \in Tags(r)
    BY <2>1
  <2>2. CASE t \notin Tags(r)
    <3>1. id \in tx[r].gone_tags
      BY <1>3, <2>2 DEF Tags
    <3>2. job[r].op = "delete_tag" /\ Property(r).tag = id
      BY <3>1 DEF WInv, Own
    <3> QED
      BY <1>1, <3>2 DEF TagGone
  <2> QED
    BY <2>1, <2>2
<1> QED
  BY <1>2, <1>3

LEMMA CommitWhole ==
  ASSUME Inv, WInv, NEW r \in Requests, Commit(r), Inv'
  PROVE  WInv'
<1>1. /\ pc[r] = "commit" /\ tx' = [tx EXCEPT ![r] = NoChange]
      /\ item' = item \cup tx[r].items /\ tag_definition' = Tags(r) /\ tag_value' = Values(r)
      /\ UNCHANGED <<at, job, tag_id, tag_value_id>>
      /\ pc' = [pc EXCEPT ![r] = pc'[r]] /\ pc'[r] \in Final
  BY DEF Commit, End, Goto, locals, Inv, TypeOK, Final
<1>2. /\ tx'[r] = NoChange /\ \A q \in Requests \ {r} : tx'[q] = tx[q]
  BY <1>1 DEF Inv, TypeOK
<1>3. OthersStay(r) /\ Advances(r)
  BY <1>1 DEF OthersStay, Advances, Inv, TypeOK, TagSteps, ValueSteps, Final
<1>4. Shape(r) /\ AllTags' \subseteq AllTags /\ AllValues' \subseteq AllValues
  <2>1. tag_definition' \subseteq AllTags /\ tag_value' \subseteq AllValues
    BY <1>1 DEF Tags, Values, AllTags, AllValues
  <2> QED
    BY <1>2, <1>3, <2>1, FewerRowsShape DEF NoChange
<1>5. \A id : TagGone(id) \/ (\E t \in tag_definition \cup tx[r].tags : t.id = id) =>
        TagGone(id)' \/ \E t \in tag_definition' : t.id = id
  BY <1>1, <1>4, TagStaysOrGone
<1>6. \A v \in AllValues : \A tag : Named(v.tag, tag) => Named(v.tag, tag)'
  BY <1>4, TagsAreGiven, TagStays DEF Shape
<1>7. ASSUME NEW v \in tag_value, NEW tag \in Names \cup Ids, Named(v.tag, tag), NEW i, i = v.item
      PROVE  ValueIsDeleted(i, tag)' \/ \E w \in tag_value' : w.id = v.id /\ SamePair(w, v)
  BY <1>1, <1>4, <1>7, ValueGone
<1>8. ASSUME NEW q \in Requests, job[q].op \in Writes, NEW n \in DOMAIN job[q].props
      PROVE  job[q].props[n].tag \in Names \cup Ids
  <2>1. job[q].props[n] \in Properties
    BY <1>8, JobFacts DEF Inv
  <2> QED
    BY <2>1 DEF Properties
<1>9. ASSUME NEW i \in item \cap Requests PROVE Whole(i)'
  <2>1. Whole(i) /\ pc'[i] \in Final /\ job[i].op \in Writes
    BY <1>1, <1>9 DEF WInv, Tables, Whole, Writes, OthersStay, Inv, TypeOK
  <2>2. ASSUME NEW n \in DOMAIN job[i].props, NEW tag, tag = job[i].props[n].tag
        PROVE  ValueIsDeleted(i, tag)' \/ \E v \in tag_value' : v.item = i /\ Named(v.tag, tag)'
    <3>1. CASE ValueIsDeleted(i, tag)
      BY <1>3, <3>1, DeletedStays DEF Advances
    <3>2. ASSUME NEW v \in tag_value, v.item = i, Named(v.tag, tag)
          PROVE  ValueIsDeleted(i, tag)' \/ \E w \in tag_value' : w.item = i /\ Named(w.tag, tag)'
      <4>1. tag \in Names \cup Ids
        BY <1>8, <2>1, <2>2
      <4>2. ValueIsDeleted(i, tag)' \/ \E w \in tag_value' : SamePair(w, v)
        BY <1>7, <3>2, <4>1
      <4>3. Named(v.tag, tag)'
        BY <1>6, <3>2 DEF AllValues
      <4> QED
        BY <3>2, <4>2, <4>3 DEF SamePair, Named
    <3> QED
      BY <2>1, <2>2, <3>1, <3>2 DEF Whole
  <2> QED
    BY <1>1, <2>1, <2>2, SMTT(20) DEF Whole, ValueIsDeleted, TagIsDeleted, Property, Named
<1>10. ASSUME NEW i \in tx[r].items PROVE Whole(i)'
  <2>1. i = r /\ job[r].op = "add_item" /\ Item(r) = r
    BY <1>10 DEF WInv, Own, Item
  <2>2. ASSUME NEW n \in DOMAIN job[r].props, NEW tag, tag = job[r].props[n].tag
        PROVE  ValueIsDeleted(r, tag)' \/ \E v \in tag_value' : v.item = r /\ Named(v.tag, tag)'
    <3>1. Holds(r, n) \/ ValueIsDeleted(r, tag)
      BY <1>1, <2>1, <2>2 DEF WInv, SoFar, Updates, Steps
    <3>2. CASE ValueIsDeleted(r, tag)
      BY <1>3, <3>2, DeletedStays DEF Advances
    <3>3. CASE Holds(r, n)
      <4>1. PICK v \in tx[r].values : Named(v.tag, tag)
        BY <2>2, <3>3 DEF Holds
      <4>2. v.item = r /\ v \in tag_value' /\ v \in AllValues
        BY <1>1, <2>1, <4>1 DEF WInv, Own, Values, AllValues
      <4> QED
        BY <1>6, <4>1, <4>2
    <3> QED
      BY <3>1, <3>2, <3>3
  <2> QED
    BY <1>1, <2>1, <2>2 DEF Whole, ValueIsDeleted, TagIsDeleted, Property, Named
<1>11. Tables'
  <2>1. \A i \in item' \cap Requests : Whole(i)'
    BY <1>1, <1>9, <1>10
  <2>2. ASSUME NEW v \in tag_value' PROVE TagGone(v.tag)' \/ \E t \in tag_definition' : t.id = v.tag
    <3>1. CASE v \in tag_value
      BY <1>5, <3>1 DEF WInv, Tables
    <3>2. CASE v \in tx[r].values
      BY <1>5, <3>2 DEF WInv, Own, Known
    <3> QED
      BY <1>1, <3>1, <3>2 DEF Values
  <2>3. ASSUME NEW v \in AllValues' PROVE HasType(v.tag, v.type)' \/ GivenByName(v.id)'
    BY <1>1, <1>4 DEF WInv, Tables, HasType, GivenByName
  <2> QED
    BY <2>1, <2>2, <2>3 DEF Tables
<1>12. ASSUME NEW q \in Requests \ {r} PROVE Role(q)' /\ Own(q)' /\ Aimed(q)' /\ SoFar(q)'
  <2>1. pc'[q] = pc[q] /\ at'[q] = at[q] /\ tx'[q] = tx[q] /\ job' = job
    BY <1>3 DEF OthersStay
  <2>2. Role(q)' /\ Role(q)
    BY <2>1 DEF Role, WInv
  <2>3. \A id : Known(q, id) => Known(q, id)'
    BY <1>5, <2>1 DEF Known
  <2>4. Own(q)'
    <3>1. tx[q].tags # {} => job[q].op \in Updates \cup {"add_tag"}
      BY DEF WInv, Own
    <3>2. TypeOK'
      BY DEF Inv
    <3> QED
      BY <1>4, <2>1, <2>3, <3>1, <3>2, OwnStays
  <2>5. SoFar(q)'
    BY <1>4, <2>1, SoFarStays
  <2>6. ASSUME pc[q] = "change_value", tag_value_id[q] \in IdsOf(Values(q))
        PROVE  tag_value_id[q] \in IdsOf(Values(q))' \/ ValueIsDeleted(Item(q), Property(q).tag)'
    <3>1. PICK v \in Values(q) : v.id = tag_value_id[q]
      BY <2>6 DEF IdsOf
    <3>2. CASE v \in Values(q)'
      BY <1>1, <3>1, <3>2 DEF IdsOf
    <3>3. CASE v \notin Values(q)'
      <4>1. v \in tag_value /\ v.id \notin tx[q].gone_values \cup IdsOf(tx[q].values) /\ v \in AllValues
        BY <2>1, <3>3 DEF Values, AllValues
      <4>2. PICK i, tag : i = v.item /\ tag = Property(q).tag
        OBVIOUS
      <4>3. v.tag = tag_id[q] /\ i = Item(q) /\ Named(v.tag, tag)
        BY <2>6, <3>1, <4>1, <4>2 DEF Inv, Aiming, WInv, Aimed
      <4>4. tag \in Names \cup Ids
        <5>1. Placed(q) /\ job[q].op \in Writes
          BY <2>6 DEF Inv, Placed, WriteSteps
        <5> QED
          BY <4>2, <5>1, PropertyFacts DEF Inv
      <4>5. CASE ValueIsDeleted(i, tag)'
        <5>1. Item(q)' = i /\ Property(q)'.tag = tag
          BY <2>1, <4>2, <4>3 DEF Item, Property
        <5> QED
          BY <4>5, <5>1 DEF ValueIsDeleted, TagIsDeleted
      <4>6. ASSUME NEW w \in tag_value', w.id = v.id PROVE v.id \in IdsOf(Values(q))'
        BY <2>1, <4>1, <4>6 DEF Values, IdsOf
      <4> QED
        BY <1>1, <1>7, <3>1, <4>1, <4>2, <4>3, <4>4, <4>5, <4>6
    <3> QED
      BY <3>2, <3>3
  <2>7. Aimed(q)'
    BY <1>4, <2>3, <2>6, AimedStays
  <2> QED
    BY <2>2, <2>4, <2>5, <2>7
<1>13. Role(r)' /\ Own(r)' /\ Aimed(r)' /\ SoFar(r)'
  BY <1>1, <1>2 DEF Role, Own, Aimed, SoFar, NoChange, Final, Steps
<1> QED
  BY <1>11, <1>12, <1>13 DEF WInv

-----------------------------------------------------------------------------
(* What is stored *)

LEMMA WInvInit == ReaderInit => WInv
<1> SUFFICES ASSUME Init PROVE WInv
  BY DEF ReaderInit
<1>1. \A r \in Requests : pc[r] = "idle" /\ at[r] = 1 /\ tx[r] = NoChange
  BY DEF Init
<1>2. AllTags = tag_definition /\ AllValues = tag_value
  <2>1. \A r \in Requests : tx[r].tags = {} /\ tx[r].values = {}
    BY <1>1 DEF NoChange
  <2> QED
    BY <2>1 DEF AllTags, AllValues
<1>3. ASSUME NEW v \in tag_value
      PROVE  HasType(v.tag, v.type) /\ \E t \in tag_definition : t.id = v.tag
  <2>1. PICK n \in Names, t \in Types :
          /\ tag_definition = {[id |-> FirstId, name |-> n, type |-> t]}
          /\ tag_value \subseteq [id : {FirstId}, tag : {FirstId}, item : Items, type : {t}, by : {FirstId}]
    BY <1>3 DEF Init
  <2>2. v.tag = FirstId /\ v.type = t
    BY <2>1
  <2> QED
    BY <1>2, <2>1, <2>2 DEF HasType
<1>4. Tables
  <2>1. item \cap Requests = {}
    BY EarlierAssumption DEF Init
  <2> QED
    BY <1>2, <1>3, <2>1 DEF Tables
<1>5. ASSUME NEW r \in Requests PROVE Role(r) /\ Own(r) /\ Aimed(r) /\ SoFar(r)
  BY <1>1 DEF Role, Own, Aimed, SoFar, NoChange, Steps
<1> QED
  BY <1>4, <1>5 DEF WInv

LEMMA FailWhole ==
  ASSUME Inv, WInv, NEW r \in Requests, Fail(r), pc[r] \notin Final
  PROVE  WInv'
  BY EndWhole DEF Fail

LEMMA WInvStep == Inv /\ WInv /\ [Next]_allvars => WInv'
<1> SUFFICES ASSUME Inv, WInv, [Next]_allvars PROVE WInv'
  OBVIOUS
<1>1. Inv'
  BY InvStep
<1>2. CASE UNCHANGED allvars
  <2>1. UNCHANGED <<pc, job, at, tag_id, tag_value_id, tx, item, tag_definition, tag_value>>
    <3>1. UNCHANGED vars
      BY <1>2 DEF allvars
    <3> QED
      BY <3>1 DEF vars
  <2>2. Tables'
    <3>1. AllTags' = AllTags /\ AllValues' = AllValues
      BY <2>1 DEF AllTags, AllValues
    <3>2. \A i : Whole(i) => Whole(i)'
      BY <2>1, <3>1 DEF Whole, ValueIsDeleted, TagIsDeleted, Property, Named
    <3>3. \A id : TagGone(id) => TagGone(id)'
      BY <2>1 DEF TagGone, Property
    <3>4. \A id, type : HasType(id, type) => HasType(id, type)'
      BY <3>1 DEF HasType
    <3>5. \A id : GivenByName(id) => GivenByName(id)'
      BY <2>1 DEF GivenByName
    <3> QED
      BY <2>1, <3>1, <3>2, <3>3, <3>4, <3>5 DEF WInv, Tables
  <2>3. ASSUME NEW r \in Requests PROVE Role(r)' /\ Own(r)'
    <3>1. Role(r)'
      BY <2>1 DEF WInv, Role
    <3>2. Own(r)
      BY DEF WInv
    <3>3. Own(r)'
      <4>1. AllTags' = AllTags /\ AllValues' = AllValues
        BY <2>1 DEF AllTags, AllValues
      <4>2. \A id, n : Takes(r, id, n) => Takes(r, id, n)'
        BY <2>1, <4>1 DEF Takes, GivenTo, Committed, Named, Item
      <4>3. \A id : Known(r, id) => Known(r, id)'
        BY <2>1 DEF Known, TagGone, Property
      <4> QED
        BY <2>1, <3>2, <4>1, <4>2, <4>3 DEF Own, Named, Item, Property
    <3> QED
      BY <3>1, <3>3
  <2>4. ASSUME NEW r \in Requests PROVE Aimed(r)'
    <3>1. Aimed(r)
      BY DEF WInv
    <3>2. AllTags' = AllTags /\ AllValues' = AllValues /\ Property(r)' = Property(r) /\ Item(r)' = Item(r)
          /\ NamedOneWay(r)' = NamedOneWay(r) /\ IdsOf(Values(r))' = IdsOf(Values(r))
      BY <2>1 DEF AllTags, AllValues, Property, Item, NamedOneWay, Values, IdsOf
    <3>3. pc'[r] \in {"find_value", "insert_value", "change_value"} =>
            Named(tag_id[r], Property(r).tag)' /\ Known(r, tag_id[r])'
      <4>1. Named(tag_id[r], Property(r).tag) /\ Property(r).tag = Property(r)'.tag /\ tag_id[r] = tag_id'[r] =>
              Named(tag_id[r], Property(r).tag)'
        BY <3>2 DEF Named
      <4>2. Known(r, tag_id[r]) => Known(r, tag_id[r])'
        BY <2>1 DEF Known, TagGone, Property
      <4> QED
        BY <2>1, <3>1, <3>2, <4>1, <4>2 DEF Aimed
    <3>4. pc'[r] \in {"find_value", "insert_value"} /\ Property(r)'.tag \in Ids =>
            HasType(tag_id[r], Property(r).type)'
      BY <2>1, <3>1, <3>2 DEF Aimed, HasType
    <3>5. pc'[r] = "change_value" =>
            (tag_value_id[r] \in IdsOf(Values(r)) \/ ValueIsDeleted(Item(r), Property(r).tag))'
      BY <2>1, <3>1, <3>2 DEF Aimed, ValueIsDeleted, TagIsDeleted, Property
    <3>6. pc'[r] = "delete_value" => Takes(r, tag_value_id[r], at[r])'
      BY <2>1, <3>1, <3>2 DEF Aimed, Takes, GivenTo, Committed, Named
    <3> QED
      BY <2>1, <3>1, <3>2, <3>3, <3>4, <3>5, <3>6 DEF Aimed
  <2>5. ASSUME NEW r \in Requests PROVE SoFar(r)'
    <3>1. SoFar(r)
      BY DEF WInv
    <3>2. AllTags' = AllTags
      BY <2>1 DEF AllTags
    <3>3. \A n : Holds(r, n) => Holds(r, n)'
      BY <2>1, <3>2 DEF Holds, Named, NamedOneWay
    <3> QED
      BY <2>1, <3>1, <3>3 DEF SoFar, ValueIsDeleted, TagIsDeleted, Item, Property
  <2> QED
    BY <2>2, <2>3, <2>4, <2>5 DEF WInv
<1>3. ASSUME NEW r \in Requests, Start(r) PROVE WInv'
  <2>1. CASE AddItem(r)
    BY <2>1, BeginWhole DEF AddItem
  <2>2. CASE UpdateItemTag(r)
    BY <2>2, BeginWhole DEF UpdateItemTag
  <2>3. CASE DeleteItemTag(r)
    BY <2>3, BeginWhole DEF DeleteItemTag
  <2>4. CASE AddTag(r)
    BY <2>4, BeginWhole DEF AddTag
  <2>5. CASE DeleteTag(r)
    BY <2>5, BeginWhole DEF DeleteTag
  <2> QED
    BY <1>3, <2>1, <2>2, <2>3, <2>4, <2>5 DEF Start
<1>4. ASSUME NEW r \in Requests, Step(r) PROVE WInv'
  BY <1>1, <1>4, CreateItemWhole, CheckTagIdWhole, SearchTagWhole, DefineTagWhole, FindValueWhole, InsertValueWhole,
     ChangeValueWhole, FindRowWhole, DeleteValueWhole, CheckUsageWhole, DeleteDefinitionWhole, CommitWhole
     DEF Step
<1>5. ASSUME NEW r \in Requests, Abort(r) PROVE WInv'
  BY <1>5, FailWhole DEF Abort, Steps, Final
<1>6. ASSUME BreakDeadlock PROVE WInv'
  <2>1. PICK r \in Requests : Blockers(r) # {} /\ Fail(r)
    BY <1>6 DEF BreakDeadlock, Deadlocked
  <2>2. pc[r] \notin Final
    BY <2>1 DEF Blockers, Final
  <2> QED
    BY <2>1, <2>2, FailWhole
<1>7. ASSUME NEW r \in Requests, get_item(r) \/ get_all_item(r) \/ get_all_tag(r) PROVE WInv'
  <2>1. CASE get_item(r)
    BY <2>1, BeginWhole DEF get_item
  <2>2. CASE get_all_item(r)
    BY <2>2, BeginWhole DEF get_all_item
  <2>3. CASE get_all_tag(r)
    BY <2>3, BeginWhole DEF get_all_tag
  <2> QED
    BY <1>7, <2>1, <2>2, <2>3
<1>8. ASSUME NEW r \in Requests, Read(r) PROVE WInv'
  BY <1>8, ReadWhole
<1> QED
  BY <1>2, <1>3, <1>4, <1>5, <1>6, <1>7, <1>8 DEF Next, Write

(* Each transaction holds what it is done with, and the tables what was added. *)
LEMMA WInvHolds == Spec => [](Inv /\ WInv)
<1>1. Inv /\ WInv /\ [Next]_allvars => (Inv /\ WInv)'
  BY InvStep, WInvStep
<1> QED
  BY <1>1, InvInit, WInvInit, PTL DEF Spec

(***************************************************************************)
(* "Ok" means that each property is the value of its tag on the item, or   *)
(* that a request deleted that value meanwhile: a commit puts into the     *)
(* table what SoFar says the transaction holds (update_tags_on_item).      *)
(***************************************************************************)
THEOREM OkIsStored == Spec => AcknowledgedIsStored
<1> DEFINE Kept ==
      \A r \in Requests :
        /\ job[r].op \in {"add_item", "update_item_tag"}
        /\ NamedOneWay(r)
        /\ pc[r] # "ok" /\ pc'[r] = "ok"
        => \A n \in DOMAIN job[r].props : Stored(r, n)' \/ ValueIsDeleted(Item(r), job[r].props[n].tag)
<1>1. ASSUME Inv, WInv, NEW r \in Requests, Commit(r), job[r].op \in Updates, NamedOneWay(r),
             NEW n \in DOMAIN job[r].props, ~ValueIsDeleted(Item(r), job[r].props[n].tag)
      PROVE  Stored(r, n)'
  <2>1. pc[r] = "commit" /\ tag_value' = Values(r) /\ UNCHANGED job
    BY <1>1 DEF Commit, End, locals
  <2>2. Holds(r, n)
    BY <1>1, <2>1 DEF WInv, SoFar, Steps
  <2>3. PICK v \in tx[r].values : v.by[2] >= n /\ job[r].props[v.by[2]].tag = job[r].props[n].tag
    BY <1>1, <2>2 DEF Holds
  <2>4. v.by[1] = r /\ v.by[2] \in DOMAIN job[r].props /\ v.item = Item(r)
    BY <1>1, <2>3 DEF WInv, Own
  <2>5. v.by = <<r, v.by[2]>>
    <3>1. v.by \in Ids
      BY <1>1, <2>3, RowFacts DEF Inv, ValueRows
    <3> QED
      BY <2>4, <3>1 DEF Ids
  <2>6. v.by[2] \in n..Len(job[r].props)
    <3>1. job[r].props \in Seq(Properties)
      BY <1>1, JobFacts DEF Inv, Updates, Writes
    <3> QED
      BY <1>1, <2>3, <2>4, <3>1
  <2>7. v \in tag_value' /\ Item(r)' = Item(r)
    BY <2>1, <2>3 DEF Values, Item
  <2> QED
    BY <2>1, <2>3, <2>4, <2>5, <2>6, <2>7 DEF Stored
<1>2. Inv /\ WInv /\ [Next]_allvars => [Kept]_vars
  <2> SUFFICES ASSUME Inv, WInv, Next, NEW r \in Requests, pc[r] # "ok", pc'[r] = "ok" PROVE Commit(r)
    BY <1>1 DEF allvars, Updates
  <2>1. ASSUME NEW q \in Requests, NEW step \in Steps \cup {"error"}, Goto(q, step) PROVE FALSE
    BY <2>1 DEF Goto, Inv, TypeOK, Steps
  <2>2. ASSUME NEW q \in Requests, Fail(q) \/ Abort(q) PROVE FALSE
    BY <2>1, <2>2 DEF Fail, Abort, End
  <2>3. ASSUME NEW q \in Requests, NEW step \in Steps, NEW op, Begin(q, op, step) PROVE FALSE
    BY <2>1, <2>3 DEF Begin, End
  <2>4. ASSUME NEW q \in Requests, NEW step \in Steps, NextProperty(q, step) PROVE FALSE
    BY <2>1, <2>4 DEF NextProperty, Steps
  <2>5. ASSUME NEW q \in Requests, Start(q) PROVE FALSE
    BY <2>3, <2>5 DEF Start, AddItem, UpdateItemTag, DeleteItemTag, AddTag, DeleteTag, Steps
  <2>6. ASSUME NEW q \in Requests, Step(q), ~Commit(q) PROVE FALSE
    BY <2>1, <2>2, <2>4, <2>6 DEF Step, CreateItem, CheckTagId, SearchTag, DefineTag, FindValue, InsertValue,
                                  ChangeValue, FindRow, DeleteValue, CheckUsage, DeleteDefinition, Steps
  <2>7. ASSUME NEW q \in Requests, get_item(q) \/ get_all_item(q) \/ get_all_tag(q) \/ Read(q) PROVE FALSE
    BY <2>1, <2>2, <2>3, <2>7 DEF get_item, get_all_item, get_all_tag, Read, FindItems, FindProperties, FindTags, Steps
  <2>8. PICK q \in Requests : Commit(q)
    BY <2>2, <2>5, <2>6, <2>7 DEF Next, Write, BreakDeadlock, Deadlocked
  <2> QED
    BY <2>8 DEF Commit, End, Goto, Inv, TypeOK
<1> QED
  BY <1>2, WInvHolds, PTL DEF Spec, AcknowledgedIsStored

-----------------------------------------------------------------------------
(* What is read *)

Less == {p \in Nat \X Nat : p[1] < p[2]}

(* Induction over a set: the library's theorem is about an operator. *)
LEMMA SetInduction ==
  ASSUME NEW T \in SUBSET Nat, 0 \in T, \A n \in T : n + 1 \in T
  PROVE  T = Nat
<1> SUFFICES ASSUME Nat \ T # {} PROVE FALSE
  OBVIOUS
<1>1. IsWellFoundedOn(Less, Nat)
  BY NatLessThanWellFounded DEF OpToRel, Less
<1>2. PICK x \in Nat \ T : \A y \in Nat \ T : <<y, x>> \notin Less
  BY <1>1, WFMin
<1>3. x # 0 /\ x - 1 \in Nat /\ x - 1 < x
  BY <1>2
<1>4. x - 1 \in T
  BY <1>2, <1>3 DEF Less
<1> QED
  BY <1>2, <1>3, <1>4

(* The name at place n, if it is one of them, comes next. *)
SortedTurn(sorted, n, names) ==
  IF n = 0 THEN <<>>
  ELSE IF Alphabet[n] \in names THEN Append(sorted[n - 1], Alphabet[n]) ELSE sorted[n - 1]

LEMMA SortedExists ==
  ASSUME NEW names
  PROVE  \A n \in Nat : \E f : f = [k \in 0..n |-> SortedTurn(f, k, names)]
<1> DEFINE P(n) == \E f : f = [k \in 0..n |-> SortedTurn(f, k, names)]
           T == {n \in Nat : P(n)}
<1>1. 0 \in T
  <2> DEFINE f == [k \in 0..0 |-> <<>>]
  <2>1. f = [k \in 0..0 |-> SortedTurn(f, k, names)]
    BY DEF SortedTurn
  <2> HIDE DEF f
  <2>2. P(0)
    BY <2>1
  <2> QED
    BY <2>2
<1>2. ASSUME NEW n \in T PROVE n + 1 \in T
  <2>1. PICK f : f = [k \in 0..n |-> SortedTurn(f, k, names)]
    OBVIOUS
  <2> DEFINE g == [k \in 0..(n+1) |-> IF k = n + 1 THEN SortedTurn(f, n + 1, names) ELSE f[k]]
  <2>2. g = [k \in 0..(n+1) |-> SortedTurn(g, k, names)]
    <3>1. ASSUME NEW k \in 0..(n+1) PROVE g[k] = SortedTurn(g, k, names)
      <4>1. CASE k = n + 1
        BY <4>1 DEF SortedTurn
      <4>2. CASE k # n + 1
        <5>1. k \in 0..n /\ (k # 0 => k - 1 \in 0..n)
          BY <4>2
        <5>2. f[k] = SortedTurn(f, k, names)
          BY <2>1, <5>1
        <5> QED
          BY <4>2, <5>1, <5>2 DEF SortedTurn
      <4> QED
        BY <4>1, <4>2
    <3> QED
      BY <3>1
  <2> HIDE DEF g
  <2>3. P(n + 1)
    BY <2>2
  <2> QED
    BY <2>3
<1> HIDE DEF T
<1>3. T = Nat
  <2>1. T \subseteq Nat
    BY DEF T
  <2> QED
    BY <1>1, <1>2, <2>1, SetInduction
<1> QED
  BY <1>3 DEF T

(* What is sorted are the names, and nothing else. *)
LEMMA SortedNames ==
  ASSUME NEW names
  PROVE  Sorted(names) \in Seq(names)
<1>1. Len(Alphabet) \in Nat
  BY AlphabetAssumption
<1>2. PICK sorted : /\ sorted = [k \in 0..Len(Alphabet) |-> SortedTurn(sorted, k, names)]
                    /\ Sorted(names) = sorted[Len(Alphabet)]
  <2> DEFINE sorted == CHOOSE f : f = [n \in 0..Len(Alphabet) |->
                         IF n = 0 THEN <<>>
                         ELSE IF Alphabet[n] \in names THEN Append(f[n - 1], Alphabet[n]) ELSE f[n - 1]]
  <2>1. Sorted(names) = sorted[Len(Alphabet)]
    BY DEF Sorted
  <2>2. \E f : f = [k \in 0..Len(Alphabet) |-> SortedTurn(f, k, names)]
    BY <1>1, SortedExists
  <2>3. sorted = [k \in 0..Len(Alphabet) |-> SortedTurn(sorted, k, names)]
    BY <2>2 DEF SortedTurn
  <2> HIDE DEF sorted
  <2> QED
    BY <2>1, <2>3
<1> DEFINE T == {n \in Nat : n <= Len(Alphabet) => sorted[n] \in Seq(names)}
<1>3. 0 \in T
  BY <1>1, <1>2 DEF SortedTurn
<1>4. ASSUME NEW n \in T PROVE n + 1 \in T
  <2>1. CASE n + 1 <= Len(Alphabet)
    <3>1. sorted[n + 1] = SortedTurn(sorted, n + 1, names) /\ sorted[n] \in Seq(names)
      BY <1>1, <1>2, <2>1
    <3>2. n + 1 # 0 /\ (n + 1) - 1 = n
      OBVIOUS
    <3>3. sorted[n + 1] = IF Alphabet[n + 1] \in names THEN Append(sorted[n], Alphabet[n + 1]) ELSE sorted[n]
      BY <3>1, <3>2 DEF SortedTurn
    <3>4. ASSUME NEW s \in Seq(names), NEW x \in names PROVE Append(s, x) \in Seq(names)
      OBVIOUS
    <3>5. sorted[n + 1] \in Seq(names)
      <4>1. CASE Alphabet[n + 1] \in names
        BY <3>1, <3>3, <3>4, <4>1
      <4>2. CASE Alphabet[n + 1] \notin names
        BY <3>1, <3>3, <4>2
      <4> QED
        BY <4>1, <4>2
    <3> QED
      BY <3>5
  <2> QED
    BY <1>1, <2>1
<1> HIDE DEF T
<1>5. T = Nat
  <2>1. T \subseteq Nat
    BY DEF T
  <2> QED
    BY <1>3, <1>4, <2>1, SetInduction
<1> QED
  BY <1>1, <1>2, <1>5 DEF T

LEMMA PageNames ==
  ASSUME TypeOK, NEW r \in Requests, NEW names
  PROVE  Page(r, names) \in Seq(names)
<1> DEFINE sorted == Sorted(names)
           start == job[r].page * PageSize
           last == start + (IF Len(sorted) - start < PageSize THEN Len(sorted) - start ELSE PageSize)
<1>1. sorted \in Seq(names) /\ Len(sorted) \in Nat
  BY SortedNames
<1>2. job[r].page \in Nat /\ PageSize \in Nat
  BY JobFacts, PageSizeAssumption DEF AllJobs
<1>3. start \in Nat
  <2>1. \A m, n \in Nat : m * n \in Nat
    OBVIOUS
  <2> QED
    BY <1>2, <2>1
<1>4. Page(r, names) = SubSeq(sorted, start + 1, last)
  BY DEF Page
<1> HIDE DEF sorted, start
<1>5. last \in Int /\ last <= Len(sorted) /\ start + 1 >= 1
  BY <1>1, <1>2, <1>3
<1> HIDE DEF last
<1>6. \A i \in (start + 1)..last : sorted[i] \in names
  <2>1. \A i \in (start + 1)..last : i \in 1..Len(sorted)
    BY <1>1, <1>3, <1>5
  <2> QED
    BY <1>1, <2>1
<1>7. start + 1 \in Int
  BY <1>3
<1> QED
  BY <1>4, <1>5, <1>6, <1>7, SubSeqProperties

LEMMA ShownStays ==
  ASSUME NEW r \in Requests, OthersStay(r), pc[r] \notin Final, NEW properties, NEW i, ShowsTheTagsOf(properties, i)
  PROVE  ShowsTheTagsOf(properties, i)'
<1>1. job' = job
  BY DEF OthersStay
<1>2. ASSUME NEW n \in DOMAIN job[i].props, NEW tag, tag = job[i].props[n].tag
      PROVE  \/ \E p \in properties : tag \in {p.tag_id, p.tag_name}
             \/ TagIsDeleted(tag)' \/ ValueIsDeleted(i, tag)'
  <2>1. \/ \E p \in properties : tag \in {p.tag_id, p.tag_name}
        \/ TagIsDeleted(tag) \/ ValueIsDeleted(i, tag)
    BY <1>2 DEF ShowsTheTagsOf
  <2>2. TagIsDeleted(tag) => TagIsDeleted(tag)'
    BY DeletedStays
  <2>3. ValueIsDeleted(i, tag) => ValueIsDeleted(i, tag)'
    BY DeletedStays
  <2> QED
    BY <2>1, <2>2, <2>3
<1> QED
  BY <1>1, <1>2, SMTT(20) DEF ShowsTheTagsOf, ValueIsDeleted, TagIsDeleted, Property

LEMMA ToldStays ==
  ASSUME NEW r \in Requests, OthersStay(r), pc[r] \notin Final, item \subseteq item', NEW q \in Requests, Told(q),
         todo'[q] = todo[q], reply'[q] = reply[q], pc'[q] = "find_properties" => pc[q] = "find_properties"
  PROVE  Told(q)'
<1>1. job' = job
  BY DEF OthersStay
<1>2. \A i, properties : ShowsTheTagsOf(properties, i) => ShowsTheTagsOf(properties, i)'
  BY ShownStays
<1>3. ASSUME NEW k \in DOMAIN reply[q], reply[q][k].of \in Requests, NEW i, NEW properties,
             i = reply[q][k].of, properties = reply[q][k].properties, job[q].op # "get_all_tag"
      PROVE  ShowsTheTagsOf(properties, i)'
  BY <1>2, <1>3 DEF Told
<1>4. \A id : GivenByName(id)' <=> GivenByName(id)
  BY <1>1 DEF GivenByName
<1>5. job[q].op # "get_all_tag" =>
        \A k \in DOMAIN reply[q] : \A p \in reply[q][k].properties : p.value = {} => GivenByName(p.tag_value_id)'
  BY <1>4 DEF Told
<1>6. \A n \in DOMAIN todo'[q] : todo'[q][n] \in item'
  BY DEF Told
<1>7. todo'[q] \in Seq(AllItems) /\ reply'[q] \in Seq(Replies) /\ (pc'[q] = "find_properties" => todo'[q] # <<>>)
  BY DEF Told
<1> QED
  BY <1>1, <1>3, <1>5, <1>6, <1>7 DEF Told

Alone(r) ==
  OthersStay(r) /\ pc[r] \notin Final /\ item \subseteq item' /\ pc'[r] # "find_properties"

LEMMA BeginAlone ==
  ASSUME Inv, NEW r \in Requests, NEW op, NEW step, step # "find_properties", Begin(r, op, step)
  PROVE  Alone(r)
<1>1. pc[r] \notin Final /\ UNCHANGED <<item, job, at, tag_id, tag_value_id>>
  BY DEF Begin, End, locals, tables, Final
<1>2. \E s : s # "find_properties" /\ Goto(r, s)
  BY DEF Begin, End
<1>3. \A q \in Requests \ {r} : tx'[q] = tx[q]
  BY DEF Begin, End, Inv, TypeOK
<1> QED
  BY <1>1, <1>2, <1>3 DEF Alone, OthersStay, Goto, Inv, TypeOK

LEMMA WriteAlone ==
  ASSUME Inv, NEW r \in Requests, Start(r) \/ Step(r) \/ (Fail(r) /\ pc[r] \in Steps)
  PROVE  Alone(r)
<1>1. ASSUME pc[r] \notin Final, job' = job, item \subseteq item',
             NEW step, step # "find_properties", Goto(r, step),
             tag_id' = [tag_id EXCEPT ![r] = tag_id'[r]],
             tag_value_id' = [tag_value_id EXCEPT ![r] = tag_value_id'[r]],
             at' = [at EXCEPT ![r] = at'[r]],
             tx' = [tx EXCEPT ![r] = tx'[r]]
      PROVE  Alone(r)
  BY <1>1 DEF Alone, OthersStay, Goto, Inv, TypeOK
<1>2. /\ tag_id = [tag_id EXCEPT ![r] = tag_id[r]] /\ tag_value_id = [tag_value_id EXCEPT ![r] = tag_value_id[r]]
      /\ at = [at EXCEPT ![r] = at[r]] /\ tx = [tx EXCEPT ![r] = tx[r]]
  BY DEF Inv, TypeOK
<1>3. \A status : End(r, status) => /\ Goto(r, status) /\ tx' = [tx EXCEPT ![r] = tx'[r]]
                                    /\ UNCHANGED <<job, at, tag_id, tag_value_id>>
  BY DEF End, locals, Inv, TypeOK
<1>4. ASSUME Fail(r), pc[r] \notin Final PROVE Alone(r)
  BY <1>1, <1>2, <1>3, <1>4 DEF Fail, tables
<1>5. ASSUME NEW op, NEW step, step # "find_properties", Begin(r, op, step) PROVE Alone(r)
  BY <1>5, BeginAlone
<1>6. CASE Start(r)
  BY <1>5, <1>6 DEF Start, AddItem, UpdateItemTag, DeleteItemTag, AddTag, DeleteTag
<1>7. \A field, rows : Change(r, field, rows) => tx' = [tx EXCEPT ![r] = tx'[r]]
  BY DEF Change, Inv, TypeOK
<1>8. ASSUME NEW step, step # "find_properties", NextProperty(r, step)
      PROVE  at' = [at EXCEPT ![r] = at'[r]] /\ \E s : s # "find_properties" /\ Goto(r, s)
  BY <1>8 DEF NextProperty, Inv, TypeOK
<1>9. CASE Commit(r)
  <2>1. pc[r] \notin Final /\ item \subseteq item'
    BY <1>9 DEF Commit, Final
  <2>2. End(r, "ok") \/ End(r, "error")
    BY <1>9 DEF Commit
  <2> QED
    BY <1>1, <1>2, <1>3, <2>1, <2>2
<1>10. CASE Step(r) /\ ~Commit(r) /\ ~Fail(r)
  <2>1. pc[r] \notin Final /\ item' = item /\ job' = job
    BY <1>10 DEF Step, CreateItem, CheckTagId, SearchTag, DefineTag, FindValue, InsertValue,
                 ChangeValue, FindRow, DeleteValue, CheckUsage, DeleteDefinition, tables, locals, Final
  <2>2. CASE CreateItem(r) \/ CheckUsage(r) \/ DeleteDefinition(r)
    <3>1. PICK step : step # "find_properties" /\ Goto(r, step)
      BY <1>10, <2>2 DEF CreateItem, CheckUsage, DeleteDefinition
    <3>2. UNCHANGED <<at, tag_id, tag_value_id>> /\ tx' = [tx EXCEPT ![r] = tx'[r]]
      BY <1>10, <1>2, <1>7, <2>2 DEF CreateItem, CheckUsage, DeleteDefinition, locals
    <3> QED
      BY <1>1, <1>2, <2>1, <3>1, <3>2
  <2>3. CASE CheckTagId(r) \/ SearchTag(r) \/ DefineTag(r)
    <3>1. PICK step : step # "find_properties" /\ Goto(r, step)
      BY <1>10, <2>3 DEF CheckTagId, SearchTag, DefineTag
    <3>2. UNCHANGED <<at, tag_value_id>> /\ tx' = [tx EXCEPT ![r] = tx'[r]]
      BY <1>10, <1>2, <1>7, <2>3 DEF CheckTagId, SearchTag, DefineTag
    <3>3. tag_id' = [tag_id EXCEPT ![r] = tag_id'[r]]
      BY <1>10, <1>2, <2>3 DEF CheckTagId, SearchTag, DefineTag, Inv, TypeOK
    <3> QED
      BY <1>1, <1>2, <2>1, <3>1, <3>2, <3>3
  <2>4. CASE FindValue(r) \/ FindRow(r)
    <3>1. PICK step : step # "find_properties" /\ Goto(r, step)
      BY <1>10, <1>8, <2>4 DEF FindValue, FindRow
    <3>2. UNCHANGED <<tag_id, tx>> /\ at' = [at EXCEPT ![r] = at'[r]]
      BY <1>10, <1>2, <1>8, <2>4 DEF FindValue, FindRow, locals
    <3>3. tag_value_id' = [tag_value_id EXCEPT ![r] = tag_value_id'[r]]
      BY <1>10, <1>2, <2>4 DEF FindValue, FindRow, locals, Inv, TypeOK
    <3> QED
      BY <1>1, <1>2, <2>1, <3>1, <3>2, <3>3
  <2>5. CASE InsertValue(r) \/ ChangeValue(r) \/ DeleteValue(r)
    <3>1. PICK step : step # "find_properties" /\ Goto(r, step)
      BY <1>10, <1>8, <2>5 DEF InsertValue, ChangeValue, DeleteValue
    <3>2. UNCHANGED <<tag_id, tag_value_id>> /\ at' = [at EXCEPT ![r] = at'[r]]
      BY <1>10, <1>8, <2>5 DEF InsertValue, ChangeValue, DeleteValue, locals
    <3>3. tx' = [tx EXCEPT ![r] = tx'[r]]
      BY <1>10, <1>2, <1>7, <2>5 DEF InsertValue, ChangeValue, DeleteValue
    <3> QED
      BY <1>1, <1>2, <2>1, <3>1, <3>2, <3>3
  <2> QED
    BY <1>10, <2>2, <2>3, <2>4, <2>5 DEF Step
<1>11. CASE Fail(r)
  <2>1. pc[r] \notin Final
    BY <1>6, <1>11 DEF Step, CreateItem, CheckTagId, SearchTag, DefineTag, FindValue, InsertValue, ChangeValue, FindRow,
      DeleteValue, CheckUsage, DeleteDefinition, Commit, Start, AddItem, UpdateItemTag, DeleteItemTag, AddTag,
      DeleteTag, Begin, Steps, Final
  <2> QED
    BY <1>4, <1>11, <2>1
<1> QED
  BY <1>6, <1>9, <1>10, <1>11

(* What a reader sees of an item that is there *)
LEMMA ShowsWhole ==
  ASSUME Inv, WInv, NEW r \in Requests, job[r].op \in {"get_item", "get_all_item"}, pc[r] = "find_properties",
         NEW i \in item, NEW properties, properties = find_item_properties(r, i)
  PROVE  /\ properties \subseteq [tag_value_id : Ids, tag_id : Ids, tag_name : Names, value : SUBSET Ids]
         /\ i \in Requests => ShowsTheTagsOf(properties, i)
         /\ \A p \in properties : p.value = {} => GivenByName(p.tag_value_id)
<1>1. Values(r) = tag_value /\ Tags(r) = tag_definition
  <2>1. tx[r].tags = {} /\ tx[r].values = {} /\ tx[r].gone_tags = {} /\ tx[r].gone_values = {}
    BY DEF WInv, Own, Updates
  <2> QED
    BY <2>1 DEF Values, Tags, IdsOf
<1>2. \A p : p \in properties <=>
        \E v \in tag_value, t \in tag_definition : p = Shown(v, t) /\ v.item = i /\ v.tag = t.id
  <2>1. properties = {Shown(joined[1], joined[2]) : joined \in
                        {row \in tag_value \X tag_definition : row[1].item = i /\ row[1].tag = row[2].id}}
    BY <1>1 DEF find_item_properties
  <2>2. ASSUME NEW p \in properties
        PROVE  \E v \in tag_value, t \in tag_definition : p = Shown(v, t) /\ v.item = i /\ v.tag = t.id
    <3>1. PICK row \in tag_value \X tag_definition :
            p = Shown(row[1], row[2]) /\ row[1].item = i /\ row[1].tag = row[2].id
      BY <2>1
    <3> QED
      BY <3>1
  <2>3. ASSUME NEW v \in tag_value, NEW t \in tag_definition, v.item = i, v.tag = t.id
        PROVE  Shown(v, t) \in properties
    <3>1. /\ <<v, t>> \in {row \in tag_value \X tag_definition : row[1].item = i /\ row[1].tag = row[2].id}
          /\ <<v, t>>[1] = v /\ <<v, t>>[2] = t
      BY <2>3
    <3> QED
      BY <2>1, <3>1
  <2> QED
    BY <2>2, <2>3
<1>3. ASSUME NEW p \in properties
      PROVE  /\ p \in [tag_value_id : Ids, tag_id : Ids, tag_name : Names, value : SUBSET Ids]
             /\ p.value = {} => GivenByName(p.tag_value_id)
  <2>1. PICK v \in tag_value, t \in tag_definition : p = Shown(v, t) /\ v.item = i /\ v.tag = t.id
    BY <1>2
  <2>2. v \in ValueRows /\ t \in TagRows /\ v \in AllValues /\ t \in AllTags
    BY DEF Inv, TypeOK, AllValues, AllTags
  <2>3. p.tag_value_id = v.id /\ p.value = IF v.type = t.type THEN {v.by} ELSE {}
    BY <2>1 DEF Shown
  <2>4. p \in [tag_value_id : Ids, tag_id : Ids, tag_name : Names, value : SUBSET Ids]
    BY <2>1, <2>2 DEF Shown, ValueRows, TagRows
  <2>5. p.value = {} => GivenByName(v.id)
    BY <2>1, <2>2, <2>3 DEF WInv, Tables, HasType
  <2> QED
    BY <2>3, <2>4, <2>5
<1>4. ASSUME i \in Requests, NEW n \in DOMAIN job[i].props, NEW tag, tag = job[i].props[n].tag
      PROVE  \/ \E p \in properties : tag \in {p.tag_id, p.tag_name}
             \/ TagIsDeleted(tag) \/ ValueIsDeleted(i, tag)
  <2>1. Whole(i)
    BY <1>4 DEF WInv, Tables
  <2>2. tag \in Names \cup Ids
    <3>1. job[i].props[n] \in Properties
      BY <1>4, <2>1, JobFacts DEF Whole, Writes, Inv
    <3> QED
      BY <1>4, <3>1 DEF Properties
  <2>3. ASSUME NEW v \in tag_value, v.item = i, Named(v.tag, tag)
        PROVE  TagIsDeleted(tag) \/ \E p \in properties : tag \in {p.tag_id, p.tag_name}
    <3>1. CASE TagGone(v.tag)
      BY <2>3, <3>1 DEF TagGone, TagIsDeleted, Named
    <3>2. ASSUME NEW t \in tag_definition, t.id = v.tag
          PROVE  \E p \in properties : tag \in {p.tag_id, p.tag_name}
      <4>1. Shown(v, t) \in properties
        BY <1>2, <2>3, <3>2
      <4>2. Shown(v, t).tag_id = t.id /\ Shown(v, t).tag_name = t.name
        BY DEF Shown
      <4>3. tag \in {t.id, t.name}
        BY <2>3, <3>2 DEF Named, AllTags
      <4> QED
        BY <4>1, <4>2, <4>3
    <3> QED
      BY <3>1, <3>2 DEF WInv, Tables
  <2> QED
    BY <1>4, <2>1, <2>3 DEF Whole
<1> QED
  BY <1>3, <1>4 DEF ShowsTheTagsOf


LEMMA ReadAlone ==
  ASSUME Inv, NEW r \in Requests, pc[r] \in Steps, NEW step, Goto(r, step),
         UNCHANGED <<at, job, tag_id, tag_value_id, tx, item>>
  PROVE  OthersStay(r) /\ pc[r] \notin Final /\ item \subseteq item' /\ pc'[r] = step
  BY DEF OthersStay, Goto, Inv, TypeOK, Steps, Final

LEMMA FindItemsTold ==
  ASSUME Inv, NEW r \in Requests, Told(r), FindItems(r), ~Fail(r),
         todo = [q \in Requests |-> todo[q]]
  PROVE  Told(r)'
<1>1. /\ pc[r] = "find_items" /\ reply' = reply
      /\ \/ job[r].item \in item /\ todo' = [todo EXCEPT ![r] = <<job[r].item>>]
         \/ todo' = [todo EXCEPT ![r] = Page(r, item)]
      /\ Goto(r, IF todo'[r] = <<>> THEN "commit" ELSE "find_properties")
      /\ UNCHANGED <<at, job, tag_id, tag_value_id, tx, item, tag_definition, tag_value>>
  BY DEF FindItems, locals, tables
<1>2. todo'[r] \in Seq(item)
  <2>1. CASE job[r].item \in item /\ todo' = [todo EXCEPT ![r] = <<job[r].item>>]
    BY <2>1
  <2>2. CASE todo' = [todo EXCEPT ![r] = Page(r, item)]
    <3>1. todo'[r] = Page(r, item)
      BY <2>2
    <3> QED
      BY <3>1, PageNames DEF Inv
  <2> QED
    BY <1>1, <2>1, <2>2
<1>3. OthersStay(r) /\ pc[r] \notin Final /\ item' = item
  BY <1>1, ReadAlone DEF Steps
<1>4. pc'[r] = "find_properties" => todo'[r] # <<>>
  BY <1>1 DEF Goto, Inv, TypeOK
<1>5. job[r].op # "get_all_tag" =>
        \A k \in DOMAIN reply[r] :
          /\ \A i, shown : i = reply[r][k].of /\ shown = reply[r][k].properties /\ i \in Requests =>
               ShowsTheTagsOf(shown, i)'
          /\ \A p \in reply[r][k].properties : p.value = {} => GivenByName(p.tag_value_id)'
  <2>1. \A i, shown : ShowsTheTagsOf(shown, i) => ShowsTheTagsOf(shown, i)'
    BY <1>3, ShownStays
  <2>2. \A id : GivenByName(id)' <=> GivenByName(id)
    BY <1>1 DEF GivenByName
  <2> QED
    BY <2>1, <2>2 DEF Told
<1>6. todo'[r] \in Seq(AllItems) /\ \A n \in DOMAIN todo'[r] : todo'[r][n] \in item'
  <2>1. item \subseteq AllItems
    BY DEF Inv, TypeOK
  <2> QED
    BY <1>2, <1>3, <2>1
<1> QED
  BY <1>1, <1>4, <1>5, <1>6 DEF Told

LEMMA FindPropertiesTold ==
  ASSUME Inv, WInv, NEW r \in Requests, Told(r), FindProperties(r),
         todo = [q \in Requests |-> todo[q]], reply = [q \in Requests |-> reply[q]]
  PROVE  Told(r)'
<1>1. /\ pc[r] = "find_properties"
      /\ Goto(r, IF todo'[r] = <<>> THEN "commit" ELSE "find_properties")
      /\ UNCHANGED <<at, job, tag_id, tag_value_id, tx, item, tag_definition, tag_value>>
  BY DEF FindProperties, locals, tables
<1>2. PICK i, properties : i = Head(todo[r]) /\ properties = find_item_properties(r, i)
  OBVIOUS
<1>3. /\ todo'[r] = Tail(todo[r])
      /\ reply'[r] = Append(reply[r], [of |-> i, properties |-> properties])
  BY <1>2 DEF FindProperties
<1>4. todo[r] \in Seq(AllItems) /\ todo[r] # <<>> /\ reply[r] \in Seq(Replies)
      /\ \A n \in DOMAIN todo[r] : todo[r][n] \in item
  BY <1>1 DEF Told
<1>5. i \in item /\ i \in AllItems /\ todo'[r] \in Seq(AllItems) /\ \A n \in DOMAIN todo'[r] : todo'[r][n] \in item
  BY <1>2, <1>3, <1>4
<1>6. job[r].op \in {"get_item", "get_all_item"}
  BY <1>1 DEF WInv, Role
<1>7. /\ properties \subseteq [tag_value_id : Ids, tag_id : Ids, tag_name : Names, value : SUBSET Ids]
      /\ i \in Requests => ShowsTheTagsOf(properties, i)
      /\ \A p \in properties : p.value = {} => GivenByName(p.tag_value_id)
  BY <1>1, <1>2, <1>5, <1>6, ShowsWhole
<1>8. OthersStay(r) /\ pc[r] \notin Final /\ (pc'[r] = "find_properties" => todo'[r] # <<>>)
  BY <1>1, ReadAlone DEF Steps
<1>9. [of |-> i, properties |-> properties] \in Replies
  BY <1>5, <1>7 DEF Replies
<1>10. /\ reply'[r] \in Seq(Replies) /\ Len(reply[r]) \in Nat
       /\ DOMAIN reply[r] = 1..Len(reply[r]) /\ DOMAIN reply'[r] = 1..(Len(reply[r]) + 1)
       /\ \A k \in DOMAIN reply[r] : reply'[r][k] = reply[r][k]
       /\ reply'[r][Len(reply[r]) + 1] = [of |-> i, properties |-> properties]
  BY <1>3, <1>4, <1>9
<1>11. ASSUME NEW k \in DOMAIN reply'[r]
       PROVE  /\ \A j, shown : j = reply'[r][k].of /\ shown = reply'[r][k].properties /\ j \in Requests =>
                   ShowsTheTagsOf(shown, j)
              /\ \A p \in reply'[r][k].properties : p.value = {} => GivenByName(p.tag_value_id)
  <2>1. CASE k \in DOMAIN reply[r]
    BY <1>6, <1>10, <2>1 DEF Told
  <2>2. CASE k = Len(reply[r]) + 1
    BY <1>7, <1>10, <2>2
  <2> QED
    BY <1>10, <2>1, <2>2
<1>12. ASSUME NEW k \in DOMAIN reply'[r], NEW j, NEW shown,
              j = reply'[r][k].of, shown = reply'[r][k].properties, j \in Requests
       PROVE  ShowsTheTagsOf(shown, j)'
  <2>1. \A q, s : ShowsTheTagsOf(s, q) => ShowsTheTagsOf(s, q)'
    BY <1>8, ShownStays
  <2> QED
    BY <1>11, <1>12, <2>1
<1>13. \A k \in DOMAIN reply'[r] : \A p \in reply'[r][k].properties : p.value = {} => GivenByName(p.tag_value_id)'
  BY <1>1, <1>11 DEF GivenByName
<1> QED
  BY <1>1, <1>5, <1>8, <1>10, <1>12, <1>13 DEF Told

LEMMA FindTagsTold ==
  ASSUME Inv, WInv, NEW r \in Requests, Told(r), FindTags(r), reply = [q \in Requests |-> reply[q]]
  PROVE  Told(r)'
<1>1. /\ pc[r] = "find_tags" /\ job[r].op = "get_all_tag" /\ Goto(r, "commit")
      /\ UNCHANGED <<at, job, tag_id, tag_value_id, tx, item, tag_definition, tag_value, todo>>
  BY DEF FindTags, locals, tables, WInv, Role
<1>2. PICK page : page = Page(r, {t.name : t \in Tags(r)})
  OBVIOUS
<1>3. page \in Seq({t.name : t \in Tags(r)}) /\ {t.name : t \in Tags(r)} \subseteq Names
  <2>1. \A t \in Tags(r) : t.name \in Names
    BY SeenTag
  <2> QED
    BY <1>2, <2>1, PageNames DEF Inv
<1>4. reply'[r] = [n \in DOMAIN page |-> [of |-> page[n], properties |-> {}]]
  BY <1>2 DEF FindTags
<1>5. reply'[r] \in Seq(Replies)
  <2>1. DOMAIN page = 1..Len(page) /\ Len(page) \in Nat /\ \A n \in DOMAIN page : page[n] \in Names
    BY <1>3
  <2>2. \A n \in DOMAIN page : [of |-> page[n], properties |-> {}] \in Replies
    BY <2>1 DEF Replies
  <2> QED
    BY <1>4, <2>1, <2>2
<1>6. pc'[r] = "commit"
  BY <1>1, ReadAlone DEF Steps
<1> QED
  BY <1>1, <1>5, <1>6 DEF Told

LEMMA RInvInit == ReaderInit => RInv
<1> SUFFICES ASSUME ReaderInit PROVE RInv
  OBVIOUS
<1>1. \A r \in Requests : pc[r] = "idle" /\ todo[r] = <<>> /\ reply[r] = <<>>
  BY DEF ReaderInit, Init
<1>2. \A T : <<>> \in Seq(T) /\ DOMAIN <<>> = {}
  OBVIOUS
<1>3. ASSUME NEW r \in Requests PROVE Told(r)
  <2>1. pc[r] # "find_properties" /\ todo[r] = <<>> /\ reply[r] = <<>>
    BY <1>1
  <2>2. todo[r] \in Seq(AllItems) /\ DOMAIN todo[r] = {} /\ reply[r] \in Seq(Replies) /\ DOMAIN reply[r] = {}
    BY <1>2, <2>1
  <2> QED
    BY <2>1, <2>2 DEF Told
<1> QED
  BY <1>3 DEF RInv, ReaderInit

LEMMA RInvStep == Inv /\ WInv /\ RInv /\ [Next]_allvars => RInv'
<1> SUFFICES ASSUME Inv, WInv, RInv, [Next]_allvars PROVE RInv'
  OBVIOUS
<1>1. CASE UNCHANGED allvars
  <2>1. UNCHANGED <<pc, job, at, item, todo, reply>>
    BY <1>1 DEF allvars, vars, readers
  <2>2. ASSUME NEW r \in Requests PROVE Told(r)'
    <3>1. Told(r)
      BY DEF RInv
    <3>2. ASSUME NEW k \in DOMAIN reply[r], job[r].op # "get_all_tag", NEW i, NEW shown,
                 i = reply[r][k].of, shown = reply[r][k].properties, i \in Requests
          PROVE  ShowsTheTagsOf(shown, i)'
      <4>1. ShowsTheTagsOf(shown, i)
        BY <3>1, <3>2 DEF Told
      <4>2. \A tag : TagIsDeleted(tag)' <=> TagIsDeleted(tag)
        BY <2>1 DEF TagIsDeleted, Property
      <4>3. \A q, tag : ValueIsDeleted(q, tag) => ValueIsDeleted(q, tag)'
        BY <2>1, <4>2 DEF ValueIsDeleted
      <4> QED
        BY <2>1, <4>1, <4>2, <4>3 DEF ShowsTheTagsOf
    <3>3. ASSUME NEW k \in DOMAIN reply[r], NEW p \in reply[r][k].properties, job[r].op # "get_all_tag", p.value = {}
          PROVE  GivenByName(p.tag_value_id)'
      BY <2>1, <3>1, <3>3 DEF Told, GivenByName
    <3>4. /\ todo[r] \in Seq(AllItems) /\ \A n \in DOMAIN todo[r] : todo[r][n] \in item
          /\ pc[r] = "find_properties" => todo[r] # <<>>
          /\ reply[r] \in Seq(Replies)
      BY <3>1 DEF Told
    <3> QED
      BY <2>1, <3>2, <3>3, <3>4 DEF Told
  <2> QED
    BY <2>1, <2>2 DEF RInv
<1>2. ASSUME NEW r \in Requests, Alone(r), UNCHANGED readers PROVE RInv'
  <2>1. UNCHANGED <<todo, reply>>
    BY <1>2 DEF readers
  <2>2. ASSUME NEW q \in Requests PROVE Told(q)'
    <3>1. pc'[q] = "find_properties" => pc[q] = "find_properties"
      BY <1>2 DEF Alone, OthersStay
    <3> QED
      BY <1>2, <2>1, <3>1, ToldStays DEF Alone, RInv
  <2> QED
    BY <2>1, <2>2 DEF RInv
<1>3. ASSUME NEW r \in Requests, Fail(r), pc[r] \in Steps, UNCHANGED readers PROVE RInv'
  BY <1>2, <1>3, WriteAlone
<1>4. ASSUME BreakDeadlock, UNCHANGED readers PROVE RInv'
  <2>1. PICK r \in Requests : Blockers(r) # {} /\ Fail(r)
    BY <1>4 DEF BreakDeadlock, Deadlocked
  <2>2. pc[r] \in Steps
    BY <2>1 DEF Blockers, Steps
  <2> QED
    BY <1>3, <1>4, <2>1, <2>2
<1>5. ASSUME NEW r \in Requests, get_item(r) \/ get_all_item(r) \/ get_all_tag(r) PROVE RInv'
  <2>1. Alone(r)
    BY <1>5, BeginAlone, Zenon DEF get_item, get_all_item, get_all_tag
  <2> QED
    BY <1>2, <1>5, <2>1 DEF get_item, get_all_item, get_all_tag
<1>6. ASSUME NEW r \in Requests, Read(r), ~Fail(r) PROVE RInv'
  <2>1. Told(r)'
    BY <1>6, FindItemsTold, FindPropertiesTold, FindTagsTold DEF Read, RInv
  <2>2. PICK step : pc[r] \in Steps /\ Goto(r, step) /\ UNCHANGED <<at, job, tag_id, tag_value_id, tx, item>>
    BY <1>6 DEF Read, FindItems, FindProperties, FindTags, locals, tables, Steps
  <2>3. OthersStay(r) /\ pc[r] \notin Final /\ item \subseteq item'
    BY <2>2, ReadAlone
  <2>4. /\ todo' = [todo EXCEPT ![r] = todo'[r]] /\ reply' = [reply EXCEPT ![r] = reply'[r]]
    BY <1>6 DEF Read, FindItems, FindProperties, FindTags, RInv
  <2>5. ASSUME NEW q \in Requests \ {r} PROVE Told(q)'
    <3>1. todo'[q] = todo[q] /\ reply'[q] = reply[q] /\ pc'[q] = pc[q]
      BY <2>3, <2>4 DEF RInv, OthersStay
    <3> QED
      BY <2>3, <3>1, ToldStays DEF RInv
  <2>6. todo' = [q \in Requests |-> todo'[q]] /\ reply' = [q \in Requests |-> reply'[q]]
    BY <2>4 DEF RInv
  <2> QED
    BY <2>1, <2>5, <2>6 DEF RInv
<1>7. ASSUME NEW r \in Requests, Read(r), Fail(r) PROVE RInv'
  <2>1. pc[r] \in Steps /\ pc'[r] = "error"
    BY <1>7 DEF Read, FindItems, FindProperties, FindTags, Steps, Fail, End, Goto, Inv, TypeOK
  <2>2. \A step \in {"commit", "find_properties"} : ~Goto(r, step)
    BY <2>1 DEF Goto, Inv, TypeOK
  <2>3. UNCHANGED readers
    BY <1>7, <2>2 DEF Read, FindItems, FindProperties, FindTags, readers
  <2> QED
    BY <1>3, <1>7, <2>1, <2>3
<1>8. ASSUME NEW r \in Requests, Abort(r), UNCHANGED readers PROVE RInv'
  BY <1>3, <1>8 DEF Abort
<1>9. ASSUME NEW r \in Requests, Start(r), UNCHANGED readers PROVE RInv'
  <2>1. Alone(r)
    BY <1>9, WriteAlone
  <2> QED
    BY <1>2, <1>9, <2>1
<1>10. ASSUME NEW r \in Requests, Step(r), UNCHANGED readers PROVE RInv'
  <2>1. Alone(r)
    BY <1>10, WriteAlone
  <2> QED
    BY <1>2, <1>10, <2>1
<1>11. ASSUME Write, UNCHANGED readers PROVE RInv'
  BY <1>4, <1>8, <1>9, <1>10, <1>11 DEF Write
<1>12. ASSUME NEW r \in Requests, get_item(r) \/ get_all_item(r) \/ get_all_tag(r) \/ Read(r) PROVE RInv'
  BY <1>5, <1>6, <1>7, <1>12
<1> QED
  BY <1>1, <1>11, <1>12 DEF Next

LEMMA RInvHolds == Spec => [](Inv /\ WInv /\ RInv)
<1>1. Inv /\ WInv /\ RInv /\ [Next]_allvars => (Inv /\ WInv /\ RInv)'
  BY InvStep, WInvStep, RInvStep
<1> QED
  BY <1>1, InvInit, WInvInit, RInvInit, PTL DEF Spec

(***************************************************************************)
(* The items to read and those of the replies are items of the customer,   *)
(* or the names of tags (search_item, get_all_tag).                        *)
(***************************************************************************)
THEOREM ReadersTypeCorrect == Spec => []ReadersTypeOK
<1>1. Inv /\ RInv => ReadersTypeOK
  <2> SUFFICES ASSUME Inv, RInv, NEW r \in Requests
               PROVE  todo[r] \in Seq(AllItems) /\ \A n \in DOMAIN reply[r] : reply[r][n].of \in AllItems \cup Names
    BY DEF ReadersTypeOK, Inv
  <2>1. todo[r] \in Seq(AllItems) /\ reply[r] \in Seq(Replies)
    BY DEF RInv, Told
  <2>2. \A n \in DOMAIN reply[r] : reply[r][n] \in Replies
    BY <2>1
  <2> QED
    BY <2>1, <2>2 DEF Replies
<1> QED
  BY <1>1, RInvHolds, PTL

(***************************************************************************)
(* A reply shows an item with all the tags it was added with, although it  *)
(* is read in several statements: whoever sees the item sees what was      *)
(* committed with it, less what was deleted (search_item_by_id).           *)
(***************************************************************************)
THEOREM RepliesShowWholeItems == Spec => []RepliesAreWhole
<1>1. RInv => RepliesAreWhole
  BY DEF RInv, Told, RepliesAreWhole
<1> QED
  BY <1>1, RInvHolds, PTL
=============================================================================
