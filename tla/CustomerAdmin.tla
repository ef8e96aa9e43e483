---------------------------- MODULE CustomerAdmin ----------------------------
(***************************************************************************)
(* The life of a customer: create_customer, delete_customer and            *)
(* set_removable_flag_customer of the admin-server, and add_key of the     *)
(* key-manager.  A customer is a row in dokaadmin.customer, a row in       *)
(* dokaadmin.appuser for its administrator, a schema cs_{code} for its     *)
(* items, a schema fs_{code} for its files and a key in the key-manager.   *)
(*                                                                         *)
(* A request keeps one transaction of dokaadmin open while it changes the  *)
(* other databases, each change with a transaction of its own that it      *)
(* commits at once.  The transaction is at READ COMMITTED: it reads what   *)
(* is committed, and its writes appear with its COMMIT; until then they    *)
(* lock their rows and the values of their unique indexes.                 *)
(*                                                                         *)
(* The id of a row, a schema or a key is the request that created it, and  *)
(* each request runs once.                                                 *)
(***************************************************************************)
EXTENDS Integers, FiniteSets

CONSTANTS
  Requests,  \* the requests
  Codes,     \* the customer codes: the first part of a uuid
  Names,     \* the full names customers may ask for
  Logins,    \* the email addresses of their administrators
  Faults,    \* what may go wrong: see AllFaults
  None       \* no row, no schema, no key

(***************************************************************************)
(* "abort"   a request ends at an await: a statement fails, the service it *)
(*           calls refuses, the client goes away or the process dies       *)
(* "lost"    a COMMIT, or a call of the key-manager, that took effect is   *)
(*           reported as failed                                            *)
(* "batch"   the statements of a script fail                               *)
(* "search"  the query for the customer to delete fails                    *)
(***************************************************************************)
AllFaults == {"abort", "lost", "batch", "search"}

ASSUME FaultsAssumption == Faults \subseteq AllFaults

(* The rows of dokaadmin.customer *)
Customers == [id : Requests, name : Names, removable : BOOLEAN]

ASSUME NoneAssumption == None \notin Requests \cup Customers

VARIABLES
  pc,         \* the next step of each request
  name,       \* CreateCustomerRequest.customer_name
  login,      \* CreateCustomerRequest.email
  code,       \* the code of the customer it creates or deletes
  del_users,  \* the rows of appuser its transaction has deleted
  del_row,    \* whether its transaction has deleted the row of customer
  customer,   \* tables of dokaadmin
  appuser,
  cs,         \* the schemas cs_{code}
  fs,         \* the schemas fs_{code}
  keys        \* keymanager.customer_keys

request == <<name, login, code>>
trans == <<del_users, del_row>>
dokaadmin == <<customer, appuser>>
vars == <<pc, request, trans, dokaadmin, cs, fs, keys>>

Create == {"check_name", "check_login", "choose_code", "cs_script", "fs_script",
           "add_key", "insert_customer", "insert_user", "commit_create"}
Delete == {"search", "delete_users", "delete_customer", "drop_cs", "drop_fs",
           "commit_delete"}
Final  == {"created", "deleted", "failed"}

Ids == Requests \cup {None}

TypeOK ==
  /\ pc \in [Requests -> {"idle"} \cup Create \cup Delete \cup Final]
  /\ name \in [Requests -> Names]
  /\ login \in [Requests -> Logins]
  /\ code \in [Requests -> Codes \cup {None}]
  /\ del_users \in [Requests -> SUBSET Logins]
  /\ del_row \in [Requests -> BOOLEAN]
  /\ customer \in [Codes -> Customers \cup {None}]
  /\ appuser \in [Logins -> Ids]
  /\ {cs, fs, keys} \subseteq [Codes -> Ids]

Init ==
  /\ pc = [r \in Requests |-> "idle"]
  /\ name \in [Requests -> Names]
  /\ login \in [Requests -> Logins]
  /\ code = [r \in Requests |-> None]
  /\ del_users = [r \in Requests |-> {}]
  /\ del_row = [r \in Requests |-> FALSE]
  /\ customer = [c \in Codes |-> None]
  /\ appuser = [l \in Logins |-> None]
  /\ cs = [c \in Codes |-> None]
  /\ fs = [c \in Codes |-> None]
  /\ keys = [c \in Codes |-> None]

Exists(c) == customer[c] # None

Goto(r, step) == pc' = [pc EXCEPT ![r] = step]

-----------------------------------------------------------------------------
(* Transactions *)

(* The end of a transaction: nothing is locked any more. *)
EndTransaction(r, step) ==
  /\ Goto(r, step)
  /\ del_users' = [del_users EXCEPT ![r] = {}]
  /\ del_row' = [del_row EXCEPT ![r] = FALSE]

(* The transactions that an INSERT or a DELETE of this user waits for. *)
LoginLocks(l) ==
  {r \in Requests : (pc[r] = "commit_create" /\ login[r] = l) \/ l \in del_users[r]}

(* The transactions that a change of this customer waits for. *)
CodeLocks(c) ==
  {r \in Requests :
     code[r] = c /\ (pc[r] \in {"insert_user", "commit_create"} \/ del_row[r])}

(***************************************************************************)
(* run_script: a connection and a transaction of its own in the database   *)
(* of another service.  "ignored": the error of the statements is logged,  *)
(* and the transaction they leave behind "commits" without effect.         *)
(***************************************************************************)
ScriptOutcomes ==
  {"ok"} \cup (IF "batch" \in Faults THEN {"ignored"} ELSE {})
         \cup (IF "lost" \in Faults THEN {"lost"} ELSE {})

Applied(outcome) == outcome \in {"ok", "lost"}

(* The Err of a script ends the request. *)
AfterScript(r, outcome, next) ==
  IF outcome = "lost"
  THEN EndTransaction(r, "failed")
  ELSE Goto(r, next) /\ UNCHANGED trans

(* A COMMIT in dokaadmin or in the key-manager, as the request sees it. *)
AfterCommit(r, next) ==
  \/ EndTransaction(r, next)
  \/ "lost" \in Faults /\ EndTransaction(r, "failed")

-----------------------------------------------------------------------------
(* create_customer *)

BeginCreate(r) ==
  /\ pc[r] = "idle"
  /\ Goto(r, "check_name")
  /\ UNCHANGED <<request, trans, dokaadmin, cs, fs, keys>>

(* check_customer_name_not_taken *)
CheckName(r) ==
  /\ pc[r] = "check_name"
  /\ IF \E c \in Codes : Exists(c) /\ customer[c].name = name[r]
     THEN Goto(r, "failed")
     ELSE Goto(r, "check_login")
  /\ UNCHANGED <<request, trans, dokaadmin, cs, fs, keys>>

(* check_user_name_not_taken *)
CheckLogin(r) ==
  /\ pc[r] = "check_login"
  /\ IF appuser[login[r]] # None
     THEN Goto(r, "failed")
     ELSE Goto(r, "choose_code")
  /\ UNCHANGED <<request, trans, dokaadmin, cs, fs, keys>>

(* The loop over uuid_v4 and check_code_not_taken ends on a code without a row. *)
ChooseCode(r) ==
  /\ pc[r] = "choose_code"
  /\ \E c \in Codes :
       /\ ~Exists(c)
       /\ code' = [code EXCEPT ![r] = c]
  /\ Goto(r, "cs_script")
  /\ UNCHANGED <<name, login, trans, dokaadmin, cs, fs, keys>>

(* CREATE SCHEMA fails, and is ignored, when there is one. *)
Created(schema, r) ==
  IF schema[code[r]] = None THEN r ELSE schema[code[r]]

(* run_cs_script *)
CsScript(r) ==
  /\ pc[r] = "cs_script"
  /\ \E outcome \in ScriptOutcomes :
       /\ cs' = IF Applied(outcome) THEN [cs EXCEPT ![code[r]] = Created(cs, r)] ELSE cs
       /\ AfterScript(r, outcome, "fs_script")
  /\ UNCHANGED <<request, dokaadmin, fs, keys>>

(* run_fs_script *)
FsScript(r) ==
  /\ pc[r] = "fs_script"
  /\ \E outcome \in ScriptOutcomes :
       /\ fs' = IF Applied(outcome) THEN [fs EXCEPT ![code[r]] = Created(fs, r)] ELSE fs
       /\ AfterScript(r, outcome, "add_key")
  /\ UNCHANGED <<request, dokaadmin, cs, keys>>

(* A defect: a key that is there already is good enough. *)
AddKey_KeepsKey(r) ==
  /\ pc[r] = "add_key"
  /\ IF keys[code[r]] # None
     THEN Goto(r, "insert_customer") /\ UNCHANGED <<trans, keys>>
     ELSE /\ keys' = [keys EXCEPT ![code[r]] = r]
          /\ AfterCommit(r, "insert_customer")
  /\ UNCHANGED <<request, dokaadmin, cs, fs>>

(* add_key of the key-manager refuses a code that has a key. *)
AddKey(r) ==
  /\ pc[r] = "add_key"
  /\ IF keys[code[r]] # None
     THEN Goto(r, "failed") /\ UNCHANGED <<trans, keys>>
     ELSE /\ keys' = [keys EXCEPT ![code[r]] = r]
          /\ AfterCommit(r, "insert_customer")
  /\ UNCHANGED <<request, dokaadmin, cs, fs>>

(* INSERT INTO customer, whose code is unique. *)
InsertCustomer(r) ==
  /\ pc[r] = "insert_customer"
  /\ CodeLocks(code[r]) = {}
  /\ Goto(r, IF Exists(code[r]) THEN "failed" ELSE "insert_user")
  /\ UNCHANGED <<request, trans, dokaadmin, cs, fs, keys>>

(* INSERT INTO appuser, whose login is unique. *)
InsertUser(r) ==
  /\ pc[r] = "insert_user"
  /\ LoginLocks(login[r]) = {}
  /\ Goto(r, IF appuser[login[r]] # None THEN "failed" ELSE "commit_create")
  /\ UNCHANGED <<request, trans, dokaadmin, cs, fs, keys>>

(* The COMMIT: both rows appear. *)
CommitCreate(r) ==
  /\ pc[r] = "commit_create"
  /\ customer' = [customer EXCEPT ![code[r]] =
                    [id |-> r, name |-> name[r], removable |-> FALSE]]
  /\ appuser' = [appuser EXCEPT ![login[r]] = r]
  /\ AfterCommit(r, "created")
  /\ UNCHANGED <<request, cs, fs, keys>>

-----------------------------------------------------------------------------
(* set_removable_flag_customer: one UPDATE *)

SetRemovable(c) ==
  /\ CodeLocks(c) = {}
  /\ Exists(c)
  /\ customer' = [customer EXCEPT ![c].removable = TRUE]
  /\ UNCHANGED <<pc, request, trans, appuser, cs, fs, keys>>

-----------------------------------------------------------------------------
(* delete_customer *)

BeginDelete(r, c) ==
  /\ pc[r] = "idle"
  /\ code' = [code EXCEPT ![r] = c]
  /\ Goto(r, "search")
  /\ UNCHANGED <<name, login, trans, dokaadmin, cs, fs, keys>>

(***************************************************************************)
(* search_customer: a customer that is not removable is refused.  One that *)
(* is not found still has its schemas dropped, and so has one whose query  *)
(* failed.                                                                 *)
(***************************************************************************)
Search(r) ==
  /\ pc[r] = "search"
  /\ \/ ~Exists(code[r]) /\ Goto(r, "drop_cs")
     \/ "search" \in Faults /\ Goto(r, "drop_cs")
     \/ /\ Exists(code[r])
        /\ Goto(r, IF customer[code[r]].removable THEN "delete_users" ELSE "failed")
  /\ UNCHANGED <<request, trans, dokaadmin, cs, fs, keys>>

(* WHERE code = :p_customer_code AND is_removable = TRUE *)
Removable(c) == Exists(c) /\ customer[c].removable

(* The users of the customer c. *)
Users(c) == {l \in Logins : Exists(c) /\ appuser[l] = customer[c].id}

(* A defect: only users that are not administrators are deleted. *)
DeleteUsers_KeepsAdmin(r) ==
  /\ pc[r] = "delete_users"
  /\ Goto(r, "delete_customer")
  /\ UNCHANGED <<request, trans, dokaadmin, cs, fs, keys>>

(* delete_user_from_db *)
DeleteUsers(r) ==
  /\ pc[r] = "delete_users"
  /\ \A l \in Users(code[r]) : LoginLocks(l) = {}
  /\ del_users' = [del_users EXCEPT ![r] =
                     IF Removable(code[r]) THEN Users(code[r]) ELSE {}]
  /\ Goto(r, "delete_customer")
  /\ UNCHANGED <<request, del_row, dokaadmin, cs, fs, keys>>

(* delete_customer_from_db *)
DeleteCustomer(r) ==
  /\ pc[r] = "delete_customer"
  /\ CodeLocks(code[r]) = {}
  /\ del_row' = [del_row EXCEPT ![r] = Removable(code[r])]
  /\ Goto(r, "drop_cs")
  /\ UNCHANGED <<request, del_users, dokaadmin, cs, fs, keys>>

(* drop_cs_schema_from_db *)
DropCs(r) ==
  /\ pc[r] = "drop_cs"
  /\ \E outcome \in ScriptOutcomes :
       /\ cs' = IF Applied(outcome) THEN [cs EXCEPT ![code[r]] = None] ELSE cs
       /\ AfterScript(r, outcome, "drop_fs")
  /\ UNCHANGED <<request, dokaadmin, fs, keys>>

(* drop_fs_schema_from_db *)
DropFs(r) ==
  /\ pc[r] = "drop_fs"
  /\ \E outcome \in ScriptOutcomes :
       /\ fs' = IF Applied(outcome) THEN [fs EXCEPT ![code[r]] = None] ELSE fs
       /\ AfterScript(r, outcome, "commit_delete")
  /\ UNCHANGED <<request, dokaadmin, cs, keys>>

(* A defect: the transaction is not ended, its locks stay. *)
CommitDelete_KeepsLocks(r) ==
  /\ pc[r] = "commit_delete"
  /\ Goto(r, "deleted")
  /\ UNCHANGED <<request, trans, dokaadmin, cs, fs, keys>>

(* A defect: the key is deleted with the customer. *)
CommitDelete_AndKey(r) ==
  /\ pc[r] = "commit_delete"
  /\ appuser' = [l \in Logins |-> IF l \in del_users[r] THEN None ELSE appuser[l]]
  /\ customer' = IF del_row[r] THEN [customer EXCEPT ![code[r]] = None] ELSE customer
  /\ keys' = [keys EXCEPT ![code[r]] = None]
  /\ AfterCommit(r, "deleted")
  /\ UNCHANGED <<request, cs, fs>>

(* The COMMIT: the rows are gone; the key stays in the key-manager. *)
CommitDelete(r) ==
  /\ pc[r] = "commit_delete"
  /\ appuser' = [l \in Logins |-> IF l \in del_users[r] THEN None ELSE appuser[l]]
  /\ customer' = IF del_row[r] THEN [customer EXCEPT ![code[r]] = None] ELSE customer
  /\ AfterCommit(r, "deleted")
  /\ UNCHANGED <<request, cs, fs, keys>>

-----------------------------------------------------------------------------

(* The request ends early: its transaction rolls back, the rest stays. *)
Abort(r) ==
  /\ "abort" \in Faults
  /\ pc[r] \in Create \cup Delete
  /\ EndTransaction(r, "failed")
  /\ UNCHANGED <<request, dokaadmin, cs, fs, keys>>

Step(r) ==
  \/ CheckName(r)
  \/ CheckLogin(r)
  \/ ChooseCode(r)
  \/ CsScript(r)
  \/ FsScript(r)
  \/ AddKey(r)
  \/ InsertCustomer(r)
  \/ InsertUser(r)
  \/ CommitCreate(r)
  \/ Search(r)
  \/ DeleteUsers(r)
  \/ DeleteCustomer(r)
  \/ DropCs(r)
  \/ DropFs(r)
  \/ CommitDelete(r)
  \/ Abort(r)

Next ==
  \/ \E r \in Requests : BeginCreate(r)
  \/ \E r \in Requests, c \in Codes : BeginDelete(r, c)
  \/ \E c \in Codes : SetRemovable(c)
  \/ \E r \in Requests : Step(r)

Spec == Init /\ [][Next]_vars

-----------------------------------------------------------------------------
(* Properties *)

(***************************************************************************)
(* A customer has the key that was generated for it: whatever codes the    *)
(* requests draw, however they overlap and fail, no customer is created on *)
(* the key of another request.                                             *)
(***************************************************************************)
KeyIsItsOwn ==
  \A c \in Codes : Exists(c) => keys[c] = customer[c].id

(***************************************************************************)
(* Nobody inherits data: the schemas under a customer's code are its own,  *)
(* or were left by a request that never made a customer, although scripts  *)
(* ignore a schema that is there, or is not dropped.                       *)
(***************************************************************************)
Inherits(schema, c) ==
  schema[c] \notin {None, customer[c].id} /\ pc[schema[c]] = "created"

NoInheritedData ==
  \A c \in Codes : Exists(c) => ~Inherits(cs, c) /\ ~Inherits(fs, c)

(***************************************************************************)
(* A user always has its customer, and a customer its administrator: the   *)
(* tables have no foreign key, and requests that create and delete with    *)
(* the same login or code wait for each other in the right places.         *)
(***************************************************************************)
UsersAndCustomersMatch ==
  /\ \A l \in Logins :
       appuser[l] # None => \E c \in Codes : Exists(c) /\ customer[c].id = appuser[l]
  /\ \A c \in Codes : Exists(c) => Users(c) # {}

(***************************************************************************)
(* Locks do not block the service: a request that waits for others waits   *)
(* for one that is still running and does not wait itself.  Creations lock *)
(* the customer before the user and deletions the user before the          *)
(* customer; what keeps them apart is that they never meet on a code.      *)
(***************************************************************************)
Blockers(r) ==
  CASE pc[r] = "insert_customer" -> CodeLocks(code[r])
    [] pc[r] = "insert_user"     -> LoginLocks(login[r])
    [] pc[r] = "delete_users"    -> UNION {LoginLocks(l) : l \in Users(code[r])}
    [] pc[r] = "delete_customer" -> CodeLocks(code[r])
    [] OTHER -> {}

WaitsAreShort ==
  \A r \in Requests :
    \A other \in Blockers(r) :
      pc[other] \in Create \cup Delete /\ Blockers(other) = {}
=============================================================================
