------------------------ MODULE CustomerAdmin_proofs ------------------------
(***************************************************************************)
(* Proofs about CustomerAdmin, for any sets of requests, codes, names and  *)
(* logins, and any faults.  The argument: a code belongs to the first      *)
(* request that gets its key, because keys are never deleted; everything   *)
(* else a code leads to was made either by that request or by one that     *)
(* never got as far as its key.                                            *)
(***************************************************************************)
EXTENDS CustomerAdmin, TLAPS

(* A request that has passed add_key. *)
WithKey == {"insert_customer", "insert_user", "commit_create", "created"}

(* A request whose code may still change. *)
WithoutCode == {"idle", "check_name", "check_login", "choose_code"}

(* A request that has its key keeps it. *)
KeyKept(r) == pc[r] \in WithKey => keys[code[r]] = r

(* A request that creates a customer has chosen its code before its scripts. *)
CodeChosen(r) == pc[r] \in Create \ WithoutCode => code[r] \in Codes

(* A schema lies under the code of the request that created it. *)
SchemaPlaced(schema, c) ==
  schema[c] # None => code[schema[c]] = c /\ pc[schema[c]] \notin WithoutCode

Inv ==
  /\ TypeOK
  /\ \A r \in Requests : KeyKept(r) /\ CodeChosen(r)
  /\ \A c \in Codes : SchemaPlaced(cs, c) /\ SchemaPlaced(fs, c)
  /\ KeyIsItsOwn

-----------------------------------------------------------------------------
(* Type correctness *)

AllSteps == {"idle"} \cup Create \cup Delete \cup Final

LEMMA GotoType ==
  ASSUME TypeOK, NEW r \in Requests, NEW step \in AllSteps, Goto(r, step)
  PROVE  pc' \in [Requests -> AllSteps]
BY DEF TypeOK, Goto, AllSteps

LEMMA EndType ==
  ASSUME TypeOK, NEW r \in Requests, NEW step \in AllSteps, EndTransaction(r, step)
  PROVE  /\ pc' \in [Requests -> AllSteps]
         /\ del_users' \in [Requests -> SUBSET Logins]
         /\ del_row' \in [Requests -> BOOLEAN]
BY GotoType DEF TypeOK, EndTransaction

LEMMA CommitType ==
  ASSUME TypeOK, NEW r \in Requests, NEW next \in AllSteps, AfterCommit(r, next)
  PROVE  /\ pc' \in [Requests -> AllSteps]
         /\ del_users' \in [Requests -> SUBSET Logins]
         /\ del_row' \in [Requests -> BOOLEAN]
BY EndType DEF AfterCommit, AllSteps, Final

LEMMA ScriptType ==
  ASSUME TypeOK, NEW r \in Requests, NEW outcome, NEW next \in AllSteps,
         AfterScript(r, outcome, next)
  PROVE  /\ pc' \in [Requests -> AllSteps]
         /\ del_users' \in [Requests -> SUBSET Logins]
         /\ del_row' \in [Requests -> BOOLEAN]
<1>1. CASE outcome = "lost"
  BY <1>1, EndType DEF AfterScript, AllSteps, Final
<1>2. CASE outcome # "lost"
  BY <1>2, GotoType DEF AfterScript, TypeOK, trans
<1> QED
  BY <1>1, <1>2

LEMMA TypeStep ==
  ASSUME TypeOK, NEW r \in Requests, BeginCreate(r) \/ Step(r)
  PROVE  TypeOK'
<1>1. CASE BeginCreate(r)
  <2>1. pc' \in [Requests -> AllSteps]
    BY <1>1, GotoType DEF BeginCreate, AllSteps, Create, Delete, Final
  <2> QED
    BY <1>1, <2>1 DEF BeginCreate, TypeOK, AllSteps, request, trans, dokaadmin
<1>2. CASE CheckName(r)
  <2>1. pc' \in [Requests -> AllSteps]
    BY <1>2, GotoType DEF CheckName, AllSteps, Create, Delete, Final
  <2> QED
    BY <1>2, <2>1 DEF CheckName, TypeOK, AllSteps, request, trans, dokaadmin
<1>3. CASE CheckLogin(r)
  <2>1. pc' \in [Requests -> AllSteps]
    BY <1>3, GotoType DEF CheckLogin, AllSteps, Create, Delete, Final
  <2> QED
    BY <1>3, <2>1 DEF CheckLogin, TypeOK, AllSteps, request, trans, dokaadmin
<1>4. CASE ChooseCode(r)
  <2>1. pc' \in [Requests -> AllSteps]
    BY <1>4, GotoType DEF ChooseCode, AllSteps, Create, Delete, Final
  <2> QED
    BY <1>4, <2>1 DEF ChooseCode, TypeOK, AllSteps, request, trans, dokaadmin
<1>5. CASE CsScript(r)
  <2>1. PICK outcome \in ScriptOutcomes :
          /\ cs' = IF Applied(outcome) THEN [cs EXCEPT ![code[r]] = Created(cs, r)] ELSE cs
          /\ AfterScript(r, outcome, "fs_script")
    BY <1>5 DEF CsScript
  <2>2. cs' \in [Codes -> Ids]
    BY <2>1 DEF TypeOK, Ids, Created
  <2>3. /\ pc' \in [Requests -> AllSteps]
        /\ del_users' \in [Requests -> SUBSET Logins]
        /\ del_row' \in [Requests -> BOOLEAN]
    BY <2>1, ScriptType DEF AllSteps, Create, Delete
  <2> QED
    BY <1>5, <2>2, <2>3 DEF CsScript, TypeOK, AllSteps, request, dokaadmin
<1>6. CASE FsScript(r)
  <2>1. PICK outcome \in ScriptOutcomes :
          /\ fs' = IF Applied(outcome) THEN [fs EXCEPT ![code[r]] = Created(fs, r)] ELSE fs
          /\ AfterScript(r, outcome, "add_key")
    BY <1>6 DEF FsScript
  <2>2. fs' \in [Codes -> Ids]
    BY <2>1 DEF TypeOK, Ids, Created
  <2>3. /\ pc' \in [Requests -> AllSteps]
        /\ del_users' \in [Requests -> SUBSET Logins]
        /\ del_row' \in [Requests -> BOOLEAN]
    BY <2>1, ScriptType DEF AllSteps, Create, Delete
  <2> QED
    BY <1>6, <2>2, <2>3 DEF FsScript, TypeOK, AllSteps, request, dokaadmin
<1>7. CASE AddKey(r)
  <2>1. /\ pc' \in [Requests -> AllSteps]
        /\ del_users' \in [Requests -> SUBSET Logins]
        /\ del_row' \in [Requests -> BOOLEAN]
    BY <1>7, GotoType, CommitType DEF AddKey, TypeOK, trans, AllSteps, Create, Final
  <2>2. keys' \in [Codes -> Ids]
    BY <1>7 DEF AddKey, TypeOK, Ids
  <2> QED
    BY <1>7, <2>1, <2>2 DEF AddKey, TypeOK, AllSteps, request, dokaadmin
<1>8. CASE InsertCustomer(r)
  <2>1. pc' \in [Requests -> AllSteps]
    BY <1>8, GotoType DEF InsertCustomer, AllSteps, Create, Delete, Final
  <2> QED
    BY <1>8, <2>1 DEF InsertCustomer, TypeOK, AllSteps, request, trans, dokaadmin
<1>9. CASE InsertUser(r)
  <2>1. pc' \in [Requests -> AllSteps]
    BY <1>9, GotoType DEF InsertUser, AllSteps, Create, Delete, Final
  <2> QED
    BY <1>9, <2>1 DEF InsertUser, TypeOK, AllSteps, request, trans, dokaadmin
<1>10. CASE CommitCreate(r)
  <2>1. /\ pc' \in [Requests -> AllSteps]
        /\ del_users' \in [Requests -> SUBSET Logins]
        /\ del_row' \in [Requests -> BOOLEAN]
    BY <1>10, CommitType DEF CommitCreate, AllSteps, Final
  <2>2. customer' \in [Codes -> Customers \cup {None}]
    BY <1>10 DEF CommitCreate, TypeOK, Customers
  <2>3. appuser' \in [Logins -> Ids]
    BY <1>10 DEF CommitCreate, TypeOK, Ids
  <2> QED
    BY <1>10, <2>1, <2>2, <2>3 DEF CommitCreate, TypeOK, AllSteps, request
<1>11. CASE Search(r)
  <2>1. pc' \in [Requests -> AllSteps]
    BY <1>11, GotoType DEF Search, AllSteps, Create, Delete, Final
  <2> QED
    BY <1>11, <2>1 DEF Search, TypeOK, AllSteps, request, trans, dokaadmin
<1>12. CASE DeleteUsers(r)
  <2>1. pc' \in [Requests -> AllSteps]
    BY <1>12, GotoType DEF DeleteUsers, AllSteps, Create, Delete, Final
  <2> QED
    BY <1>12, <2>1 DEF DeleteUsers, TypeOK, AllSteps, request, trans, dokaadmin, Users
<1>13. CASE DeleteCustomer(r)
  <2>1. pc' \in [Requests -> AllSteps]
    BY <1>13, GotoType DEF DeleteCustomer, AllSteps, Create, Delete, Final
  <2> QED
    BY <1>13, <2>1 DEF DeleteCustomer, TypeOK, AllSteps, request, trans, dokaadmin, Removable, Exists
<1>14. CASE DropCs(r)
  <2>1. PICK outcome \in ScriptOutcomes :
          /\ cs' = IF Applied(outcome) THEN [cs EXCEPT ![code[r]] = None] ELSE cs
          /\ AfterScript(r, outcome, "drop_fs")
    BY <1>14 DEF DropCs
  <2>2. cs' \in [Codes -> Ids]
    BY <2>1 DEF TypeOK, Ids, Created
  <2>3. /\ pc' \in [Requests -> AllSteps]
        /\ del_users' \in [Requests -> SUBSET Logins]
        /\ del_row' \in [Requests -> BOOLEAN]
    BY <2>1, ScriptType DEF AllSteps, Create, Delete
  <2> QED
    BY <1>14, <2>2, <2>3 DEF DropCs, TypeOK, AllSteps, request, dokaadmin
<1>15. CASE DropFs(r)
  <2>1. PICK outcome \in ScriptOutcomes :
          /\ fs' = IF Applied(outcome) THEN [fs EXCEPT ![code[r]] = None] ELSE fs
          /\ AfterScript(r, outcome, "commit_delete")
    BY <1>15 DEF DropFs
  <2>2. fs' \in [Codes -> Ids]
    BY <2>1 DEF TypeOK, Ids, Created
  <2>3. /\ pc' \in [Requests -> AllSteps]
        /\ del_users' \in [Requests -> SUBSET Logins]
        /\ del_row' \in [Requests -> BOOLEAN]
    BY <2>1, ScriptType DEF AllSteps, Create, Delete
  <2> QED
    BY <1>15, <2>2, <2>3 DEF DropFs, TypeOK, AllSteps, request, dokaadmin
<1>16. CASE CommitDelete(r)
  <2>1. /\ pc' \in [Requests -> AllSteps]
        /\ del_users' \in [Requests -> SUBSET Logins]
        /\ del_row' \in [Requests -> BOOLEAN]
    BY <1>16, CommitType DEF CommitDelete, AllSteps, Final
  <2>2. customer' \in [Codes -> Customers \cup {None}]
    BY <1>16 DEF CommitDelete, TypeOK
  <2>3. appuser' \in [Logins -> Ids]
    BY <1>16 DEF CommitDelete, TypeOK, Ids
  <2> QED
    BY <1>16, <2>1, <2>2, <2>3 DEF CommitDelete, TypeOK, AllSteps, request
<1>17. CASE Abort(r)
  <2>1. /\ pc' \in [Requests -> AllSteps]
        /\ del_users' \in [Requests -> SUBSET Logins]
        /\ del_row' \in [Requests -> BOOLEAN]
    BY <1>17, EndType DEF Abort, AllSteps, Final
  <2> QED
    BY <1>17, <2>1 DEF Abort, TypeOK, AllSteps, request, dokaadmin
<1> QED
  BY <1>1, <1>2, <1>3, <1>4, <1>5, <1>6, <1>7, <1>8, <1>9, <1>10, <1>11, <1>12, <1>13, <1>14, <1>15, <1>16, <1>17 DEF Step

-----------------------------------------------------------------------------
(* Codes, keys and schemas *)

(* What the rest of the invariant says, without the types. *)
Bonds ==
  /\ \A r \in Requests : KeyKept(r) /\ CodeChosen(r)
  /\ \A c \in Codes : SchemaPlaced(cs, c) /\ SchemaPlaced(fs, c)
  /\ KeyIsItsOwn

(***************************************************************************)
(* A step that moves a request on without giving it a key, and leaves the  *)
(* codes, the keys, the schemas and the customers alone.                   *)
(***************************************************************************)
LEMMA MoveKeepsBonds ==
  ASSUME Inv, NEW r \in Requests, NEW step \in AllSteps,
         pc' = [pc EXCEPT ![r] = step],
         step \in WithKey => pc[r] \in WithKey,
         step \in Create \ WithoutCode => pc[r] \in Create \ WithoutCode,
         step \in WithoutCode => pc[r] \in WithoutCode,
         UNCHANGED <<code, customer, cs, fs, keys>>
  PROVE  Bonds'
<1>1. \A q \in Requests : KeyKept(q)' /\ CodeChosen(q)'
  BY DEF Inv, TypeOK, KeyKept, CodeChosen
<1>2. \A c \in Codes : SchemaPlaced(cs, c)' /\ SchemaPlaced(fs, c)'
  BY DEF Inv, TypeOK, SchemaPlaced, Ids
<1>3. KeyIsItsOwn'
  BY DEF Inv, KeyIsItsOwn, Exists
<1> QED
  BY <1>1, <1>2, <1>3 DEF Bonds

(* The scripts: a schema changes, and the request moves on or fails. *)
LEMMA ScriptMoves ==
  ASSUME NEW r \in Requests, NEW outcome, NEW next \in AllSteps,
         AfterScript(r, outcome, next)
  PROVE  \E step \in {next, "failed"} : pc' = [pc EXCEPT ![r] = step]
BY DEF AfterScript, EndTransaction, Goto

LEMMA CommitMoves ==
  ASSUME NEW r \in Requests, NEW next \in AllSteps, AfterCommit(r, next)
  PROVE  \E step \in {next, "failed"} : pc' = [pc EXCEPT ![r] = step]
BY DEF AfterCommit, EndTransaction, Goto

LEMMA BondStep ==
  ASSUME Inv, NEW r \in Requests, BeginCreate(r) \/ Step(r)
  PROVE  Bonds'
<1>1. CASE BeginCreate(r)
  BY <1>1, MoveKeepsBonds
     DEF BeginCreate, Goto, request, dokaadmin, WithKey, WithoutCode, AllSteps, Create, Delete, Final
<1>2. CASE CheckName(r)
  BY <1>2, MoveKeepsBonds
     DEF CheckName, Goto, request, dokaadmin, WithKey, WithoutCode, AllSteps, Create, Delete, Final
<1>3. CASE CheckLogin(r)
  BY <1>3, MoveKeepsBonds
     DEF CheckLogin, Goto, request, dokaadmin, WithKey, WithoutCode, AllSteps, Create, Delete, Final
<1>4. CASE ChooseCode(r)
  <2>1. PICK c \in Codes : code' = [code EXCEPT ![r] = c]
    BY <1>4 DEF ChooseCode
  <2>2. pc[r] = "choose_code" /\ pc' = [pc EXCEPT ![r] = "cs_script"]
    BY <1>4 DEF ChooseCode, Goto
  <2>3. UNCHANGED <<customer, cs, fs, keys>>
    BY <1>4 DEF ChooseCode, dokaadmin
  <2>4. \A q \in Requests : KeyKept(q)' /\ CodeChosen(q)'
    BY <2>1, <2>2, <2>3 DEF Inv, TypeOK, KeyKept, CodeChosen, WithKey, WithoutCode, Create, Delete, Final
  <2>5. \A k \in Codes : SchemaPlaced(cs, k)' /\ SchemaPlaced(fs, k)'
    BY <2>1, <2>2, <2>3 DEF Inv, TypeOK, SchemaPlaced, WithoutCode, Ids
  <2> QED
    BY <2>3, <2>4, <2>5 DEF Bonds, Inv, KeyIsItsOwn, Exists
<1>5. CASE CsScript(r)
  <2>1. PICK outcome \in ScriptOutcomes :
          /\ cs' = IF Applied(outcome) THEN [cs EXCEPT ![code[r]] = Created(cs, r)] ELSE cs
          /\ AfterScript(r, outcome, "fs_script")
    BY <1>5 DEF CsScript
  <2>2. PICK step \in {"fs_script", "failed"} : pc' = [pc EXCEPT ![r] = step]
    BY <2>1, ScriptMoves DEF AllSteps, Create, Delete
  <2>3. pc[r] = "cs_script" /\ UNCHANGED <<code, customer, fs, keys>>
    BY <1>5 DEF CsScript, request, dokaadmin
  <2>4. \A q \in Requests : KeyKept(q)' /\ CodeChosen(q)'
    BY <2>2, <2>3 DEF Inv, TypeOK, KeyKept, CodeChosen, WithKey, WithoutCode, Create, Delete, Final
  <2>5. \A k \in Codes : SchemaPlaced(cs, k)' /\ SchemaPlaced(fs, k)'
    BY <2>1, <2>2, <2>3 DEF Inv, TypeOK, SchemaPlaced, WithoutCode, Ids, Created
  <2> QED
    BY <2>3, <2>4, <2>5 DEF Bonds, Inv, KeyIsItsOwn, Exists
<1>6. CASE FsScript(r)
  <2>1. PICK outcome \in ScriptOutcomes :
          /\ fs' = IF Applied(outcome) THEN [fs EXCEPT ![code[r]] = Created(fs, r)] ELSE fs
          /\ AfterScript(r, outcome, "add_key")
    BY <1>6 DEF FsScript
  <2>2. PICK step \in {"add_key", "failed"} : pc' = [pc EXCEPT ![r] = step]
    BY <2>1, ScriptMoves DEF AllSteps, Create, Delete
  <2>3. pc[r] = "fs_script" /\ UNCHANGED <<code, customer, cs, keys>>
    BY <1>6 DEF FsScript, request, dokaadmin
  <2>4. \A q \in Requests : KeyKept(q)' /\ CodeChosen(q)'
    BY <2>2, <2>3 DEF Inv, TypeOK, KeyKept, CodeChosen, WithKey, WithoutCode, Create, Delete, Final
  <2>5. \A k \in Codes : SchemaPlaced(fs, k)' /\ SchemaPlaced(cs, k)'
    BY <2>1, <2>2, <2>3 DEF Inv, TypeOK, SchemaPlaced, WithoutCode, Ids, Created
  <2> QED
    BY <2>3, <2>4, <2>5 DEF Bonds, Inv, KeyIsItsOwn, Exists
<1>7. CASE AddKey(r)
  <2>1. CASE keys[code[r]] # None
    BY <1>7, <2>1, MoveKeepsBonds
       DEF AddKey, Goto, request, dokaadmin, WithKey, WithoutCode, AllSteps, Create, Delete, Final
  <2>2. CASE keys[code[r]] = None
    <3>1. keys' = [keys EXCEPT ![code[r]] = r] /\ AfterCommit(r, "insert_customer")
      BY <1>7, <2>2 DEF AddKey
    <3>2. PICK step \in {"insert_customer", "failed"} : pc' = [pc EXCEPT ![r] = step]
      BY <3>1, CommitMoves DEF AllSteps, Create
    <3>3. pc[r] = "add_key" /\ UNCHANGED <<code, customer, cs, fs>>
      BY <1>7 DEF AddKey, request, dokaadmin
    <3>4. code[r] \in Codes
      BY <3>3 DEF Inv, CodeChosen, Create, WithoutCode
    <3>5. \A q \in Requests : KeyKept(q)' /\ CodeChosen(q)'
      BY <2>2, <3>1, <3>2, <3>3, <3>4, NoneAssumption DEF Inv, TypeOK, KeyKept, CodeChosen, WithKey, WithoutCode, Create, Delete, Final
    <3>6. \A k \in Codes : SchemaPlaced(cs, k)' /\ SchemaPlaced(fs, k)'
      BY <3>2, <3>3 DEF Inv, TypeOK, SchemaPlaced, WithoutCode, Ids
    <3>7. KeyIsItsOwn'
      BY <2>2, <3>1, <3>3, NoneAssumption DEF Inv, TypeOK, KeyIsItsOwn, Exists, Customers
    <3> QED
      BY <3>5, <3>6, <3>7 DEF Bonds
  <2> QED
    BY <2>1, <2>2
<1>8. CASE InsertCustomer(r)
  BY <1>8, MoveKeepsBonds
     DEF InsertCustomer, Goto, request, dokaadmin, WithKey, WithoutCode, AllSteps, Create, Delete, Final
<1>9. CASE InsertUser(r)
  BY <1>9, MoveKeepsBonds
     DEF InsertUser, Goto, request, dokaadmin, WithKey, WithoutCode, AllSteps, Create, Delete, Final
<1>10. CASE CommitCreate(r)
  <2>1. PICK step \in {"created", "failed"} : pc' = [pc EXCEPT ![r] = step]
    BY <1>10, CommitMoves DEF CommitCreate, AllSteps, Final
  <2>2. /\ pc[r] = "commit_create"
        /\ customer' = [customer EXCEPT ![code[r]] =
                          [id |-> r, name |-> name[r], removable |-> FALSE]]
        /\ UNCHANGED <<code, cs, fs, keys>>
    BY <1>10 DEF CommitCreate, request
  <2>3. \A q \in Requests : KeyKept(q)' /\ CodeChosen(q)'
    BY <2>1, <2>2 DEF Inv, TypeOK, KeyKept, CodeChosen, WithKey, WithoutCode, Create, Delete, Final
  <2>4. \A k \in Codes : SchemaPlaced(cs, k)' /\ SchemaPlaced(fs, k)'
    BY <2>1, <2>2 DEF Inv, TypeOK, SchemaPlaced, WithoutCode, Ids
  <2>5. keys[code[r]] = r
    BY <2>2 DEF Inv, KeyKept, WithKey
  <2>6. KeyIsItsOwn'
    BY <2>2, <2>5 DEF Inv, TypeOK, KeyIsItsOwn, Exists
  <2> QED
    BY <2>3, <2>4, <2>6 DEF Bonds
<1>11. CASE Search(r)
  BY <1>11, MoveKeepsBonds
     DEF Search, Goto, request, dokaadmin, WithKey, WithoutCode, AllSteps, Create, Delete, Final
<1>12. CASE DeleteUsers(r)
  BY <1>12, MoveKeepsBonds
     DEF DeleteUsers, Goto, request, dokaadmin, WithKey, WithoutCode, AllSteps, Create, Delete, Final
<1>13. CASE DeleteCustomer(r)
  BY <1>13, MoveKeepsBonds
     DEF DeleteCustomer, Goto, request, dokaadmin, WithKey, WithoutCode, AllSteps, Create, Delete, Final
<1>14. CASE DropCs(r)
  <2>1. PICK outcome \in ScriptOutcomes :
          /\ cs' = IF Applied(outcome) THEN [cs EXCEPT ![code[r]] = None] ELSE cs
          /\ AfterScript(r, outcome, "drop_fs")
    BY <1>14 DEF DropCs
  <2>2. PICK step \in {"drop_fs", "failed"} : pc' = [pc EXCEPT ![r] = step]
    BY <2>1, ScriptMoves DEF AllSteps, Create, Delete
  <2>3. pc[r] = "drop_cs" /\ UNCHANGED <<code, customer, fs, keys>>
    BY <1>14 DEF DropCs, request, dokaadmin
  <2>4. \A q \in Requests : KeyKept(q)' /\ CodeChosen(q)'
    BY <2>2, <2>3 DEF Inv, TypeOK, KeyKept, CodeChosen, WithKey, WithoutCode, Create, Delete, Final
  <2>5. \A k \in Codes : SchemaPlaced(cs, k)' /\ SchemaPlaced(fs, k)'
    BY <2>1, <2>2, <2>3 DEF Inv, TypeOK, SchemaPlaced, WithoutCode, Ids
  <2> QED
    BY <2>3, <2>4, <2>5 DEF Bonds, Inv, KeyIsItsOwn, Exists
<1>15. CASE DropFs(r)
  <2>1. PICK outcome \in ScriptOutcomes :
          /\ fs' = IF Applied(outcome) THEN [fs EXCEPT ![code[r]] = None] ELSE fs
          /\ AfterScript(r, outcome, "commit_delete")
    BY <1>15 DEF DropFs
  <2>2. PICK step \in {"commit_delete", "failed"} : pc' = [pc EXCEPT ![r] = step]
    BY <2>1, ScriptMoves DEF AllSteps, Create, Delete
  <2>3. pc[r] = "drop_fs" /\ UNCHANGED <<code, customer, cs, keys>>
    BY <1>15 DEF DropFs, request, dokaadmin
  <2>4. \A q \in Requests : KeyKept(q)' /\ CodeChosen(q)'
    BY <2>2, <2>3 DEF Inv, TypeOK, KeyKept, CodeChosen, WithKey, WithoutCode, Create, Delete, Final
  <2>5. \A k \in Codes : SchemaPlaced(fs, k)' /\ SchemaPlaced(cs, k)'
    BY <2>1, <2>2, <2>3 DEF Inv, TypeOK, SchemaPlaced, WithoutCode, Ids
  <2> QED
    BY <2>3, <2>4, <2>5 DEF Bonds, Inv, KeyIsItsOwn, Exists
<1>16. CASE CommitDelete(r)
  <2>1. PICK step \in {"deleted", "failed"} : pc' = [pc EXCEPT ![r] = step]
    BY <1>16, CommitMoves DEF CommitDelete, AllSteps, Final
  <2>2. /\ pc[r] = "commit_delete"
        /\ customer' = IF del_row[r] THEN [customer EXCEPT ![code[r]] = None] ELSE customer
        /\ UNCHANGED <<code, cs, fs, keys>>
    BY <1>16 DEF CommitDelete, request
  <2>3. \A q \in Requests : KeyKept(q)' /\ CodeChosen(q)'
    BY <2>1, <2>2 DEF Inv, TypeOK, KeyKept, CodeChosen, WithKey, WithoutCode, Create, Delete, Final
  <2>4. \A k \in Codes : SchemaPlaced(cs, k)' /\ SchemaPlaced(fs, k)'
    BY <2>1, <2>2 DEF Inv, TypeOK, SchemaPlaced, WithoutCode, Ids
  <2>5. KeyIsItsOwn'
    BY <2>2 DEF Inv, TypeOK, KeyIsItsOwn, Exists
  <2> QED
    BY <2>3, <2>4, <2>5 DEF Bonds
<1>17. CASE Abort(r)
  BY <1>17, MoveKeepsBonds
     DEF Abort, EndTransaction, Goto, request, dokaadmin, WithKey, WithoutCode, AllSteps, Create, Delete, Final
<1> QED
  BY <1>1, <1>2, <1>3, <1>4, <1>5, <1>6, <1>7, <1>8, <1>9, <1>10, <1>11, <1>12, <1>13, <1>14, <1>15, <1>16, <1>17 DEF Step

(* The two actions that choose a code themselves. *)
LEMMA BeginDeleteStep ==
  ASSUME Inv, NEW r \in Requests, NEW c \in Codes, BeginDelete(r, c)
  PROVE  Inv'
<1>1. /\ pc[r] = "idle"
      /\ pc' = [pc EXCEPT ![r] = "search"]
      /\ code' = [code EXCEPT ![r] = c]
      /\ UNCHANGED <<customer, cs, fs, keys>>
  BY DEF BeginDelete, Goto, dokaadmin
<1>2. TypeOK'
  BY DEF Inv, BeginDelete, Goto, TypeOK, Delete, trans, dokaadmin
<1>3. \A q \in Requests : KeyKept(q)' /\ CodeChosen(q)'
  BY <1>1 DEF Inv, TypeOK, KeyKept, CodeChosen, WithKey, WithoutCode, Create
<1>4. \A k \in Codes : SchemaPlaced(cs, k)' /\ SchemaPlaced(fs, k)'
  BY <1>1 DEF Inv, TypeOK, SchemaPlaced, WithoutCode, Ids
<1>5. KeyIsItsOwn'
  BY <1>1 DEF Inv, KeyIsItsOwn, Exists
<1> QED
  BY <1>2, <1>3, <1>4, <1>5 DEF Inv

LEMMA SetRemovableStep ==
  ASSUME Inv, NEW c \in Codes, SetRemovable(c)
  PROVE  Inv'
<1>1. /\ customer[c] \in Customers
      /\ customer' = [customer EXCEPT ![c].removable = TRUE]
      /\ UNCHANGED <<pc, request, trans, appuser, cs, fs, keys>>
  BY DEF Inv, TypeOK, SetRemovable, Exists
<1>2. [customer[c] EXCEPT !.removable = TRUE] \in Customers
  BY <1>1 DEF Customers
<1>3. TypeOK'
  BY <1>1, <1>2 DEF Inv, TypeOK, request, trans
<1>4. \A q \in Requests : KeyKept(q)' /\ CodeChosen(q)'
  BY <1>1 DEF Inv, KeyKept, CodeChosen, request
<1>5. \A k \in Codes : SchemaPlaced(cs, k)' /\ SchemaPlaced(fs, k)'
  BY <1>1 DEF Inv, SchemaPlaced, request
<1>6. [customer[c] EXCEPT !.removable = TRUE].id = customer[c].id
  BY <1>1 DEF Customers
<1>7. KeyIsItsOwn'
  BY <1>1, <1>6 DEF Inv, TypeOK, KeyIsItsOwn, Exists, SetRemovable
<1> QED
  BY <1>3, <1>4, <1>5, <1>7 DEF Inv

-----------------------------------------------------------------------------
(* The theorems *)

(***************************************************************************)
(* The invariant: who has a key keeps it, a schema lies under the code of  *)
(* its creator, and a customer has its own key.                            *)
(***************************************************************************)
THEOREM InvHolds == Spec => []Inv
<1>1. Init => Inv
  BY DEF Init, Inv, TypeOK, KeyKept, CodeChosen, SchemaPlaced, KeyIsItsOwn, Exists,
         WithKey, WithoutCode, Create, Ids
<1>2. Inv /\ [Next]_vars => Inv'
  <2> SUFFICES ASSUME Inv, [Next]_vars
               PROVE  Inv'
    OBVIOUS
  <2>1. ASSUME NEW r \in Requests, BeginCreate(r) \/ Step(r) PROVE Inv'
    BY <2>1, TypeStep, BondStep DEF Inv, Bonds
  <2>2. ASSUME NEW r \in Requests, NEW c \in Codes, BeginDelete(r, c) PROVE Inv'
    BY <2>2, BeginDeleteStep
  <2>3. ASSUME NEW c \in Codes, SetRemovable(c) PROVE Inv'
    BY <2>3, SetRemovableStep
  <2>4. CASE UNCHANGED vars
    BY <2>4 DEF vars, request, trans, dokaadmin, Inv, TypeOK, KeyKept, CodeChosen,
                SchemaPlaced, KeyIsItsOwn, Exists
  <2> QED
    BY <2>1, <2>2, <2>3, <2>4 DEF Next
<1> QED
  BY <1>1, <1>2, PTL DEF Spec

(***************************************************************************)
(* The requests, their transactions and the tables keep their types.       *)
(***************************************************************************)
THEOREM TypeCorrect == Spec => []TypeOK
<1>1. Inv => TypeOK
  BY DEF Inv
<1> QED
  BY <1>1, InvHolds, PTL

(***************************************************************************)
(* No customer is ever created on the key of another request, for any      *)
(* number of requests that draw any codes and fail anywhere.               *)
(***************************************************************************)
THEOREM KeysAreOwn == Spec => []KeyIsItsOwn
<1>1. Inv => KeyIsItsOwn
  BY DEF Inv
<1> QED
  BY <1>1, InvHolds, PTL

(***************************************************************************)
(* No customer finds the schemas of an earlier customer under its code.    *)
(***************************************************************************)
THEOREM NothingInherited == Spec => []NoInheritedData
<1>1. Inv => NoInheritedData
  <2> SUFFICES ASSUME Inv, NEW c \in Codes, Exists(c)
               PROVE  ~Inherits(cs, c) /\ ~Inherits(fs, c)
    BY DEF NoInheritedData
  <2>1. keys[c] = customer[c].id
    BY DEF Inv, KeyIsItsOwn
  <2>2. ~Inherits(cs, c)
    <3> SUFFICES ASSUME Inherits(cs, c) PROVE FALSE
      OBVIOUS
    <3>1. cs[c] \in Requests /\ pc[cs[c]] = "created" /\ cs[c] # customer[c].id
      BY DEF Inherits, Inv, TypeOK, Ids
    <3>2. code[cs[c]] = c
      BY <3>1, NoneAssumption DEF Inv, SchemaPlaced
    <3>3. keys[c] = cs[c]
      BY <3>1, <3>2 DEF Inv, KeyKept, WithKey
    <3> QED
      BY <2>1, <3>1, <3>3
  <2>3. ~Inherits(fs, c)
    <3> SUFFICES ASSUME Inherits(fs, c) PROVE FALSE
      OBVIOUS
    <3>1. fs[c] \in Requests /\ pc[fs[c]] = "created" /\ fs[c] # customer[c].id
      BY DEF Inherits, Inv, TypeOK, Ids
    <3>2. code[fs[c]] = c
      BY <3>1, NoneAssumption DEF Inv, SchemaPlaced
    <3>3. keys[c] = fs[c]
      BY <3>1, <3>2 DEF Inv, KeyKept, WithKey
    <3> QED
      BY <2>1, <3>1, <3>3
  <2> QED
    BY <2>2, <2>3
<1> QED
  BY <1>1, InvHolds, PTL

-----------------------------------------------------------------------------
(***************************************************************************)
(* Users, customers and locks.  The administrator of a customer is in the  *)
(* table as long as the customer, because the transaction that deletes the *)
(* user holds its lock until it deletes the customer as well; a code that  *)
(* was given to a customer is never given to another one, because its key  *)
(* stays.                                                                  *)
(***************************************************************************)

(* The code has had its customer, if it ever gets one. *)
Settled(c) == keys[c] \in Requests /\ pc[keys[c]] \in Final

Owned(c) ==
  Exists(c) =>
    /\ pc[customer[c].id] \in Final
    /\ code[customer[c].id] = c
    /\ appuser[login[customer[c].id]] = customer[c].id

Used(l) ==
  appuser[l] # None =>
    /\ login[appuser[l]] = l
    /\ code[appuser[l]] \in Codes /\ Exists(code[appuser[l]])
    /\ customer[code[appuser[l]]].id = appuser[l]

(* What a deletion has deleted, and may yet delete *)
Dropping == {"drop_cs", "drop_fs", "commit_delete"}

Deleting(r) ==
  /\ pc[r] \in Delete => code[r] \in Codes
  /\ pc[r] \notin {"delete_customer"} \cup Dropping => del_users[r] = {}
  /\ pc[r] \notin Dropping => ~del_row[r]
  /\ pc[r] \in Dropping => (del_row[r] <=> del_users[r] # {})
  /\ pc[r] \in {"delete_users", "delete_customer"} => Settled(code[r])
  /\ pc[r] = "delete_users" /\ Exists(code[r]) => customer[code[r]].removable
  /\ pc[r] = "delete_customer" /\ Exists(code[r]) => del_users[r] # {}
  /\ del_users[r] # {} => Removable(code[r]) /\ del_users[r] = Users(code[r])

Locking(q, r) ==
  /\ pc[q] = "commit_create" => appuser[login[q]] = None
  /\ q # r =>
       /\ pc[q] = "commit_create" /\ pc[r] = "commit_create" => login[q] # login[r]
       /\ del_users[q] \cap del_users[r] = {}

Match ==
  /\ \A c \in Codes : Owned(c)
  /\ \A l \in Logins : Used(l)
  /\ \A r \in Requests : Deleting(r)
  /\ \A q, r \in Requests : Locking(q, r)

(* Facts that Inv and Match give together *)
LEMMA AdminIsTheUser ==
  ASSUME Inv, Match, NEW c \in Codes, Exists(c)
  PROVE  /\ customer[c].id \in Requests /\ keys[c] = customer[c].id /\ Settled(c)
         /\ login[customer[c].id] \in Users(c) /\ Users(c) # {}
         /\ \A l \in Users(c) : appuser[l] = customer[c].id
<1>1. customer[c] \in Customers
  BY DEF Inv, TypeOK, Exists
<1>2. customer[c].id \in Requests
  BY <1>1 DEF Customers
<1>3. keys[c] = customer[c].id
  BY DEF Inv, KeyIsItsOwn
<1>4. login[customer[c].id] \in Logins
  BY <1>2 DEF Inv, TypeOK
<1> QED
  BY <1>2, <1>3, <1>4 DEF Match, Owned, Settled, Users

LEMMA NoRowYet ==
  ASSUME Inv, Match, NEW r \in Requests,
         pc[r] \in {"insert_customer", "insert_user", "commit_create"}
  PROVE  ~Exists(code[r]) /\ ~Settled(code[r]) /\ code[r] \in Codes /\ keys[code[r]] = r
<1>1. keys[code[r]] = r /\ code[r] \in Codes
  BY DEF Inv, KeyKept, CodeChosen, WithKey, WithoutCode, Create
<1>2. ~Settled(code[r])
  BY <1>1 DEF Settled, Final
<1> QED
  BY <1>1, <1>2, AdminIsTheUser

LEMMA OneDeletion ==
  ASSUME Inv, Match, NEW q \in Requests, NEW r \in Requests,
         del_users[q] # {}, del_users[r] # {}, code[q] = code[r]
  PROVE  q = r
  BY DEF Match, Deleting, Locking

LEMMA RowsToDelete ==
  ASSUME Inv, Match, NEW r \in Requests
  PROVE  /\ del_row[r] => del_users[r] # {}
         /\ del_users[r] # {} => /\ pc[r] \in {"delete_customer"} \cup Dropping
                                 /\ code[r] \in Codes /\ Exists(code[r])
                                 /\ del_users[r] = Users(code[r])
  BY DEF Match, Deleting, Removable, Dropping, Delete

-----------------------------------------------------------------------------
(* Steps that leave the tables of dokaadmin alone *)

LEMMA MoveKeepsMatch ==
  ASSUME Inv, Match, NEW r \in Requests, NEW step,
         pc' = [pc EXCEPT ![r] = step], pc[r] \notin Final,
         UNCHANGED <<login, customer, appuser>>,
         \A q \in Requests \ {r} :
           del_users'[q] = del_users[q] /\ del_row'[q] = del_row[q] /\ code'[q] = code[q],
         \A c \in Codes : keys[c] # None => keys'[c] = keys[c],
         Deleting(r)',
         \A q \in Requests \ {r} : del_users'[r] \cap del_users[q] = {},
         step = "commit_create" => appuser[login[r]] = None /\ LoginLocks(login[r]) \subseteq {r}
  PROVE  Match'
<1>1. \A q \in Requests \ {r} : pc'[q] = pc[q]
  BY DEF Inv, TypeOK
<1>2. pc'[r] = step
  BY DEF Inv, TypeOK
<1>3. \A q \in Requests : pc[q] \in Final => pc'[q] = pc[q] /\ code'[q] = code[q]
  BY <1>1
<1>4. ASSUME NEW c \in Codes PROVE Owned(c)'
  <2> SUFFICES ASSUME Exists(c) PROVE Owned(c)'
    BY DEF Owned, Exists
  <2>1. customer[c].id \in Requests
    BY AdminIsTheUser
  <2> QED
    BY <1>3, <2>1 DEF Match, Owned, Exists
<1>5. ASSUME NEW l \in Logins PROVE Used(l)'
  <2> SUFFICES ASSUME appuser[l] # None PROVE Used(l)'
    BY DEF Used
  <2>1. /\ appuser[l] \in Requests /\ login[appuser[l]] = l
        /\ code[appuser[l]] \in Codes /\ Exists(code[appuser[l]])
        /\ customer[code[appuser[l]]].id = appuser[l]
    BY DEF Match, Used, Inv, TypeOK, Ids
  <2>2. pc[appuser[l]] \in Final
    BY <2>1 DEF Match, Owned
  <2> QED
    BY <1>3, <2>1, <2>2 DEF Used, Exists
<1>6. \A c \in Codes : Settled(c) => Settled(c)'
  BY <1>3, NoneAssumption DEF Settled
<1>7. ASSUME NEW q \in Requests PROVE Deleting(q)'
  <2>1. CASE q # r
    <3>1. /\ pc'[q] = pc[q] /\ code'[q] = code[q] /\ del_users'[q] = del_users[q] /\ del_row'[q] = del_row[q]
          /\ customer' = customer /\ appuser' = appuser
      BY <1>1, <2>1
    <3>2. pc[q] \in {"delete_users", "delete_customer"} => code[q] \in Codes
      BY DEF Match, Deleting, Delete
    <3> QED
      BY <1>6, <3>1, <3>2 DEF Match, Deleting, Exists, Removable, Users
  <2> QED
    BY <2>1
<1>8. ASSUME NEW p \in Requests, NEW q \in Requests PROVE Locking(p, q)'
  <2>1. pc'[p] = "commit_create" => appuser[login[p]] = None
    BY <1>1, <1>2 DEF Match, Locking
  <2>2. ASSUME p # q, pc'[p] = "commit_create", pc'[q] = "commit_create" PROVE login[p] # login[q]
    <3>1. CASE p = r
      BY <1>1, <1>2, <2>2, <3>1 DEF LoginLocks
    <3>2. CASE q = r
      BY <1>1, <1>2, <2>2, <3>2 DEF LoginLocks
    <3>3. CASE p # r /\ q # r
      BY <1>1, <2>2, <3>3 DEF Match, Locking
    <3> QED
      BY <3>1, <3>2, <3>3
  <2>3. ASSUME p # q PROVE del_users'[p] \cap del_users'[q] = {}
    <3>1. CASE p = r
      BY <2>3, <3>1
    <3>2. CASE q = r
      BY <2>3, <3>2
    <3>3. CASE p # r /\ q # r
      BY <2>3, <3>3 DEF Match, Locking
    <3> QED
      BY <3>1, <3>2, <3>3
  <2> QED
    BY <2>1, <2>2, <2>3 DEF Locking
<1> QED
  BY <1>4, <1>5, <1>7, <1>8 DEF Match

(* The request that ends without a commit deletes nothing. *)
LEMMA EndKeepsMatch ==
  ASSUME Inv, Match, NEW r \in Requests, EndTransaction(r, "failed"), pc[r] \notin Final,
         UNCHANGED <<request, customer, appuser>>,
         \A c \in Codes : keys[c] # None => keys'[c] = keys[c]
  PROVE  Match'
<1>1. pc' = [pc EXCEPT ![r] = "failed"]
  BY DEF EndTransaction, Goto
<1>2. del_users'[r] = {} /\ ~del_row'[r] /\ pc'[r] = "failed"
  BY <1>1 DEF EndTransaction, Inv, TypeOK
<1>3. Deleting(r)'
  BY <1>2 DEF Deleting, Delete, Dropping
<1>4. \A q \in Requests \ {r} : del_users'[q] = del_users[q] /\ del_row'[q] = del_row[q]
  BY DEF EndTransaction, Inv, TypeOK
<1>5. code' = code /\ login' = login
  BY DEF request
<1> QED
  BY <1>1, <1>2, <1>3, <1>4, <1>5, MoveKeepsMatch

(* The steps before a transaction writes *)
LEMMA EarlyMoveKeepsMatch ==
  ASSUME Inv, Match, NEW r \in Requests, NEW step,
         pc' = [pc EXCEPT ![r] = step], pc[r] \notin Final,
         UNCHANGED <<login, trans, customer, appuser>>,
         \A q \in Requests \ {r} : code'[q] = code[q],
         step \in Delete => code'[r] \in Codes,
         \A c \in Codes : keys[c] # None => keys'[c] = keys[c],
         pc[r] \notin {"delete_customer"} \cup Dropping,
         step \notin {"delete_users", "delete_customer"},
         step = "commit_create" => appuser[login[r]] = None /\ LoginLocks(login[r]) \subseteq {r}
  PROVE  Match'
<1>1. pc'[r] = step /\ del_users' = del_users /\ del_row' = del_row
  BY DEF trans, Inv, TypeOK
<1>2. del_users[r] = {} /\ ~del_row[r]
  BY DEF Match, Deleting
<1>3. Deleting(r)'
  BY <1>1, <1>2 DEF Deleting
<1> QED
  BY <1>1, <1>2, <1>3, MoveKeepsMatch

(* drop_cs, drop_fs: the transaction waits for the schemas. *)
LEMMA DropKeepsMatch ==
  ASSUME Inv, Match, NEW r \in Requests, NEW step \in Dropping,
         pc' = [pc EXCEPT ![r] = step], pc[r] \in Dropping,
         UNCHANGED <<login, code, trans, customer, appuser, keys>>
  PROVE  Match'
<1>1. pc'[r] = step /\ del_users' = del_users /\ del_row' = del_row /\ pc[r] \notin Final
  BY DEF trans, Inv, TypeOK, Dropping, Final
<1>2. step \notin {"delete_users", "delete_customer", "commit_create"} /\ code[r] \in Codes
  BY DEF Dropping, Match, Deleting, Delete
<1>3. Deleting(r)'
  <2>1. del_row[r] <=> del_users[r] # {}
    BY DEF Match, Deleting
  <2>2. del_users[r] # {} => Removable(code[r]) /\ del_users[r] = Users(code[r])
    BY DEF Match, Deleting
  <2> QED
    BY <1>1, <1>2, <2>1, <2>2 DEF Deleting, Removable, Exists, Users
<1>4. \A q \in Requests \ {r} : del_users[r] \cap del_users[q] = {}
  BY DEF Match, Locking
<1> QED
  BY <1>1, <1>2, <1>3, <1>4, MoveKeepsMatch

LEMMA LoginOfUsers ==
  ASSUME Inv, Match, NEW c \in Codes, NEW l \in Users(c)
  PROVE  Exists(c) /\ l \in Logins /\ l = login[customer[c].id]
<1>1. Exists(c) /\ l \in Logins /\ appuser[l] = customer[c].id
  BY DEF Users
<1>2. appuser[l] # None
  BY <1>1, AdminIsTheUser, NoneAssumption
<1> QED
  BY <1>1, <1>2 DEF Match, Used

LEMMA CreateMatchStep ==
  ASSUME Inv, Match, NEW r \in Requests,
         \/ BeginCreate(r) \/ CheckName(r) \/ CheckLogin(r) \/ ChooseCode(r)
         \/ CsScript(r) \/ FsScript(r) \/ AddKey(r) \/ InsertCustomer(r) \/ InsertUser(r)
  PROVE  Match'
<1> USE DEF Create, Delete, Final, Dropping
<1>1. CASE BeginCreate(r)
  BY <1>1, EarlyMoveKeepsMatch DEF BeginCreate, Goto, request, dokaadmin
<1>2. CASE CheckName(r)
  BY <1>2, EarlyMoveKeepsMatch DEF CheckName, Goto, request, dokaadmin
<1>3. CASE CheckLogin(r)
  BY <1>3, EarlyMoveKeepsMatch DEF CheckLogin, Goto, request, dokaadmin
<1>4. CASE ChooseCode(r)
  <2>1. \A q \in Requests \ {r} : code'[q] = code[q]
    BY <1>4 DEF ChooseCode, Inv, TypeOK
  <2>2. pc' = [pc EXCEPT ![r] = "cs_script"] /\ pc[r] = "choose_code" /\ UNCHANGED <<login, trans, customer, appuser, keys>>
    BY <1>4 DEF ChooseCode, Goto, dokaadmin
  <2>3. /\ pc[r] \notin Final /\ pc[r] \notin {"delete_customer"} \cup Dropping
        /\ "cs_script" \notin Delete \cup {"delete_users", "delete_customer", "commit_create"}
    BY <2>2
  <2> QED
    BY <2>1, <2>2, <2>3, EarlyMoveKeepsMatch
<1>5. ASSUME NEW outcome, NEW next \in {"fs_script", "add_key"}, AfterScript(r, outcome, next),
             pc[r] \in {"cs_script", "fs_script"}, UNCHANGED <<request, dokaadmin, keys>>
      PROVE  Match'
  <2>1. CASE outcome = "lost"
    BY <1>5, <2>1, EndKeepsMatch DEF AfterScript, dokaadmin
  <2>2. CASE outcome # "lost"
    BY <1>5, <2>2, EarlyMoveKeepsMatch DEF AfterScript, Goto, request, dokaadmin
  <2> QED
    BY <2>1, <2>2
<1>6. CASE CsScript(r)
  BY <1>5, <1>6 DEF CsScript
<1>7. CASE FsScript(r)
  BY <1>5, <1>7 DEF FsScript
<1>8. CASE AddKey(r)
  <2>1. CASE keys[code[r]] # None
    BY <1>8, <2>1, EarlyMoveKeepsMatch DEF AddKey, Goto, request, dokaadmin
  <2>2. CASE keys[code[r]] = None
    <3>1. /\ keys' = [keys EXCEPT ![code[r]] = r] /\ AfterCommit(r, "insert_customer")
          /\ pc[r] = "add_key" /\ UNCHANGED <<request, dokaadmin>>
      BY <1>8, <2>2 DEF AddKey
    <3>2. \A c \in Codes : keys[c] # None => keys'[c] = keys[c]
      BY <2>2, <3>1 DEF Inv, TypeOK
    <3>3. CASE EndTransaction(r, "failed")
      BY <3>1, <3>2, <3>3, EndKeepsMatch DEF dokaadmin
    <3>4. CASE EndTransaction(r, "insert_customer")
      <4>1. del_users[r] = {} /\ del_row[r] = FALSE
        BY <3>1 DEF Match, Deleting, Inv, TypeOK
      <4>2. del_users' = del_users /\ del_row' = del_row /\ pc' = [pc EXCEPT ![r] = "insert_customer"]
        BY <3>4, <4>1 DEF EndTransaction, Goto, Inv, TypeOK
      <4> QED
        BY <3>1, <3>2, <4>2, EarlyMoveKeepsMatch DEF trans, request, dokaadmin
    <3> QED
      BY <3>1, <3>3, <3>4 DEF AfterCommit
  <2> QED
    BY <2>1, <2>2
<1>9. CASE InsertCustomer(r)
  <2>1. PICK step \in {"failed", "insert_user"} : pc' = [pc EXCEPT ![r] = step]
    BY <1>9 DEF InsertCustomer, Goto
  <2>2. pc[r] = "insert_customer" /\ UNCHANGED <<login, code, trans, customer, appuser, keys>>
    BY <1>9 DEF InsertCustomer, request, dokaadmin
  <2> QED
    BY <2>1, <2>2, EarlyMoveKeepsMatch
<1>10. CASE InsertUser(r)
  <2>1. PICK step \in {"failed", "commit_create"} :
          /\ pc' = [pc EXCEPT ![r] = step]
          /\ step = "commit_create" => appuser[login[r]] = None
    BY <1>10 DEF InsertUser, Goto
  <2>2. /\ pc[r] = "insert_user" /\ LoginLocks(login[r]) \subseteq {r}
        /\ UNCHANGED <<login, code, trans, customer, appuser, keys>>
    BY <1>10 DEF InsertUser, request, dokaadmin
  <2> QED
    BY <2>1, <2>2, EarlyMoveKeepsMatch
<1> QED
  BY <1>1, <1>2, <1>3, <1>4, <1>6, <1>7, <1>8, <1>9, <1>10

LEMMA BeginDeleteMatch ==
  ASSUME Inv, Match, NEW r \in Requests, NEW c \in Codes, BeginDelete(r, c)
  PROVE  Match'
<1>1. code'[r] = c /\ \A q \in Requests \ {r} : code'[q] = code[q]
  BY DEF BeginDelete, Inv, TypeOK
<1>2. pc[r] = "idle" /\ pc' = [pc EXCEPT ![r] = "search"] /\ UNCHANGED <<login, trans, customer, appuser, keys>>
  BY DEF BeginDelete, Goto, dokaadmin
<1>3. /\ pc[r] \notin Final /\ pc[r] \notin {"delete_customer"} \cup Dropping
      /\ "search" \notin {"delete_users", "delete_customer", "commit_create"}
  BY <1>2 DEF Final, Dropping
<1> QED
  BY <1>1, <1>2, <1>3, EarlyMoveKeepsMatch

LEMMA SearchMatch ==
  ASSUME Inv, Match, NEW r \in Requests, Search(r)
  PROVE  Match'
<1>1. pc[r] = "search" /\ code[r] \in Codes /\ UNCHANGED <<login, code, trans, customer, appuser, keys>>
  BY DEF Search, Match, Deleting, Delete, request, dokaadmin
<1>2. CASE pc' = [pc EXCEPT ![r] = "drop_cs"] \/ pc' = [pc EXCEPT ![r] = "failed"]
  BY <1>1, <1>2, EarlyMoveKeepsMatch DEF Delete, Final, Dropping
<1>3. CASE pc' = [pc EXCEPT ![r] = "delete_users"] /\ Exists(code[r]) /\ customer[code[r]].removable
  <2>1. pc'[r] = "delete_users" /\ del_users' = del_users /\ del_row' = del_row
    BY <1>1, <1>3 DEF trans, Inv, TypeOK
  <2>2. del_users[r] = {} /\ ~del_row[r]
    BY <1>1 DEF Match, Deleting, Dropping
  <2>3. Settled(code[r]) /\ keys[code[r]] # r
    BY <1>1, <1>3, AdminIsTheUser DEF Settled, Final
  <2>4. Settled(code[r])'
    BY <1>1, <1>3, <2>3 DEF Settled, Inv, TypeOK
  <2>5. Deleting(r)'
    BY <1>1, <1>3, <2>1, <2>2, <2>4 DEF Deleting, Dropping, Exists
  <2> QED
    BY <1>1, <1>3, <2>1, <2>2, <2>5, MoveKeepsMatch DEF Final
<1> QED
  BY <1>2, <1>3 DEF Search, Goto

LEMMA DropMatch ==
  ASSUME Inv, Match, NEW r \in Requests, DropCs(r) \/ DropFs(r)
  PROVE  Match'
<1>1. \E outcome : AfterScript(r, outcome, "drop_fs") \/ AfterScript(r, outcome, "commit_delete")
  BY DEF DropCs, DropFs
<1>2. pc[r] \in Dropping /\ pc[r] \notin Final /\ UNCHANGED <<request, login, code, customer, appuser, keys>>
  BY DEF DropCs, DropFs, Dropping, Final, request, dokaadmin
<1>3. ASSUME NEW outcome, NEW next \in Dropping, AfterScript(r, outcome, next) PROVE Match'
  <2>1. CASE outcome = "lost"
    BY <1>2, <1>3, <2>1, EndKeepsMatch DEF AfterScript
  <2>2. CASE outcome # "lost"
    BY <1>2, <1>3, <2>2, DropKeepsMatch DEF AfterScript, Goto
  <2> QED
    BY <2>1, <2>2
<1> QED
  BY <1>1, <1>3 DEF Dropping

LEMMA AbortMatch ==
  ASSUME Inv, Match, NEW r \in Requests, Abort(r)
  PROVE  Match'
<1>1. EndTransaction(r, "failed") /\ UNCHANGED <<request, customer, appuser, keys>> /\ pc[r] \notin Final
  BY DEF Abort, dokaadmin, Create, Delete, Final
<1> QED
  BY <1>1, EndKeepsMatch

-----------------------------------------------------------------------------
(* The steps that delete and commit *)

LEMMA DeleteUsersMatch ==
  ASSUME Inv, Match, NEW r \in Requests, DeleteUsers(r)
  PROVE  Match'
<1> DEFINE c == code[r]
           deleted == IF Removable(c) THEN Users(c) ELSE {}
<1>1. /\ pc[r] = "delete_users" /\ pc' = [pc EXCEPT ![r] = "delete_customer"]
      /\ del_users' = [del_users EXCEPT ![r] = deleted]
      /\ UNCHANGED <<login, code, del_row, customer, appuser, keys>>
      /\ \A l \in Users(c) : LoginLocks(l) = {}
  BY DEF DeleteUsers, Goto, request, dokaadmin
<1>2. /\ c \in Codes /\ ~del_row[r] /\ Settled(c)
      /\ Exists(c) => customer[c].removable
  BY <1>1 DEF Match, Deleting, Delete, Dropping
<1>3. keys[c] # r
  BY <1>1, <1>2 DEF Settled, Final
<1>4. Settled(c)'
  BY <1>1, <1>2, <1>3 DEF Settled, Inv, TypeOK
<1>5. /\ pc'[r] = "delete_customer" /\ del_users'[r] = deleted /\ ~del_row'[r]
      /\ \A q \in Requests \ {r} : del_users'[q] = del_users[q]
  BY <1>1, <1>2 DEF Inv, TypeOK
<1>6. Exists(c) => deleted = Users(c) /\ deleted # {}
  BY <1>2, AdminIsTheUser DEF Removable
<1>7. deleted # {} => Removable(c) /\ deleted = Users(c)
  OBVIOUS
<1> HIDE DEF deleted
<1>8. Deleting(r)'
  BY <1>1, <1>2, <1>4, <1>5, <1>6, <1>7 DEF Deleting, Dropping, Exists, Removable, Users
<1>9. \A q \in Requests \ {r} : deleted \cap del_users[q] = {}
  BY <1>1, <1>7 DEF LoginLocks
<1> QED
  BY <1>1, <1>5, <1>8, <1>9, MoveKeepsMatch DEF Final

LEMMA DeleteCustomerMatch ==
  ASSUME Inv, Match, NEW r \in Requests, DeleteCustomer(r)
  PROVE  Match'
<1>1. /\ pc[r] = "delete_customer" /\ pc' = [pc EXCEPT ![r] = "drop_cs"]
      /\ del_row' = [del_row EXCEPT ![r] = Removable(code[r])]
      /\ UNCHANGED <<login, code, del_users, customer, appuser, keys>>
  BY DEF DeleteCustomer, Goto, request, dokaadmin
<1>2. /\ code[r] \in Codes
      /\ Exists(code[r]) => del_users[r] # {}
      /\ del_users[r] # {} => Removable(code[r]) /\ del_users[r] = Users(code[r])
  BY <1>1 DEF Match, Deleting, Delete
<1>3. /\ pc'[r] = "drop_cs" /\ del_row'[r] = Removable(code[r])
      /\ \A q \in Requests \ {r} : del_row'[q] = del_row[q]
  BY <1>1 DEF Inv, TypeOK
<1>4. Removable(code[r]) <=> del_users[r] # {}
  BY <1>2 DEF Removable
<1>5. Deleting(r)'
  BY <1>1, <1>2, <1>3, <1>4 DEF Deleting, Dropping, Exists, Removable, Users
<1>6. \A q \in Requests \ {r} : del_users[r] \cap del_users[q] = {}
  BY DEF Match, Locking
<1> QED
  BY <1>1, <1>3, <1>5, <1>6, MoveKeepsMatch DEF Final

LEMMA CommitCreateMatch ==
  ASSUME Inv, Match, NEW r \in Requests, CommitCreate(r)
  PROVE  Match'
<1> DEFINE row == [id |-> r, name |-> name[r], removable |-> FALSE]
<1>1. /\ pc[r] = "commit_create" /\ AfterCommit(r, "created")
      /\ customer' = [customer EXCEPT ![code[r]] = row]
      /\ appuser' = [appuser EXCEPT ![login[r]] = r]
      /\ UNCHANGED <<login, code, keys>>
  BY DEF CommitCreate, request
<1>2. ~Exists(code[r]) /\ code[r] \in Codes /\ keys[code[r]] = r
  BY <1>1, NoRowYet
<1>3. login[r] \in Logins /\ appuser[login[r]] = None
  BY <1>1 DEF Match, Locking, Inv, TypeOK
<1>4. del_users[r] = {} /\ ~del_row[r]
  BY <1>1 DEF Match, Deleting, Dropping
<1>5. /\ pc'[r] \in {"created", "failed"} /\ \A q \in Requests \ {r} : pc'[q] = pc[q]
      /\ \A q \in Requests : del_users'[q] = del_users[q] /\ del_row'[q] = del_row[q]
  BY <1>1, <1>4 DEF AfterCommit, EndTransaction, Goto, Inv, TypeOK
<1>6. /\ customer'[code[r]].id = r /\ Exists(code[r])'
      /\ \A c \in Codes \ {code[r]} : customer'[c] = customer[c] /\ (Exists(c)' <=> Exists(c))
  <2>1. row \in Customers
    BY DEF Customers, Inv, TypeOK
  <2>2. row # None
    BY <2>1, NoneAssumption
  <2> QED
    BY <1>1, <1>2, <2>2 DEF Inv, TypeOK, Exists
<1>7. appuser'[login[r]] = r /\ \A l \in Logins \ {login[r]} : appuser'[l] = appuser[l]
  BY <1>1, <1>3 DEF Inv, TypeOK
<1>8. \A q \in Requests : pc[q] \in Final => pc'[q] = pc[q]
  BY <1>1, <1>5 DEF Final
<1> HIDE DEF row
<1>9. code' = code /\ login' = login /\ keys' = keys
  BY <1>1
<1>10. ASSUME NEW c \in Codes PROVE Owned(c)'
  <2>1. CASE c = code[r]
    BY <1>5, <1>6, <1>7, <1>9, <2>1 DEF Owned, Final
  <2>2. CASE c # code[r] /\ Exists(c)
    <3>1. customer[c].id \in Requests /\ login[customer[c].id] \in Logins
      BY <2>2, AdminIsTheUser DEF Inv, TypeOK
    <3>2. /\ pc[customer[c].id] \in Final /\ code[customer[c].id] = c
          /\ appuser[login[customer[c].id]] = customer[c].id
      BY <2>2 DEF Match, Owned
    <3>3. login[customer[c].id] # login[r]
      BY <1>3, <3>1, <3>2, NoneAssumption
    <3> QED
      BY <1>6, <1>7, <1>8, <1>9, <2>2, <3>1, <3>2, <3>3 DEF Owned
  <2>3. CASE c # code[r] /\ ~Exists(c)
    BY <1>6, <2>3 DEF Owned
  <2> QED
    BY <2>1, <2>2, <2>3
<1>11. ASSUME NEW l \in Logins PROVE Used(l)'
  <2>1. CASE l = login[r]
    BY <1>2, <1>6, <1>7, <1>9, <2>1 DEF Used
  <2>2. CASE l # login[r] /\ appuser[l] # None
    <3>1. /\ login[appuser[l]] = l /\ code[appuser[l]] \in Codes /\ Exists(code[appuser[l]])
          /\ customer[code[appuser[l]]].id = appuser[l]
      BY <2>2 DEF Match, Used
    <3>2. code[appuser[l]] # code[r]
      BY <1>2, <3>1
    <3> QED
      BY <1>6, <1>7, <1>9, <2>2, <3>1, <3>2 DEF Used
  <2>3. CASE l # login[r] /\ appuser[l] = None
    BY <1>7, <2>3 DEF Used
  <2> QED
    BY <2>1, <2>2, <2>3
<1>12. ASSUME NEW q \in Requests PROVE Deleting(q)'
  <2>1. CASE q = r
    BY <1>4, <1>5, <2>1 DEF Deleting, Delete, Dropping
  <2>2. CASE q # r
    <3>1. pc'[q] = pc[q] /\ del_users'[q] = del_users[q] /\ del_row'[q] = del_row[q]
      BY <1>5, <2>2
    <3>2. ~Settled(code[r])
      BY <1>1, NoRowYet
    <3>3. pc[q] \in {"delete_users", "delete_customer"} =>
            code[q] \in Codes \ {code[r]} /\ Settled(code[q]) /\ Settled(code[q])'
      BY <1>8, <1>9, <3>2 DEF Match, Deleting, Delete, Settled
    <3>4. del_users[q] # {} => code[q] \in Codes \ {code[r]} /\ Exists(code[q])
      BY <1>2, RowsToDelete
    <3>5. del_users[q] # {} => Users(code[q])' = Users(code[q])
      <4>1. SUFFICES ASSUME del_users[q] # {} PROVE Users(code[q])' = Users(code[q])
        OBVIOUS
      <4>2. customer'[code[q]] = customer[code[q]] /\ Exists(code[q]) /\ Exists(code[q])'
        BY <1>6, <1>9, <3>4, <4>1 DEF Exists
      <4>3. customer[code[q]].id \in Requests /\ customer[code[q]].id # r
        BY <1>1, <3>4, <4>1, AdminIsTheUser DEF Match, Owned, Final
      <4>4. \A l \in Logins : appuser'[l] = customer[code[q]].id <=> appuser[l] = customer[code[q]].id
        BY <1>3, <1>7, <4>3, NoneAssumption
      <4> QED
        BY <1>9, <4>2, <4>4 DEF Users
    <3>6. del_users[q] # {} => Removable(code[q])' /\ del_users[q] = Users(code[q])'
      BY <1>6, <1>9, <3>4, <3>5 DEF Match, Deleting, Removable
    <3> QED
      BY <1>6, <1>9, <3>1, <3>3, <3>6 DEF Match, Deleting
  <2> QED
    BY <2>1, <2>2
<1>13. ASSUME NEW p \in Requests, NEW q \in Requests PROVE Locking(p, q)'
  <2>1. pc'[p] = "commit_create" => p # r /\ pc[p] = "commit_create"
    BY <1>5
  <2>2. pc'[q] = "commit_create" => q # r /\ pc[q] = "commit_create"
    BY <1>5
  <2>3. pc'[p] = "commit_create" => login[p] \in Logins /\ login[p] # login[r] /\ appuser[login[p]] = None
    BY <1>1, <2>1 DEF Match, Locking, Inv, TypeOK
  <2> QED
    BY <1>5, <1>7, <1>9, <2>1, <2>2, <2>3 DEF Match, Locking
<1> QED
  BY <1>10, <1>11, <1>12, <1>13 DEF Match

LEMMA CommitDeleteMatch ==
  ASSUME Inv, Match, NEW r \in Requests, CommitDelete(r)
  PROVE  Match'
<1>1. /\ pc[r] = "commit_delete" /\ AfterCommit(r, "deleted")
      /\ appuser' = [l \in Logins |-> IF l \in del_users[r] THEN None ELSE appuser[l]]
      /\ customer' = IF del_row[r] THEN [customer EXCEPT ![code[r]] = None] ELSE customer
      /\ code' = code /\ login' = login /\ keys' = keys
  BY DEF CommitDelete, request
<1>2. /\ code[r] \in Codes /\ (del_row[r] <=> del_users[r] # {})
      /\ del_row[r] => Exists(code[r]) /\ del_users[r] = Users(code[r])
  BY <1>1, RowsToDelete DEF Match, Deleting, Dropping, Delete
<1>3. /\ pc'[r] \in {"deleted", "failed"} /\ \A q \in Requests \ {r} : pc'[q] = pc[q]
      /\ del_users'[r] = {} /\ ~del_row'[r]
      /\ \A q \in Requests \ {r} : del_users'[q] = del_users[q] /\ del_row'[q] = del_row[q]
  BY <1>1 DEF AfterCommit, EndTransaction, Goto, Inv, TypeOK
<1>4. \A q \in Requests : pc[q] \in Final => pc'[q] = pc[q]
  BY <1>1, <1>3 DEF Final
<1>5. \A c \in Codes : IF del_row[r] /\ c = code[r] THEN ~Exists(c)' ELSE customer'[c] = customer[c] /\ Exists(c)' = Exists(c)
  BY <1>1 DEF Exists, Inv, TypeOK
<1>6. \A l \in Logins : appuser'[l] = IF l \in del_users[r] THEN None ELSE appuser[l]
  BY <1>1
<1>7. ASSUME NEW c \in Codes, Exists(c), NEW l \in Users(c), ~(del_row[r] /\ c = code[r])
      PROVE  l \notin del_users[r]
  BY <1>2, <1>7, AdminIsTheUser DEF Match, Owned
<1>8. ASSUME NEW c \in Codes PROVE Owned(c)'
  <2>1. CASE Exists(c)'
    <3>1. Exists(c) /\ ~(del_row[r] /\ c = code[r]) /\ customer'[c] = customer[c]
      BY <1>5, <2>1
    <3>2. customer[c].id \in Requests /\ login[customer[c].id] \in Users(c)
      BY <3>1, AdminIsTheUser
    <3>3. login[customer[c].id] \in Logins \ del_users[r]
      BY <1>7, <3>1, <3>2 DEF Users
    <3> QED
      BY <1>1, <1>4, <1>6, <3>1, <3>2, <3>3 DEF Match, Owned
  <2> QED
    BY <2>1 DEF Owned
<1>9. ASSUME NEW l \in Logins PROVE Used(l)'
  <2>1. CASE appuser'[l] # None
    <3>1. l \notin del_users[r] /\ appuser'[l] = appuser[l] /\ appuser[l] # None
      BY <1>6, <2>1
    <3>2. /\ login[appuser[l]] = l /\ code[appuser[l]] \in Codes /\ Exists(code[appuser[l]])
          /\ customer[code[appuser[l]]].id = appuser[l]
      BY <3>1 DEF Match, Used
    <3>3. l \in Users(code[appuser[l]])
      BY <3>2 DEF Users
    <3>4. ~(del_row[r] /\ code[appuser[l]] = code[r])
      BY <1>2, <3>1, <3>3
    <3> QED
      BY <1>1, <1>5, <3>1, <3>2, <3>4 DEF Used
  <2> QED
    BY <2>1 DEF Used
<1>10. ASSUME NEW q \in Requests PROVE Deleting(q)'
  <2>1. CASE q = r
    BY <1>3, <2>1 DEF Deleting, Delete, Dropping
  <2>2. CASE q # r
    <3>1. pc'[q] = pc[q] /\ del_users'[q] = del_users[q] /\ del_row'[q] = del_row[q]
      BY <1>3, <2>2
    <3>2. del_users[q] # {} => /\ code[q] \in Codes /\ Exists(code[q]) /\ del_users[q] = Users(code[q])
                               /\ ~(del_row[r] /\ code[q] = code[r])
      BY <1>2, <2>2, OneDeletion, RowsToDelete
    <3>3. pc[q] \in {"delete_users", "delete_customer"} => code[q] \in Codes /\ Settled(code[q])'
      BY <1>1, <1>4 DEF Match, Deleting, Delete, Settled
    <3>4. del_users[q] # {} => Users(code[q])' = Users(code[q])
      <4>1. SUFFICES ASSUME del_users[q] # {} PROVE Users(code[q])' = Users(code[q])
        OBVIOUS
      <4>2. customer'[code[q]] = customer[code[q]] /\ Exists(code[q]) /\ Exists(code[q])'
        BY <1>1, <1>5, <3>2, <4>1 DEF Exists
      <4>3. customer[code[q]].id # None
        BY <3>2, <4>1, AdminIsTheUser, NoneAssumption
      <4>4. \A l \in Logins : appuser[l] = customer[code[q]].id => l \notin del_users[r]
        BY <1>7, <3>2, <4>1, <4>2 DEF Users
      <4>5. \A l \in Logins : appuser'[l] = customer[code[q]].id <=> appuser[l] = customer[code[q]].id
        BY <1>6, <4>3, <4>4
      <4> QED
        BY <1>1, <4>2, <4>5 DEF Users
    <3>5. del_users[q] # {} => Removable(code[q])' /\ del_users[q] = Users(code[q])'
      BY <1>1, <1>5, <3>2, <3>4 DEF Match, Deleting, Removable
    <3>6. pc[q] = "delete_users" /\ Exists(code[q])' => customer'[code[q]].removable
      BY <1>1, <1>5, <3>3 DEF Match, Deleting, Exists
    <3>7. pc[q] = "delete_customer" /\ Exists(code[q])' => del_users[q] # {}
      BY <1>1, <1>5, <3>3 DEF Match, Deleting, Exists
    <3> QED
      BY <1>1, <3>1, <3>3, <3>5, <3>6, <3>7 DEF Match, Deleting
  <2> QED
    BY <2>1, <2>2
<1>11. ASSUME NEW p \in Requests, NEW q \in Requests PROVE Locking(p, q)'
  <2>1. pc'[p] = "commit_create" => pc[p] = "commit_create" /\ login[p] \in Logins
    BY <1>3 DEF Inv, TypeOK
  <2>2. pc'[q] = "commit_create" => pc[q] = "commit_create"
    BY <1>3
  <2>3. p # q => del_users'[p] \cap del_users'[q] = {}
    BY <1>3 DEF Match, Locking
  <2> QED
    BY <1>1, <1>6, <2>1, <2>2, <2>3 DEF Match, Locking
<1> QED
  BY <1>8, <1>9, <1>10, <1>11 DEF Match

LEMMA SetRemovableMatch ==
  ASSUME Inv, Match, NEW c \in Codes, SetRemovable(c)
  PROVE  Match'
<1>1. /\ customer[c] \in Customers
      /\ customer' = [customer EXCEPT ![c].removable = TRUE]
      /\ pc' = pc /\ code' = code /\ login' = login /\ keys' = keys /\ appuser' = appuser
      /\ del_users' = del_users /\ del_row' = del_row
  BY DEF Inv, TypeOK, SetRemovable, Exists, request, trans
<1>2. /\ [customer[c] EXCEPT !.removable = TRUE] \in Customers
      /\ [customer[c] EXCEPT !.removable = TRUE].id = customer[c].id
      /\ [customer[c] EXCEPT !.removable = TRUE].removable
  BY <1>1 DEF Customers
<1>3. \A d \in Codes :
        /\ Exists(d)' <=> Exists(d)
        /\ Exists(d) => customer'[d].id = customer[d].id
        /\ Exists(d) /\ customer[d].removable => customer'[d].removable
  BY <1>1, <1>2, NoneAssumption DEF Exists, Inv, TypeOK, SetRemovable
<1>4. /\ pc' = pc /\ code' = code /\ login' = login /\ keys' = keys /\ appuser' = appuser
      /\ del_users' = del_users /\ del_row' = del_row
  BY <1>1
<1>5. \A d \in Codes : Owned(d)'
  <2> SUFFICES ASSUME NEW d \in Codes, Exists(d)' PROVE Owned(d)'
    BY DEF Owned
  <2>1. Exists(d) /\ customer'[d].id = customer[d].id
    BY <1>3
  <2> QED
    BY <1>4, <2>1 DEF Match, Owned
<1>6. \A l \in Logins : Used(l)'
  <2> SUFFICES ASSUME NEW l \in Logins, appuser[l] # None PROVE Used(l)'
    BY <1>4 DEF Used
  <2>1. /\ login[appuser[l]] = l /\ code[appuser[l]] \in Codes /\ Exists(code[appuser[l]])
        /\ customer[code[appuser[l]]].id = appuser[l]
    BY DEF Match, Used
  <2>2. customer'[code[appuser[l]]].id = appuser[l] /\ customer'[code[appuser[l]]] # None
    BY <1>3, <2>1 DEF Exists
  <2> QED
    BY <1>4, <2>1, <2>2 DEF Used, Exists
<1>7. ASSUME NEW q \in Requests PROVE Deleting(q)'
  <2>1. del_users[q] # {} \/ pc[q] \in {"delete_users", "delete_customer"} => code[q] \in Codes
    BY RowsToDelete DEF Match, Deleting, Delete
  <2>2. Settled(code[q])' = Settled(code[q])
    BY <1>4 DEF Settled
  <2>3. code[q] \in Codes =>
          /\ customer'[code[q]] # None <=> customer[code[q]] # None
          /\ Exists(code[q]) => customer'[code[q]].id = customer[code[q]].id
          /\ Exists(code[q]) /\ customer[code[q]].removable => customer'[code[q]].removable
    BY <1>3 DEF Exists
  <2>4. code[q] \in Codes => Exists(code[q])' = Exists(code[q])
    BY <1>4, <2>3 DEF Exists
  <2>5. del_users[q] # {} => Removable(code[q])' /\ del_users[q] = Users(code[q])'
    <3> SUFFICES ASSUME del_users[q] # {} PROVE Removable(code[q])' /\ del_users[q] = Users(code[q])'
      OBVIOUS
    <3>1. Removable(code[q]) /\ del_users[q] = Users(code[q]) /\ code[q] \in Codes
      BY <2>1 DEF Match, Deleting
    <3> QED
      BY <1>4, <2>3, <2>4, <3>1 DEF Removable, Users
  <2>6. pc[q] = "delete_users" /\ Exists(code[q])' => customer'[code[q]].removable
    BY <2>1, <2>3, <2>4 DEF Match, Deleting
  <2>7. pc[q] = "delete_customer" /\ Exists(code[q])' => del_users[q] # {}
    BY <2>1, <2>4 DEF Match, Deleting
  <2> QED
    BY <1>4, <2>2, <2>5, <2>6, <2>7 DEF Match, Deleting
<1>8. \A p, q \in Requests : Locking(p, q)'
  BY <1>1 DEF Match, Locking
<1> QED
  BY <1>5, <1>6, <1>7, <1>8 DEF Match

-----------------------------------------------------------------------------

(***************************************************************************)
(* Every user has its customer and every customer its administrator, and   *)
(* a code is never given twice, for any number of requests: what the       *)
(* properties about users and waiting rest on.                             *)
(***************************************************************************)
THEOREM MatchHolds == Spec => []Match
<1>1. Init => Match
  BY DEF Init, Match, Owned, Used, Deleting, Locking, Exists, Delete, Dropping
<1>2. Inv /\ Match /\ [Next]_vars => Match'
  <2> SUFFICES ASSUME Inv, Match, [Next]_vars PROVE Match'
    OBVIOUS
  <2>1. ASSUME NEW r \in Requests, BeginCreate(r) \/ Step(r) PROVE Match'
    BY <2>1, CreateMatchStep, CommitCreateMatch, SearchMatch, DeleteUsersMatch, DeleteCustomerMatch,
       DropMatch, CommitDeleteMatch, AbortMatch DEF Step
  <2>2. ASSUME NEW r \in Requests, NEW c \in Codes, BeginDelete(r, c) PROVE Match'
    BY <2>2, BeginDeleteMatch
  <2>3. ASSUME NEW c \in Codes, SetRemovable(c) PROVE Match'
    BY <2>3, SetRemovableMatch
  <2>4. CASE UNCHANGED vars
    <3>1. /\ pc' = pc /\ code' = code /\ login' = login /\ keys' = keys /\ appuser' = appuser
          /\ customer' = customer /\ del_users' = del_users /\ del_row' = del_row
      BY <2>4 DEF vars, request, trans, dokaadmin
    <3> QED
      BY <3>1 DEF Match, Owned, Used, Deleting, Locking, Exists, Settled, Removable, Users
  <2> QED
    BY <2>1, <2>2, <2>3, <2>4 DEF Next
<1> QED
  BY <1>1, <1>2, InvHolds, PTL DEF Spec

(***************************************************************************)
(* No user is left without its customer, and no customer without its       *)
(* administrator, although the tables have no foreign key                  *)
(* (delete_user_from_db, delete_customer_from_db).                         *)
(***************************************************************************)
THEOREM UsersMatch == Spec => []UsersAndCustomersMatch
<1>1. Inv /\ Match => UsersAndCustomersMatch
  <2> SUFFICES ASSUME Inv, Match PROVE UsersAndCustomersMatch
    OBVIOUS
  <2>1. \A l \in Logins : appuser[l] # None => \E c \in Codes : Exists(c) /\ customer[c].id = appuser[l]
    BY DEF Match, Used
  <2>2. \A c \in Codes : Exists(c) => Users(c) # {}
    BY AdminIsTheUser
  <2> QED
    BY <2>1, <2>2 DEF UsersAndCustomersMatch
<1> QED
  BY <1>1, InvHolds, MatchHolds, PTL

(***************************************************************************)
(* Whoever waits for a lock waits for a request that waits for none.       *)
(***************************************************************************)
THEOREM NobodyWaitsLong == Spec => []WaitsAreShort
<1>1. Inv /\ Match => WaitsAreShort
  <2> SUFFICES ASSUME Inv, Match, NEW r \in Requests, NEW other \in Blockers(r)
               PROVE  pc[other] \in Create \cup Delete /\ Blockers(other) = {}
    BY DEF WaitsAreShort
  <2>1. ASSUME NEW q \in Requests, NEW p \in CodeLocks(code[q]), pc[q] = "insert_customer" PROVE FALSE
    <3>1. ~Exists(code[q]) /\ keys[code[q]] = q
      BY <2>1, NoRowYet
    <3>2. p \in Requests /\ code[p] = code[q] /\ (pc[p] \in {"insert_user", "commit_create"} \/ del_row[p])
      BY DEF CodeLocks
    <3>3. CASE pc[p] \in {"insert_user", "commit_create"}
      BY <2>1, <3>1, <3>2, <3>3, NoRowYet
    <3>4. CASE del_row[p]
      BY <3>1, <3>2, <3>4, RowsToDelete
    <3> QED
      BY <3>2, <3>3, <3>4
  <2>2. ASSUME NEW q \in Requests, NEW p \in CodeLocks(code[q]), pc[q] = "delete_customer" PROVE FALSE
    <3>1. Settled(code[q]) /\ ~del_row[q] /\ (Exists(code[q]) => del_users[q] # {})
      BY <2>2 DEF Match, Deleting, Dropping
    <3>2. p \in Requests /\ code[p] = code[q] /\ (pc[p] \in {"insert_user", "commit_create"} \/ del_row[p])
      BY DEF CodeLocks
    <3>3. CASE pc[p] \in {"insert_user", "commit_create"}
      BY <3>1, <3>2, <3>3, NoRowYet
    <3>4. CASE del_row[p]
      BY <3>1, <3>2, <3>4, RowsToDelete, OneDeletion
    <3> QED
      BY <3>2, <3>3, <3>4
  <2>3. ASSUME NEW p \in Requests, pc[p] = "commit_create" \/ del_users[p] # {}
        PROVE  pc[p] \in Create \cup Delete /\ Blockers(p) = {}
    <3>1. pc[p] \in {"commit_create", "delete_customer"} \cup Dropping
      BY <2>3, RowsToDelete
    <3>2. CASE pc[p] = "delete_customer"
      <4>1. CodeLocks(code[p]) = {}
        BY <2>2, <3>2
      <4> QED
        BY <3>2, <4>1 DEF Blockers, Delete
    <3>3. CASE pc[p] \in {"commit_create"} \cup Dropping
      BY <3>3 DEF Blockers, Create, Delete, Dropping
    <3> QED
      BY <3>1, <3>2, <3>3
  <2>4. CASE pc[r] = "insert_customer"
    BY <2>1, <2>4 DEF Blockers
  <2>5. CASE pc[r] = "insert_user"
    BY <2>3, <2>5 DEF Blockers, LoginLocks
  <2>6. CASE pc[r] = "delete_users"
    <3>1. PICK l \in Users(code[r]) : other \in LoginLocks(l)
      BY <2>6 DEF Blockers
    <3> QED
      BY <2>3, <3>1 DEF LoginLocks
  <2>7. CASE pc[r] = "delete_customer"
    BY <2>2, <2>7 DEF Blockers
  <2>8. CASE pc[r] \notin {"insert_customer", "insert_user", "delete_users", "delete_customer"}
    BY <2>8 DEF Blockers
  <2> QED
    BY <2>4, <2>5, <2>6, <2>7, <2>8
<1> QED
  BY <1>1, InvHolds, MatchHolds, PTL
=============================================================================
