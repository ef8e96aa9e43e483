--------------------------- MODULE Sessions_proofs ---------------------------
(***************************************************************************)
(* The renewals and the cron job, for any number of sessions and requests, *)
(* any limit and any length of transactions.  What links the time in a row *)
(* to the last use of the session is that no transaction is older than     *)
(* MaxTx: the time it writes, and the time it overwrites, are no further   *)
(* apart (Renewed), and a session closed while a request was between its   *)
(* SELECT and its COMMIT has not been closed for much longer than that     *)
(* (Late).  A row that the cron job has updated is locked, and so stays as *)
(* its WHERE clause found it until the job commits (Closing, Locking).     *)
(***************************************************************************)
EXTENDS Sessions, TLAPS

(* The time in the row is at most a transaction older than the last use. *)
Renewed == \A s \in SessionIds : renew_age[s] <= use_age[s] + MaxTx

(* A request past its SELECT found the row open. *)
Late ==
  \A r \in Requests :
    pc[r] \in {"update", "commit"} /\ row[sid[r]] = "closed" =>
      termination_age[sid[r]] <= tx_age[r] + MaxTx

(* What a request has updated is locked by it. *)
Locking == \A r \in Requests : pc[r] = "commit" => lock[sid[r]] = r

(* What the cron job has updated, and not committed, is expired. *)
Closing == \A s \in Updated : Expired(s, cron_age)

Inv == TypeOK /\ Renewed /\ Late /\ Locking /\ Closing

-----------------------------------------------------------------------------
LEMMA InvInit == Init => Inv
BY LimitAssumption, MaxTxAssumption, NoneAssumption
   DEF Init, Inv, TypeOK, Renewed, Late, Locking, Closing, Updated, Ages, MaxAge

LEMMA InvStep == Inv /\ [Next]_vars => Inv'
<1> SUFFICES ASSUME Inv, [Next]_vars PROVE Inv'
  OBVIOUS
<1> USE LimitAssumption, MaxTxAssumption, NoneAssumption
        DEF Inv, TypeOK, Renewed, Late, Locking, Closing, Updated, Expired, Ages, MaxAge
<1>1. ASSUME NEW s \in SessionIds, OpenSession(s) PROVE Inv'
  BY <1>1 DEF OpenSession, requests, cron
<1>2. ASSUME NEW r \in Requests, NEW s \in SessionIds, Begin(r, s) PROVE Inv'
  BY <1>2 DEF Begin, table, cron
<1>3. ASSUME NEW r \in Requests, Select(r) PROVE Inv'
  BY <1>3 DEF Select, End, table, cron
<1>4. ASSUME NEW r \in Requests, Update(r) PROVE Inv'
  BY <1>4 DEF Update, table, cron
<1>5. ASSUME NEW r \in Requests, Commit(r) PROVE Inv'
  BY <1>5 DEF Commit, End, cron
<1>6. ASSUME NEW r \in Requests, Fail(r) PROVE Inv'
  BY <1>6 DEF Fail, End, table, cron
<1>7. CASE CronStart
  BY <1>7 DEF CronStart, table, requests
<1>8. ASSUME NEW s \in SessionIds, CronRow(s) PROVE Inv'
  BY <1>8 DEF CronRow, table, requests
<1>9. CASE CronCommit
  BY <1>9 DEF CronCommit, CronEnd, requests
<1>10. CASE CronFail
  BY <1>10 DEF CronFail, CronEnd, table, requests
<1>11. CASE Tick
  BY <1>11 DEF Tick, Older
<1>12. CASE UNCHANGED vars
  BY <1>12 DEF vars, table, requests, cron
<1> QED
  BY <1>1, <1>2, <1>3, <1>4, <1>5, <1>6, <1>7, <1>8, <1>9, <1>10, <1>11, <1>12 DEF Next, Request

(* The inductive invariant holds in every execution. *)
THEOREM InvHolds == Spec => []Inv
<1>1. Init => Inv
  BY InvInit
<1>2. Inv /\ [Next]_vars => Inv'
  BY InvStep
<1> QED
  BY <1>1, <1>2, PTL DEF Spec

(* The ages stay in their ranges, however long the system runs. *)
THEOREM TypeCorrect == Spec => []TypeOK
BY InvHolds, PTL DEF Inv

-----------------------------------------------------------------------------
(***************************************************************************)
(* CronRow evaluates its WHERE clause on the row it has locked, and by     *)
(* Closing this is how the row is at the COMMIT: the time in it is Limit   *)
(* older than the transaction of the job, and by Renewed the last use is   *)
(* at most MaxTx younger than that time.                                   *)
(***************************************************************************)
LEMMA CronClosesUnused ==
  Inv /\ [Next]_vars =>
    \A s \in SessionIds :
      row[s] = "open" /\ row'[s] = "closed" => use_age[s] >= Limit - MaxTx
<1> SUFFICES ASSUME Inv, [Next]_vars,
                    NEW s \in SessionIds, row[s] = "open", row'[s] = "closed"
             PROVE  use_age[s] >= Limit - MaxTx
  OBVIOUS
<1>1. CronCommit
  BY DEF Next, Request, OpenSession, Begin, Select, Update, Commit, Fail, CronStart, CronRow,
         CronFail, Tick, End, CronEnd, vars, table, requests, cron, Inv, TypeOK
<1>2. Expired(s, cron_age)
  BY <1>1 DEF CronCommit, Inv, TypeOK, Closing
<1>3. renew_age[s] <= use_age[s] + MaxTx
  BY DEF Inv, Renewed
<1> QED
  BY <1>2, <1>3, LimitAssumption, MaxTxAssumption DEF Expired, Inv, TypeOK, Ages, MaxAge

(* The cron job closes no session that was used within the limit. *)
THEOREM RecentUse == Spec => RecentUseIsKept
BY InvHolds, CronClosesUnused, PTL DEF Spec, RecentUseIsKept

(***************************************************************************)
(* Only a Commit sets back the age of a row that is there; by Late it does *)
(* so for a closed row only while its own transaction lasts.               *)
(***************************************************************************)
LEMMA ClosedStays ==
  Inv /\ [Next]_vars =>
    \A s \in SessionIds :
      row[s] = "closed" =>
        /\ row'[s] = "closed"
        /\ renew_age'[s] < renew_age[s] => termination_age[s] <= 2 * MaxTx
<1> SUFFICES ASSUME Inv, [Next]_vars, NEW s \in SessionIds, row[s] = "closed"
             PROVE  /\ row'[s] = "closed"
                    /\ renew_age'[s] < renew_age[s] => termination_age[s] <= 2 * MaxTx
  OBVIOUS
<1>1. row'[s] = "closed"
  BY DEF Next, Request, OpenSession, Begin, Select, Update, Commit, Fail, CronStart, CronRow,
         CronCommit, CronFail, Tick, End, CronEnd, vars, table, requests, cron, Inv, TypeOK
<1>2. ASSUME renew_age'[s] < renew_age[s] PROVE termination_age[s] <= 2 * MaxTx
  <2>1. renew_age[s] \in Nat
    BY LimitAssumption, MaxTxAssumption DEF Inv, TypeOK, Ages, MaxAge
  <2>2. ~Tick
    BY <1>2, <2>1 DEF Tick, Older
  <2>3. renew_age' # renew_age
    BY <1>2, <2>1
  <2>4. ASSUME NEW t \in SessionIds, OpenSession(t) PROVE FALSE
    BY <1>2, <2>1, <2>4 DEF OpenSession, Inv, TypeOK
  <2>5. PICK r \in Requests : Commit(r)
    BY <2>2, <2>3, <2>4
       DEF Next, Request, Begin, Select, Update, Fail, CronStart, CronRow,
           CronCommit, CronFail, CronEnd, vars, table, requests, cron
  <2>6. sid[r] = s
    BY <1>2, <2>1, <2>5 DEF Commit, Inv, TypeOK
  <2>7. termination_age[s] <= tx_age[r] + MaxTx
    BY <2>5, <2>6 DEF Commit, Inv, Late
  <2> QED
    BY <2>7, LimitAssumption, MaxTxAssumption DEF Inv, TypeOK, Ages, MaxAge
<1> QED
  BY <1>1, <1>2

(* A closed session stays closed, and is renewed for a short while only. *)
THEOREM Closed == Spec => ClosedForGood
BY InvHolds, ClosedStays, PTL DEF Spec, ClosedForGood
=============================================================================
