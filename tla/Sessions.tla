------------------------------ MODULE Sessions ------------------------------
(***************************************************************************)
(* The sessions of the session-manager.  Every request to a service of     *)
(* doka.one starts with valid_sid_get_session, which has the session       *)
(* manager read the session and renew it (read_session_and_update): one    *)
(* transaction that SELECTs the row, refuses it when it is terminated, and *)
(* UPDATEs renew_time_gmt by the session id alone.  update_sessions.sh, a  *)
(* cron job, terminates the sessions that were not renewed for two hours.  *)
(*                                                                         *)
(* Both run at READ COMMITTED: a SELECT sees the last committed row, an    *)
(* UPDATE waits for the lock of the row and re-evaluates its WHERE clause  *)
(* on the row it finds then.  NOW() is the time a transaction began, so a  *)
(* time in a row is older than the commit that wrote it.  A time is        *)
(* modelled by its age, the Ticks since then.                              *)
(***************************************************************************)
EXTENDS Integers

CONSTANTS
  SessionIds,  \* the values of session_id
  Requests,    \* the handlers of read_session running at a time
  Limit,       \* 120 * 60 seconds
  MaxTx,       \* assumption: no transaction lasts longer
  CronJob,     \* the transaction of the cron job
  None         \* no transaction

ASSUME LimitAssumption == Limit \in Nat \ {0}
ASSUME MaxTxAssumption == MaxTx \in Nat
ASSUME NoneAssumption == None \notin Requests \cup {CronJob} /\ CronJob \notin Requests

VARIABLES
  row,              \* dokasys.sessions: no row, open, or terminated
  renew_age,        \* age of COALESCE(renew_time_gmt, start_time_gmt)
  termination_age,  \* age of termination_time_gmt
  use_age,          \* history: age of the last start or successful renewal
  lock,             \* the transaction that has updated the row
  pc,               \* what each request does
  sid,              \* its session
  tx_age,           \* the age of its transaction
  cron_rows,        \* the rows the UPDATE of the cron job has still to visit
  cron_age          \* the age of its transaction

table == <<row, renew_age, termination_age, use_age>>
requests == <<pc, sid, tx_age>>
cron == <<cron_rows, cron_age>>
vars == <<table, lock, requests, cron>>

(* Bounds of the ages: older makes no difference to any guard or property. *)
MaxAge == Limit + 2 * MaxTx
Ages   == 0 .. MaxAge

TypeOK ==
  /\ row \in [SessionIds -> {"none", "open", "closed"}]
  /\ {renew_age, termination_age, use_age} \subseteq [SessionIds -> Ages]
  /\ lock \in [SessionIds -> Requests \cup {CronJob, None}]
  /\ pc \in [Requests -> {"idle", "select", "update", "commit"}]
  /\ sid \in [Requests -> SessionIds]
  /\ tx_age \in [Requests -> 0 .. MaxTx]
  /\ cron_rows \subseteq SessionIds
  /\ cron_age \in 0 .. MaxTx

Init ==
  /\ row = [s \in SessionIds |-> "none"]
  /\ renew_age = [s \in SessionIds |-> 0]
  /\ termination_age = [s \in SessionIds |-> 0]
  /\ use_age = [s \in SessionIds |-> 0]
  /\ lock = [s \in SessionIds |-> None]
  /\ pc = [r \in Requests |-> "idle"]
  /\ sid \in {[r \in Requests |-> s] : s \in SessionIds}
  /\ tx_age = [r \in Requests |-> 0]
  /\ cron_rows = {}
  /\ cron_age = 0

-----------------------------------------------------------------------------
(* The requests *)

(* create_new_session: start_time_gmt is read before the INSERT commits. *)
OpenSession(s) ==
  /\ row[s] = "none"
  /\ row' = [row EXCEPT ![s] = "open"]
  /\ \E age \in 0 .. MaxTx :
       /\ renew_age' = [renew_age EXCEPT ![s] = age]
       /\ use_age' = [use_age EXCEPT ![s] = age]
  /\ UNCHANGED <<termination_age, lock, requests, cron>>

(* read_session_and_update begins its transaction. *)
Begin(r, s) ==
  /\ pc[r] = "idle"
  /\ pc' = [pc EXCEPT ![r] = "select"]
  /\ sid' = [sid EXCEPT ![r] = s]
  /\ tx_age' = [tx_age EXCEPT ![r] = 0]
  /\ UNCHANGED <<table, lock, cron>>

(* The end of a request; a lock of its transaction goes with it. *)
End(r) ==
  /\ pc' = [pc EXCEPT ![r] = "idle"]
  /\ tx_age' = [tx_age EXCEPT ![r] = 0]
  /\ lock' = [s \in SessionIds |-> IF lock[s] = r THEN None ELSE lock[s]]

(* A defect: the termination time is not looked at. *)
Select_AnyRow(r) ==
  /\ pc[r] = "select"
  /\ IF row[sid[r]] # "none"
     THEN pc' = [pc EXCEPT ![r] = "update"] /\ UNCHANGED <<tx_age, lock>>
     ELSE End(r)
  /\ UNCHANGED <<table, sid, cron>>

(* search_session_by_sid: SESSION_NOT_FOUND, SESSION_TIMED_OUT, or go on. *)
Select(r) ==
  /\ pc[r] = "select"
  /\ IF row[sid[r]] = "open"
     THEN pc' = [pc EXCEPT ![r] = "update"] /\ UNCHANGED <<tx_age, lock>>
     ELSE End(r)
  /\ UNCHANGED <<table, sid, cron>>

(* update_renew_time: the row is locked, whether it is still open or not. *)
Update(r) ==
  /\ pc[r] = "update"
  /\ lock[sid[r]] = None
  /\ lock' = [lock EXCEPT ![sid[r]] = r]
  /\ pc' = [pc EXCEPT ![r] = "commit"]
  /\ UNCHANGED <<table, sid, tx_age, cron>>

(* A defect: the lock of the row is never given back. *)
Commit_KeepsLock(r) ==
  /\ pc[r] = "commit"
  /\ renew_age' = [renew_age EXCEPT ![sid[r]] = tx_age[r]]
  /\ use_age' = [use_age EXCEPT ![sid[r]] = IF tx_age[r] < @ THEN tx_age[r] ELSE @]
  /\ pc' = [pc EXCEPT ![r] = "idle"]
  /\ tx_age' = [tx_age EXCEPT ![r] = 0]
  /\ UNCHANGED <<row, termination_age, sid, cron, lock>>

(***************************************************************************)
(* The COMMIT: the time of this transaction replaces the one in the row,   *)
(* even the later one of a transaction that was faster.                    *)
(***************************************************************************)
Commit(r) ==
  /\ pc[r] = "commit"
  /\ renew_age' = [renew_age EXCEPT ![sid[r]] = tx_age[r]]
  /\ use_age' = [use_age EXCEPT ![sid[r]] = IF tx_age[r] < @ THEN tx_age[r] ELSE @]
  /\ End(r)
  /\ UNCHANGED <<row, termination_age, sid, cron>>

(* A statement fails, or the client goes away: the transaction rolls back. *)
Fail(r) ==
  /\ pc[r] # "idle"
  /\ End(r)
  /\ UNCHANGED <<table, sid, cron>>

-----------------------------------------------------------------------------
(* The cron job *)

(* The WHERE clause of update_sessions.sh, for a NOW() that is `age` old. *)
Expired(s, age) == row[s] = "open" /\ renew_age[s] - age >= Limit

(* The rows it has updated, which are locked until its COMMIT *)
Updated == {s \in SessionIds : lock[s] = CronJob}

(* The UPDATE finds its rows in the snapshot it starts with. *)
CronStart ==
  /\ cron_rows \cup Updated = {}
  /\ cron_rows' = {s \in SessionIds : Expired(s, 0)}
  /\ cron_age' = 0
  /\ UNCHANGED <<table, lock, requests>>

(* A defect: a row that had to be waited for is not evaluated again. *)
CronRow_NotAgain(s) ==
  /\ s \in cron_rows
  /\ lock[s] = None
  /\ lock' = [lock EXCEPT ![s] = CronJob]
  /\ cron_rows' = cron_rows \ {s}
  /\ UNCHANGED <<table, cron_age, requests>>

(* It takes their locks one after the other, and evaluates them again. *)
CronRow(s) ==
  /\ s \in cron_rows
  /\ lock[s] = None
  /\ IF Expired(s, cron_age) THEN lock' = [lock EXCEPT ![s] = CronJob] ELSE UNCHANGED lock
  /\ cron_rows' = cron_rows \ {s}
  /\ cron_age' = IF cron_rows' \cup Updated' = {} THEN 0 ELSE cron_age
  /\ UNCHANGED <<table, requests>>

CronEnd ==
  /\ cron_rows' = {}
  /\ cron_age' = 0
  /\ lock' = [s \in SessionIds |-> IF s \in Updated THEN None ELSE lock[s]]

(* The statement commits by itself: all its rows are terminated at once. *)
CronCommit ==
  /\ cron_rows = {} /\ Updated # {}
  /\ row' = [s \in SessionIds |-> IF s \in Updated THEN "closed" ELSE row[s]]
  /\ termination_age' = [s \in SessionIds |-> IF s \in Updated THEN cron_age ELSE termination_age[s]]
  /\ CronEnd
  /\ UNCHANGED <<renew_age, use_age, requests>>

(* It fails, or psql is killed: nothing is terminated until the next time. *)
CronFail ==
  /\ cron_rows \cup Updated # {}
  /\ CronEnd
  /\ UNCHANGED <<table, requests>>

-----------------------------------------------------------------------------
(* Time *)

Older(age) == IF age < MaxAge THEN age + 1 ELSE age

(* Time passes; no transaction lasts longer than MaxTx. *)
Tick ==
  /\ \A r \in Requests : pc[r] # "idle" => tx_age[r] < MaxTx
  /\ cron_rows \cup Updated # {} => cron_age < MaxTx
  /\ renew_age' = [s \in SessionIds |-> IF row[s] = "none" THEN 0 ELSE Older(renew_age[s])]
  /\ use_age' = [s \in SessionIds |-> IF row[s] = "none" THEN 0 ELSE Older(use_age[s])]
  /\ termination_age' =
       [s \in SessionIds |-> IF row[s] = "closed" THEN Older(termination_age[s]) ELSE 0]
  /\ tx_age' = [r \in Requests |-> IF pc[r] = "idle" THEN 0 ELSE tx_age[r] + 1]
  /\ cron_age' = IF cron_rows \cup Updated = {} THEN 0 ELSE cron_age + 1
  /\ UNCHANGED <<row, lock, pc, sid, cron_rows>>

Request(r) == Select(r) \/ Update(r) \/ Commit(r) \/ Fail(r)

Next ==
  \/ \E s \in SessionIds : OpenSession(s)
  \/ \E r \in Requests, s \in SessionIds : Begin(r, s)
  \/ \E r \in Requests : Request(r)
  \/ CronStart
  \/ \E s \in SessionIds : CronRow(s)
  \/ CronCommit
  \/ CronFail
  \/ Tick

Spec == Init /\ [][Next]_vars

(***************************************************************************)
(* Time passes, cron starts the job again and again, and every statement   *)
(* returns.  A row lock is granted in the order it was asked for, so the   *)
(* cron job gets it although requests come and go: strong fairness.  The   *)
(* job may fail, but not every time that it is ready to commit.            *)
(***************************************************************************)
Fairness ==
  /\ WF_vars(Tick)
  /\ WF_vars(CronStart)
  /\ \A s \in SessionIds : SF_vars(CronRow(s))
  /\ SF_vars(CronCommit)
  /\ \A r \in Requests : WF_vars(Request(r))

FairSpec == Spec /\ Fairness

-----------------------------------------------------------------------------
(* Properties *)

(***************************************************************************)
(* The cron job only closes a session nobody used for the two hours, less  *)
(* the length of one transaction: a renewal that commits while the job     *)
(* waits for the row is seen, and a slow renewal that overwrites a later   *)
(* one sets the time back by no more than its own length.                  *)
(***************************************************************************)
RecentUseIsKept ==
  [][\A s \in SessionIds :
       row[s] = "open" /\ row'[s] = "closed" => use_age[s] >= Limit - MaxTx]_vars

(***************************************************************************)
(* A closed session is never open again.  A request that read it before it *)
(* was closed can still renew it, and is answered as a success, but not    *)
(* later than two transactions after the termination time.                 *)
(***************************************************************************)
ClosedForGood ==
  [][\A s \in SessionIds :
       row[s] = "closed" =>
         /\ row'[s] = "closed"
         /\ renew_age'[s] < renew_age[s] => termination_age[s] <= 2 * MaxTx]_vars

(* A session nobody uses any more is closed in the end. *)
UnusedSessionIsClosed ==
  \A s \in SessionIds :
    <>[](\A r \in Requests : pc[r] # "idle" => sid[r] # s)
      => [](row[s] = "open" => <>(row[s] = "closed"))
=============================================================================
