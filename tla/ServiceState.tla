----------------------------- MODULE ServiceState -----------------------------
(* The state the jobs of the service share: the request table in Postgres,   *)
(* the BCD table in Oracle, and what Pyro has done.                          *)
EXTENDS RequestTable, Sequences, FiniteSets

CONSTANTS
  Rows,              \* requests in the table, one per batch_date and CAF
  NoRow,             \* stands for "no row in hand"
  CreatedAt,         \* created_at of each row
  Unlinked,          \* rows whose RQ writeback to BCD failed: FRC_REQID is NULL
  Late,              \* rows the jobs may see before their RQ writeback
  OracleMayFail,     \* TRUE: a BCD update may raise; the code logs and goes on
  MayLapse,          \* rows that may be at P for more than 60 minutes
  MaxTxns,           \* bound: transactions Pyro accepts for one row
  MaxAborts          \* bound: jobs or handlers cut short

ASSUME ServiceAssumption ==
  /\ NoRow \notin Rows
  /\ CreatedAt \in [Rows -> Nat]
  /\ Unlinked \subseteq Rows /\ Late \subseteq Rows \ Unlinked
  /\ OracleMayFail \in BOOLEAN /\ MayLapse \subseteq Rows
  /\ MaxTxns \in Nat /\ MaxAborts \in Nat

VARIABLES
  pg,       \* pg[r]: the row
  bcd,      \* bcd[r]: FRC_FLOW_STATUS of the row's subscriber
  ledger,   \* ledger[r]: the transactions Pyro accepted for r, oldest first
  aborts    \* how many jobs and handlers were cut short so far

shared == <<pg, bcd, ledger, aborts>>

Outcomes == {"pending", "success", "failed"}

SharedTypeOK ==
  /\ pg \in [Rows -> Row]
  /\ bcd \in [Rows -> BcdStatuses]
  /\ ledger \in [Rows -> Seq(Outcomes)]
  /\ aborts \in 0..MaxAborts

SharedInit ==
  /\ pg = [r \in Rows |-> NewRow]
  /\ bcd = [r \in Rows |-> IF r \in Unlinked \cup Late THEN "NP" ELSE "RQ"]
  /\ ledger = [r \in Rows |-> <<>>]
  /\ aborts = 0

(* update_bcd_status: WHERE FRC_REQID = reqid matches a linked record only,  *)
(* and an exception is swallowed.                                            *)
UpdateBcdStatus(r, status) ==
  \/ bcd[r] # "NP" /\ bcd' = [bcd EXCEPT ![r] = status]
  \/ (bcd[r] = "NP" \/ OracleMayFail) /\ UNCHANGED bcd

(* batch_writeback_bcd_rq of the populator, for a row it has inserted: sets  *)
(* FRC_REQID of a record still at NP, whatever has become of the row since.  *)
LinkBcd(r) ==
  /\ r \in Late /\ bcd[r] = "NP"
  /\ bcd' = [bcd EXCEPT ![r] = "RQ"]
  /\ UNCHANGED <<pg, ledger, aborts>>

(* An exception out of a database call, a cancelled task, or the end of the  *)
(* process: what is committed stays, what is held in memory is lost.         *)
CutShort == aborts < MaxAborts /\ aborts' = aborts + 1

-----------------------------------------------------------------------------
(* Pyro and the clock.                                                       *)

Succeeded(r) == \E k \in DOMAIN ledger[r] : ledger[r][k] = "success"

(* Pyro settles a transaction it accepted.                                   *)
Settle(r) ==
  /\ \E k \in DOMAIN ledger[r], outcome \in {"success", "failed"} :
       /\ ledger[r][k] = "pending"
       /\ ledger' = [ledger EXCEPT ![r][k] = outcome]
  /\ UNCHANGED <<pg, bcd, aborts>>

(* Time passes for a pushed row.                                             *)
Ripen(r) ==
  /\ pg[r].flag = "P" /\ pg[r].age = "fresh"
  /\ pg' = [pg EXCEPT ![r].age = "due"]
  /\ UNCHANGED <<bcd, ledger, aborts>>

Lapse(r) ==
  /\ r \in MayLapse
  /\ pg[r].flag = "P" /\ pg[r].age = "due"
  /\ pg' = [pg EXCEPT ![r].age = "lapsed"]
  /\ UNCHANGED <<bcd, ledger, aborts>>
=============================================================================
