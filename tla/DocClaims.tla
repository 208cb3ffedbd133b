------------------------------ MODULE DocClaims ------------------------------
(* What the documents and comments of the repository say of the service and  *)
(* the code does not keep: a run of each finds the behaviour.                *)
EXTENDS Service

(* Y and F are terminal (README.md:468): no step changes a row that is there *)
(* to any other flag.                                                        *)
TerminalIsFinal ==
  [][\A r \in Rows : pg[r].flag \in Terminal => pg'[r].flag = pg[r].flag]_vars

(* A row at E is retried automatically by the scheduler                      *)
(* (create_tables.sql:81): the SELECT of fetch_pending_rows still finds it.  *)
RetriedAutomatically == \A r \in Rows : pg[r].flag = "E" => Pending(pg[r])

(* A success sets push_flag Y and BCD to P (README.md:572): when nobody is   *)
(* at work on a Y row, BCD shows it.                                         *)
SuccessShown ==
  \A r \in Rows : Quiet(r) /\ pg[r].flag = "Y" /\ bcd[r] # "NP" => bcd[r] = "P"

(* BCD is at F after exhausting the retries (oracle.py:18): the service does *)
(* not go on with the recharge.                                              *)
FailedMeansGivenUp ==
  \A r \in Rows : bcd[r] = "F" => ~Pending(pg[r])
=============================================================================
