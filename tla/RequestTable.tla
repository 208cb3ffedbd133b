----------------------------- MODULE RequestTable -----------------------------
(* One row of frc_pyro_request_data, as a value, and the statements of       *)
(* app/db/postgres.py that read or write it.  A row is addressed by reqid    *)
(* alone: no UPDATE looks at the flag it overwrites.                         *)
EXTENDS PyroCodes

CONSTANT MaxRetries                            \* column max_retries

ASSUME MaxRetriesAssumption == MaxRetries \in Nat

Flags == {"N", "P", "Y", "F", "E"}             \* column push_flag
Terminal == {"Y", "F"}

(* Time since push_date, as far as the status checker tells it apart: under  *)
(* 2 minutes, 2 to 60 minutes, over 60 minutes.                              *)
Ages == {"fresh", "due", "lapsed"}

(* trans is pyro_trans_id (0 for NULL), checked is status_check_count > 0    *)
(* and final is final_status ("none" for NULL).                              *)
Row == [flag : Flags, retry : Nat, trans : Nat, checked : BOOLEAN,
        final : {"none", "SUCCESS", "FAILED"}, age : Ages]

NewRow == [flag |-> "N", retry |-> 0, trans |-> 0, checked |-> FALSE,
           final |-> "none", age |-> "fresh"]

(* WHERE clause of fetch_pending_rows.                                       *)
PendingOffByOne(row) ==      \* mutant: one retry more than the retry CHECK has room for
  row.flag \in {"N", "E"} /\ row.retry <= MaxRetries + 1
Pending(row) == row.flag \in {"N", "E"} /\ row.retry <= MaxRetries

(* WHERE clause of fetch_pushed_rows_for_status_check.                       *)
DueWhateverFlag(row) == row.age = "due"                     \* mutant: no push_flag
DueOnce(row) == row.flag = "P" /\ row.age = "due" /\ ~row.checked  \* mutant: one check
Due(row) == row.flag = "P" /\ row.age = "due"

(* Neither the retry count nor the check count starts over.                  *)
MarkAsPushedAfresh(row, trans) ==            \* mutant: the count starts over
  [row EXCEPT !.flag = "P", !.retry = 0, !.trans = trans, !.age = "fresh"]
MarkAsPushed(row, trans) ==
  [row EXCEPT !.flag = "P", !.trans = trans, !.age = "fresh"]

MarkAsSuccess(row) == [row EXCEPT !.flag = "Y", !.final = "SUCCESS"]

MarkAsFailed(row) == [row EXCEPT !.flag = "F", !.final = "FAILED"]

(* mark_as_failed with FLAG_RETRY.  final_status keeps what it held.         *)
MarkForRetryTwice(row) == [row EXCEPT !.flag = "E", !.retry = @ + 2]    \* mutant
MarkForRetryUncounted(row) == [row EXCEPT !.flag = "E"]                 \* mutant
MarkForRetry(row) == [row EXCEPT !.flag = "E", !.retry = @ + 1]

(* CHECK (retry_count <= max_retries + 1), on the row MarkForRetry writes:   *)
(* when it fails the statement raises and nothing is written.                *)
RetryCheckHolds(row) == row.retry + 1 <= MaxRetries + 1

UpdateStatusCheckAttempt(row) == [row EXCEPT !.checked = TRUE]
=============================================================================
