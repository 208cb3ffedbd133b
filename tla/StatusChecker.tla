---------------------------- MODULE StatusChecker ----------------------------
(* app/status_checker.py: run_status_checks, run by the status_check job     *)
(* and, beside it, by POST /admin/trigger-status-check.                      *)
EXTENDS ServiceState

CONSTANTS
  Checkers,          \* concurrent runs of run_status_checks
  CheckErrors        \* answers that tell nothing of the transaction

ASSUME CheckerAssumption ==
  CheckErrors \subseteq Int \ {SUCCESS, NOT_FOUND, TXN_FAILED}

VARIABLE chk   \* chk[c]: the local variables of run c

(* A fetched row as the run remembers it.                                    *)
Seen == [row : Rows, trans : Nat, checked : BOOLEAN]

ChkState ==
  [pc : {"idle", "loop", "noresponse", "query", "record", "writeback"},
   todo : SUBSET Seen, row : Rows \cup {NoRow}, trans : Nat, code : Int]

ChkTypeOK == chk \in [Checkers -> ChkState]

ChkIdle == [pc |-> "idle", todo |-> {}, row |-> NoRow, trans |-> 0, code |-> 0]

ChkInit == chk = [c \in Checkers |-> ChkIdle]

(* Every due row; the SELECT has no LIMIT.                                   *)
FetchDue(c) ==
  /\ chk[c].pc = "idle"
  /\ \E r \in Rows : Due(pg[r])
  /\ chk' = [chk EXCEPT
       ![c] = [ChkIdle EXCEPT !.pc = "loop",
                 !.todo = {[row |-> r, trans |-> pg[r].trans, checked |-> pg[r].checked] :
                             r \in {q \in Rows : Due(pg[q])}}]]
  /\ UNCHANGED shared

(* Take a row and count the attempt.  The code goes by push_date; push dates *)
(* are not modelled, so any fetched row may be next.                         *)
CountAttempt(c) ==
  /\ chk[c].pc = "loop"
  /\ \E s \in chk[c].todo :
       /\ pg' = [pg EXCEPT ![s.row] = UpdateStatusCheckAttempt(@)]
       /\ chk' = [chk EXCEPT ![c] =
                    [chk[c] EXCEPT !.pc = IF s.checked THEN "query" ELSE "noresponse",
                       !.todo = chk[c].todo \ {s}, !.row = s.row, !.trans = s.trans]]
  /\ UNCHANGED <<bcd, ledger, aborts>>

(* First check of the row, by the fetched status_check_count.                *)
WriteNoResponse(c) ==
  /\ chk[c].pc = "noresponse"
  /\ UpdateBcdStatus(chk[c].row, "NR")
  /\ chk' = [chk EXCEPT ![c].pc = "query"]
  /\ UNCHANGED <<pg, ledger, aborts>>

(* check_transaction_status for the remembered transaction.  Pyro knows the  *)
(* outcome, has not settled it yet (901), or the call tells nothing: no      *)
(* answer, no token, a token Pyro refuses.  Without an id, whatever Pyro has *)
(* said of the transaction "None" is lost when int() raises.                 *)
Answers(r, k) ==
  IF k = 0 THEN {NO_ANSWER}
  ELSE CheckErrors \cup
         (CASE ledger[r][k] = "success" -> {SUCCESS}
            [] ledger[r][k] = "failed"  -> {TXN_FAILED}
            [] OTHER                    -> {NOT_FOUND})

QueryStatus(c) ==
  /\ chk[c].pc = "query"
  /\ \E code \in Answers(chk[c].row, chk[c].trans) :
       chk' = [chk EXCEPT ![c].pc = "record", ![c].code = code]
  /\ UNCHANGED shared

ChkLoop(c, todo) ==
  chk' = [chk EXCEPT ![c] =
            IF todo = {} THEN ChkIdle ELSE [ChkIdle EXCEPT !.pc = "loop", !.todo = todo]]

ChkToWriteback(c) == chk' = [chk EXCEPT ![c].pc = "writeback"]

RecordCheckSuccess(c) ==
  /\ chk[c].pc = "record" /\ chk[c].code = SUCCESS
  /\ pg' = [pg EXCEPT ![chk[c].row] = MarkAsSuccess(@)]
  /\ ChkToWriteback(c)
  /\ UNCHANGED <<bcd, ledger, aborts>>

RecordCheckFailed(c) ==
  /\ chk[c].pc = "record" /\ chk[c].code = TXN_FAILED
  /\ pg' = [pg EXCEPT ![chk[c].row] = MarkAsFailed(@)]
  /\ ChkToWriteback(c)
  /\ UNCHANGED <<bcd, ledger, aborts>>

(* Mutant: 901 puts the row back in the queue, as README.md:455 has it and   *)
(* the commented-out lines of the branch do.                                 *)
RequeueNotFound(c) ==
  /\ chk[c].pc = "record" /\ chk[c].code = NOT_FOUND
  /\ RetryCheckHolds(pg[chk[c].row])
  /\ pg' = [pg EXCEPT ![chk[c].row] = MarkForRetry(@)]
  /\ ChkLoop(c, chk[c].todo)
  /\ UNCHANGED <<bcd, ledger, aborts>>

(* 901: the attempt is counted once more and the row stays as it is.         *)
RecordNotFound(c) ==
  /\ chk[c].pc = "record" /\ chk[c].code = NOT_FOUND
  /\ pg' = [pg EXCEPT ![chk[c].row] = UpdateStatusCheckAttempt(@)]
  /\ ChkLoop(c, chk[c].todo)
  /\ UNCHANGED <<bcd, ledger, aborts>>

(* Any other answer puts the row back in the queue of the processor.         *)
Requeueing(c) == chk[c].pc = "record" /\ chk[c].code \notin {SUCCESS, TXN_FAILED, NOT_FOUND}

RecordUnknown(c) ==
  /\ Requeueing(c) /\ RetryCheckHolds(pg[chk[c].row])
  /\ pg' = [pg EXCEPT ![chk[c].row] = MarkForRetry(@)]
  /\ ChkToWriteback(c)
  /\ UNCHANGED <<bcd, ledger, aborts>>

(* The retry CHECK rejects the UPDATE: the exception ends the run.           *)
RecordUnknownRejected(c) ==
  /\ Requeueing(c) /\ ~RetryCheckHolds(pg[chk[c].row])
  /\ ChkLoop(c, {})
  /\ UNCHANGED shared

ChkWriteback(c) ==
  /\ chk[c].pc = "writeback"
  /\ UpdateBcdStatus(chk[c].row, IF chk[c].code = SUCCESS THEN "P" ELSE "F")
  /\ ChkLoop(c, chk[c].todo)
  /\ UNCHANGED <<pg, ledger, aborts>>

ChkAbort(c) ==
  /\ chk[c].pc # "idle"
  /\ CutShort
  /\ chk' = [chk EXCEPT ![c] = ChkIdle]
  /\ UNCHANGED <<pg, bcd, ledger>>

ChkStep(c) ==
  \/ FetchDue(c) \/ CountAttempt(c) \/ WriteNoResponse(c) \/ QueryStatus(c)
  \/ RecordCheckSuccess(c) \/ RecordCheckFailed(c) \/ RecordNotFound(c)
  \/ RecordUnknown(c) \/ RecordUnknownRejected(c)
  \/ ChkWriteback(c)

(* Rows whose fate run c still has to write.                                 *)
Checks(c, r) ==
  \/ \E s \in chk[c].todo : s.row = r
  \/ chk[c].pc \in {"noresponse", "query", "record"} /\ chk[c].row = r
=============================================================================
