------------------------------ MODULE Processor ------------------------------
(* app/processor.py: process_pending_recharges, run by the recharge_batch    *)
(* job and, beside it, by POST /admin/trigger-recharge.                      *)
EXTENDS ServiceState

CONSTANTS
  Dispatchers,       \* concurrent runs of process_pending_recharges
  DealerOf,          \* vendormsisdn (or ctopup_number) of each row
  BadMpin,           \* rows whose mpin does not decrypt with the key in use
  BatchSize,         \* recharge_batch_size
  AcceptCodes,       \* what the client may report of a POST Pyro accepted
  RejectCodes,       \* what it may report when Pyro created no transaction
  IdMayBeMissing     \* TRUE: an answer may come without a transactionId

ASSUME ProcessorAssumption ==
  /\ Dispatchers # {} /\ IsFiniteSet(Dispatchers)
  /\ DealerOf \in [Rows -> Nat]
  /\ BadMpin \subseteq Rows
  /\ BatchSize \in Nat \ {0}
  /\ AcceptCodes \subseteq Int
  /\ RejectCodes \subseteq Int \ {REGISTERED}
  /\ IdMayBeMissing \in BOOLEAN

VARIABLE disp   \* disp[d]: the local variables of run d

(* todo holds the fetched rows not handled yet, each with the retry_count it *)
(* had when fetched; row, attempt, code and trans belong to the row in hand; *)
(* spent is exhausted_dealers.                                               *)
Snapshot == [row : Rows, retry : Nat]

DispState ==
  [pc : {"idle", "fetched", "loop", "record", "writeback"}, todo : SUBSET Snapshot,
   row : Rows \cup {NoRow}, attempt : Nat, code : Int, trans : Nat,
   spent : SUBSET Nat]

DispTypeOK == disp \in [Dispatchers -> DispState]

DispIdle == [pc |-> "idle", todo |-> {}, row |-> NoRow, attempt |-> 0,
             code |-> 0, trans |-> 0, spent |-> {}]

DispInit == disp = [d \in Dispatchers |-> DispIdle]

(* The batch: the oldest pending rows, at most BatchSize of them.  Rows      *)
(* inserted together share created_at, so the order may leave a choice.      *)
IsBatch(B) ==
  LET pending == {r \in Rows : Pending(pg[r])} IN
    /\ B \subseteq pending
    /\ IF Cardinality(pending) <= BatchSize THEN B = pending
                                            ELSE Cardinality(B) = BatchSize
    /\ \A r \in B, q \in pending \ B : CreatedAt[r] <= CreatedAt[q]

(* With no row the run returns at once.                                      *)
FetchPending(d) ==
  /\ disp[d].pc = "idle"
  /\ \E B \in SUBSET Rows :
       /\ IsBatch(B) /\ B # {}
       /\ disp' = [disp EXCEPT
            ![d] = [DispIdle EXCEPT !.pc = "fetched",
                      !.todo = {[row |-> r, retry |-> pg[r].retry] : r \in B}]]
  /\ UNCHANGED shared

(* The next row of the loop, in the order of the SELECT.  The first one is   *)
(* taken with both tokens held, or once authenticate() has got them.         *)
IsNext(d, s) ==
  /\ disp[d].pc \in {"fetched", "loop"}
  /\ s \in disp[d].todo
  /\ \A t \in disp[d].todo : CreatedAt[s.row] <= CreatedAt[t.row]

(* Back to the loop, or out of it after the last row.                        *)
Loop(d, todo, spent) ==
  disp' = [disp EXCEPT ![d] =
             IF todo = {} THEN DispIdle
             ELSE [DispIdle EXCEPT !.pc = "loop", !.todo = todo, !.spent = spent]]

(* The tokens are missing and authenticate() does not get them: the batch is *)
(* deferred, and no retry is counted.                                        *)
DeferBatch(d) ==
  /\ disp[d].pc = "fetched"
  /\ Loop(d, {}, {})
  /\ UNCHANGED shared

DecryptFailureSkipped(d) ==  \* mutant: the row is skipped and the loop goes on
  /\ \E s \in disp[d].todo :
       /\ IsNext(d, s) /\ s.row \in BadMpin
       /\ Loop(d, disp[d].todo \ {s}, disp[d].spent)
  /\ UNCHANGED shared

(* decrypt(mpin) comes first and nothing in the loop catches what it raises. *)
DecryptFails(d) ==
  /\ \E s \in disp[d].todo : IsNext(d, s) /\ s.row \in BadMpin
  /\ Loop(d, {}, {})
  /\ UNCHANGED shared

SkipExhaustedDealer(d) ==
  /\ \E s \in disp[d].todo :
       /\ IsNext(d, s) /\ s.row \notin BadMpin
       /\ DealerOf[s.row] \in disp[d].spent
       /\ Loop(d, disp[d].todo \ {s}, disp[d].spent)
  /\ UNCHANGED shared

InHand(d, s, code, trans) ==
  disp' = [disp EXCEPT ![d] =
             [disp[d] EXCEPT !.pc = "record", !.todo = disp[d].todo \ {s}, !.row = s.row,
                             !.attempt = s.retry + 1, !.code = code, !.trans = trans]]

(* recharge(): action token, POST, answer.  Pyro creates a transaction, a    *)
(* new one each time: clientTxnId is the same for every attempt of a row and *)
(* nothing in the service relies on Pyro telling repeats apart.              *)
RechargeAccepted(d) ==
  /\ \E s \in disp[d].todo, code \in AcceptCodes, named \in {TRUE, ~IdMayBeMissing} :
       /\ IsNext(d, s) /\ s.row \notin BadMpin
       /\ DealerOf[s.row] \notin disp[d].spent
       /\ Len(ledger[s.row]) < MaxTxns
       /\ ledger' = [ledger EXCEPT ![s.row] = Append(@, "pending")]
       /\ InHand(d, s, code, IF named THEN Len(ledger[s.row]) + 1 ELSE 0)
  /\ UNCHANGED <<pg, bcd, aborts>>

(* No transaction: no token, no connection, or Pyro refuses.                 *)
RechargeRefused(d) ==
  /\ \E s \in disp[d].todo, code \in RejectCodes :
       /\ IsNext(d, s) /\ s.row \notin BadMpin
       /\ DealerOf[s.row] \notin disp[d].spent
       /\ InHand(d, s, code, 0)
  /\ UNCHANGED shared

-----------------------------------------------------------------------------
(* What the answer does to the row.                                          *)

(* The branches that mark E whatever the attempt.                            *)
AlwaysRetried == {NO_ACTION_TOKEN, LOW_BALANCE, INVALID_TOKEN}
EndsBatch     == {NO_ACTION_TOKEN, INVALID_TOKEN}

FlagAfter(code, attempt) ==
  CASE code \in PERMANENT_FAILURE_CODES -> "F"
    [] code \in AlwaysRetried           -> "E"
    [] OTHER -> IF attempt >= MaxRetries THEN "F" ELSE "E"

ToWriteback(d) == disp' = [disp EXCEPT ![d].pc = "writeback"]

RecordPushed(d) ==
  /\ disp[d].pc = "record" /\ disp[d].code = REGISTERED
  /\ pg' = [pg EXCEPT ![disp[d].row] = MarkAsPushed(@, disp[d].trans)]
  /\ ToWriteback(d)
  /\ UNCHANGED <<bcd, ledger, aborts>>

RecordFailed(d) ==
  /\ disp[d].pc = "record" /\ disp[d].code # REGISTERED
  /\ FlagAfter(disp[d].code, disp[d].attempt) = "F"
  /\ pg' = [pg EXCEPT ![disp[d].row] = MarkAsFailed(@)]
  /\ ToWriteback(d)
  /\ UNCHANGED <<bcd, ledger, aborts>>

Retrying(d) ==
  /\ disp[d].pc = "record" /\ disp[d].code # REGISTERED
  /\ FlagAfter(disp[d].code, disp[d].attempt) = "E"

(* A token failure breaks out of the loop; 405 bars the dealer for the rest  *)
(* of the batch.                                                             *)
RecordRetry(d) ==
  /\ Retrying(d) /\ RetryCheckHolds(pg[disp[d].row])
  /\ pg' = [pg EXCEPT ![disp[d].row] = MarkForRetry(@)]
  /\ IF disp[d].code \in EndsBatch
     THEN Loop(d, {}, {})
     ELSE Loop(d, disp[d].todo,
               IF disp[d].code = LOW_BALANCE
               THEN disp[d].spent \cup {DealerOf[disp[d].row]} ELSE disp[d].spent)
  /\ UNCHANGED <<bcd, ledger, aborts>>

(* The retry CHECK rejects the UPDATE: the exception ends the batch.         *)
RecordRetryRejected(d) ==
  /\ Retrying(d) /\ ~RetryCheckHolds(pg[disp[d].row])
  /\ Loop(d, {}, {})
  /\ UNCHANGED shared

(* Mutant: the recharge shows as processed once Pyro has registered it.      *)
BcdAfterRegistered(code) == IF code = REGISTERED THEN "P" ELSE "F"

(* What is written back: waiting for Pyro, or failed with bad data or not.   *)
BcdAfter(code) ==
  CASE code = REGISTERED                -> "W"
    [] code \in PERMANENT_FAILURE_CODES -> BcdStatusForPyroFailure(code)
    [] OTHER                            -> "F"

DispWriteback(d) ==
  /\ disp[d].pc = "writeback"
  /\ UpdateBcdStatus(disp[d].row, BcdAfter(disp[d].code))
  /\ Loop(d, disp[d].todo, disp[d].spent)
  /\ UNCHANGED <<pg, ledger, aborts>>

(* The run is cut short: Postgres raises, the task is cancelled or the       *)
(* process ends.                                                             *)
DispAbort(d) ==
  /\ disp[d].pc # "idle"
  /\ CutShort
  /\ disp' = [disp EXCEPT ![d] = DispIdle]
  /\ UNCHANGED <<pg, bcd, ledger>>

DispStep(d) ==
  \/ FetchPending(d) \/ DeferBatch(d)
  \/ DecryptFails(d) \/ SkipExhaustedDealer(d)
  \/ RechargeAccepted(d) \/ RechargeRefused(d)
  \/ RecordPushed(d) \/ RecordFailed(d)
  \/ RecordRetry(d) \/ RecordRetryRejected(d)
  \/ DispWriteback(d)

(* The loop starts on the batch just fetched.                                *)
BeginBatch(d) ==
  /\ disp[d].pc = "fetched"
  /\ DecryptFails(d) \/ RechargeAccepted(d) \/ RechargeRefused(d)

(* Rows whose fate run d still has to write: fetched, or answered for.       *)
Holds(d, r) ==
  \/ \E s \in disp[d].todo : s.row = r
  \/ disp[d].pc = "record" /\ disp[d].row = r
=============================================================================
