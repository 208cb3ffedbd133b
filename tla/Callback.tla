------------------------------- MODULE Callback -------------------------------
(* app/callback.py: recharge_callback, one handler per POST from Pyro.       *)
EXTENDS ServiceState

CONSTANTS
  Handlers,          \* requests served at the same time
  FailureCodes       \* what Pyro may report a failed transaction with

ASSUME CallbackAssumption == FailureCodes \subseteq Int \ {SUCCESS}

VARIABLE hand   \* hand[h]: the local variables of handler h

HandState ==
  [pc : {"idle", "record", "writeback"}, row : Rows \cup {NoRow}, code : Int]

HandTypeOK == hand \in [Handlers -> HandState]

HandIdle == [pc |-> "idle", row |-> NoRow, code |-> 0]

HandInit == hand = [h \in Handlers |-> HandIdle]

(* A callback for transaction k of row r, found by pyro_trans_id, read and   *)
(* past the idempotency guard.  Pyro may send it any number of times, at any *)
(* time after the outcome, or never.  A callback that finds no row (the      *)
(* transaction is not recorded yet, or was recorded over) or a terminal row  *)
(* is answered and changes nothing.                                          *)
Receive(h) ==
  /\ hand[h].pc = "idle"
  /\ \E r \in Rows :
       LET k == pg[r].trans IN
       /\ k \in DOMAIN ledger[r]
       /\ pg[r].flag \notin Terminal
       /\ \/ /\ ledger[r][k] = "success"
             /\ hand' = [hand EXCEPT ![h] = [pc |-> "record", row |-> r, code |-> SUCCESS]]
          \/ /\ ledger[r][k] = "failed"
             /\ \E code \in FailureCodes :
                  hand' = [hand EXCEPT ![h] = [pc |-> "record", row |-> r, code |-> code]]
  /\ UNCHANGED shared

(* Mutant: only the permanent codes count as failures, not Pyro's 902.       *)
RecordUnlessPermanent(h) ==
  /\ hand[h].pc = "record"
  /\ pg' = [pg EXCEPT ![hand[h].row] =
              IF hand[h].code \notin PERMANENT_FAILURE_CODES
              THEN MarkAsSuccess(@) ELSE MarkAsFailed(@)]
  /\ hand' = [hand EXCEPT ![h].pc = "writeback"]
  /\ UNCHANGED <<bcd, ledger, aborts>>

(* Success takes 2000 and the status SUCCESS.  The flag is not read again:   *)
(* the guard was before the log insert.                                      *)
RecordCallback(h) ==
  /\ hand[h].pc = "record"
  /\ pg' = [pg EXCEPT ![hand[h].row] =
              IF hand[h].code = SUCCESS THEN MarkAsSuccess(@) ELSE MarkAsFailed(@)]
  /\ hand' = [hand EXCEPT ![h].pc = "writeback"]
  /\ UNCHANGED <<bcd, ledger, aborts>>

HandWriteback(h) ==
  /\ hand[h].pc = "writeback"
  /\ UpdateBcdStatus(hand[h].row,
       IF hand[h].code = SUCCESS THEN "P" ELSE BcdStatusForPyroFailure(hand[h].code))
  /\ hand' = [hand EXCEPT ![h] = HandIdle]
  /\ UNCHANGED <<pg, ledger, aborts>>

HandAbort(h) ==
  /\ hand[h].pc # "idle"
  /\ CutShort
  /\ hand' = [hand EXCEPT ![h] = HandIdle]
  /\ UNCHANGED <<pg, bcd, ledger>>

HandStep(h) == Receive(h) \/ RecordCallback(h) \/ HandWriteback(h)
=============================================================================
