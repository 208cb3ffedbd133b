---------------------------- MODULE ServiceProofs ----------------------------
(* Theorems about Service, for every value of its constants: its types, and  *)
(* what one run of each job at a time gives whatever is lost, refused or cut *)
(* short, OneOwner and RetryCheckNeverFires.                                 *)
EXTENDS Service, TLAPS

(* The typing invariant: types, and a row in hand past the first step.       *)

StoreOK ==
  /\ SharedTypeOK
  /\ \A r \in Rows : pg[r].retry <= MaxRetries + 1

DispOK ==
  /\ DispTypeOK
  /\ \A d \in Dispatchers : disp[d].pc \in {"record", "writeback"} => disp[d].row \in Rows

ChkOK ==
  /\ ChkTypeOK
  /\ \A c \in Checkers : chk[c].pc \notin {"idle", "loop"} => chk[c].row \in Rows

HandOK ==
  /\ HandTypeOK
  /\ \A h \in Handlers : hand[h].pc # "idle" => hand[h].row \in Rows

TypeInv == StoreOK /\ DispOK /\ ChkOK /\ HandOK

-----------------------------------------------------------------------------
(* The statements on a row keep its type.                                    *)
LEMMA RowUpdates ==
  ASSUME NEW row \in Row, NEW k \in Nat
  PROVE  /\ MarkAsPushed(row, k) \in Row
         /\ MarkAsSuccess(row) \in Row
         /\ MarkAsFailed(row) \in Row
         /\ MarkForRetry(row) \in Row
         /\ UpdateStatusCheckAttempt(row) \in Row
         /\ MarkAsPushed(row, k).retry = row.retry
         /\ MarkAsSuccess(row).retry = row.retry
         /\ MarkAsFailed(row).retry = row.retry
         /\ MarkForRetry(row).retry = row.retry + 1
         /\ UpdateStatusCheckAttempt(row).retry = row.retry
  <1>1. MarkAsPushed(row, k) \in Row /\ MarkAsPushed(row, k).retry = row.retry
    BY DEF Row, MarkAsPushed, Flags, Ages
  <1>2. MarkAsSuccess(row) \in Row /\ MarkAsSuccess(row).retry = row.retry
    BY DEF Row, MarkAsSuccess, Flags
  <1>3. MarkAsFailed(row) \in Row /\ MarkAsFailed(row).retry = row.retry
    BY DEF Row, MarkAsFailed, Flags
  <1>4. MarkForRetry(row) \in Row /\ MarkForRetry(row).retry = row.retry + 1
    <2>1. row.retry + 1 \in Nat
      BY DEF Row
    <2>2. \A n \in Nat : [row EXCEPT !.flag = "E", !.retry = n] \in Row
      BY DEF Row, Flags
    <2> QED
      BY <2>1, <2>2 DEF MarkForRetry, Row
  <1>5. /\ UpdateStatusCheckAttempt(row) \in Row
        /\ UpdateStatusCheckAttempt(row).retry = row.retry
    BY DEF Row, UpdateStatusCheckAttempt
  <1> QED
    BY <1>1, <1>2, <1>3, <1>4, <1>5

(* What the statements do to the flag and the retry count.                   *)
LEMMA MarkEffects ==
  ASSUME NEW row \in Row, NEW k \in Nat
  PROVE  /\ MarkAsPushed(row, k).flag = "P" /\ MarkAsPushed(row, k).retry = row.retry
         /\ MarkAsSuccess(row).flag = "Y" /\ MarkAsSuccess(row).retry = row.retry
         /\ MarkAsFailed(row).flag = "F" /\ MarkAsFailed(row).retry = row.retry
         /\ MarkForRetry(row).flag = "E" /\ MarkForRetry(row).retry = row.retry + 1
         /\ UpdateStatusCheckAttempt(row).flag = row.flag
         /\ UpdateStatusCheckAttempt(row).retry = row.retry
  BY DEF Row, MarkAsPushed, MarkAsSuccess, MarkAsFailed, MarkForRetry,
         UpdateStatusCheckAttempt

(* The two tables of BCD statuses stay inside BcdStatuses.                   *)
LEMMA BcdWritten ==
  ASSUME NEW code
  PROVE  BcdStatusForPyroFailure(code) \in BcdStatuses /\ BcdAfter(code) \in BcdStatuses
  <1>1. BcdStatusForPyroFailure(code) \in BcdStatuses
    BY DEF BcdStatusForPyroFailure, BcdStatuses
  <1> QED
    BY <1>1 DEF BcdAfter, BcdStatuses

(* What a step may do to the shared state, and that it keeps the types.      *)
LEMMA StoreKept ==
  ASSUME StoreOK, UNCHANGED shared
  PROVE  StoreOK'
  BY DEF StoreOK, SharedTypeOK, shared

(* One row rewritten, with a retry count the CHECK allows.                   *)
LEMMA RowWritten ==
  ASSUME StoreOK, NEW r \in Rows, NEW row \in Row, row.retry <= MaxRetries + 1,
         pg' = [pg EXCEPT ![r] = row], UNCHANGED <<bcd, ledger, aborts>>
  PROVE  StoreOK'
  BY DEF StoreOK, SharedTypeOK

(* One BCD record written back, or not.                                      *)
LEMMA BcdUpdated ==
  ASSUME StoreOK, NEW r \in Rows, NEW s \in BcdStatuses, UpdateBcdStatus(r, s),
         UNCHANGED <<pg, ledger, aborts>>
  PROVE  StoreOK'
  BY DEF StoreOK, SharedTypeOK, UpdateBcdStatus

(* One row's transactions rewritten in Pyro's book.                          *)
LEMMA LedgerWritten ==
  ASSUME StoreOK, NEW r \in Rows, NEW l \in Seq(Outcomes),
         ledger' = [ledger EXCEPT ![r] = l], UNCHANGED <<pg, bcd, aborts>>
  PROVE  StoreOK'
  BY DEF StoreOK, SharedTypeOK

(* A job cut short counts, and writes nothing.                               *)
LEMMA StoreCutShort ==
  ASSUME StoreOK, CutShort, UNCHANGED <<pg, bcd, ledger>>
  PROVE  StoreOK'
  BY ServiceAssumption DEF StoreOK, SharedTypeOK, CutShort

(* The row in hand, marked one way or another.                               *)
LEMMA StoreMarked ==
  ASSUME StoreOK, NEW r \in Rows, NEW row \in Row,
         \/ \E k \in Nat : row = MarkAsPushed(pg[r], k)
         \/ row = MarkAsSuccess(pg[r])
         \/ row = MarkAsFailed(pg[r])
         \/ row = UpdateStatusCheckAttempt(pg[r])
         \/ row = MarkForRetry(pg[r]) /\ RetryCheckHolds(pg[r]),
         pg' = [pg EXCEPT ![r] = row], UNCHANGED <<bcd, ledger, aborts>>
  PROVE  StoreOK'
  <1>1. pg[r] \in Row /\ pg[r].retry <= MaxRetries + 1
    BY DEF StoreOK, SharedTypeOK
  <1>2. row.retry <= MaxRetries + 1
    BY <1>1, RowUpdates DEF RetryCheckHolds
  <1> QED
    BY <1>2, RowWritten

-----------------------------------------------------------------------------
(* The processor keeps the types.                                            *)

(* A run that has fetched its batch has yet to look for the tokens.          *)
LEMMA DispFetched ==
  ASSUME NEW todo \in SUBSET Snapshot
  PROVE  /\ [DispIdle EXCEPT !.pc = "fetched", !.todo = todo] \in DispState
         /\ [DispIdle EXCEPT !.pc = "fetched", !.todo = todo].pc = "fetched"
  <1>1. DispIdle \in DispState
    BY DEF DispIdle, DispState
  <1> QED
    BY <1>1 DEF DispState

(* One run of the processor rewritten.                                       *)
LEMMA DispUpdate ==
  ASSUME DispOK, NEW d \in Dispatchers, NEW v \in DispState,
         v.pc \in {"record", "writeback"} => v.row \in Rows,
         disp' = [disp EXCEPT ![d] = v]
  PROVE  DispOK'
  BY DEF DispOK, DispTypeOK

(* Going back to the loop, or out of it, with no more rows than before.      *)
LEMMA LoopTyped ==
  ASSUME DispOK, NEW d \in Dispatchers, NEW todo \in SUBSET Snapshot,
         NEW spent \in SUBSET Nat, Loop(d, todo, spent)
  PROVE  DispOK'
  <1> DEFINE v == IF todo = {} THEN DispIdle
                  ELSE [DispIdle EXCEPT !.pc = "loop", !.todo = todo, !.spent = spent]
  <1>1. DispIdle \in DispState /\ DispIdle.pc = "idle"
    BY DEF DispIdle, DispState
  <1>2. v \in DispState /\ v.pc \in {"idle", "loop"}
    BY <1>1 DEF DispIdle, DispState
  <1>3. disp' = [disp EXCEPT ![d] = v]
    BY DEF Loop
  <1> QED
    BY <1>2, <1>3, DispUpdate

(* Taking a fetched row and the answer to its POST.                          *)
LEMMA InHandTyped ==
  ASSUME DispOK, NEW d \in Dispatchers, NEW s \in disp[d].todo,
         NEW code \in Int, NEW trans \in Nat, InHand(d, s, code, trans)
  PROVE  DispOK'
  <1> DEFINE v == [disp[d] EXCEPT !.pc = "record", !.todo = disp[d].todo \ {s}, !.row = s.row,
                     !.attempt = s.retry + 1, !.code = code, !.trans = trans]
  <1>1. disp[d] \in DispState
    BY DEF DispOK, DispTypeOK
  <1>2. s.row \in Rows /\ s.retry + 1 \in Nat
    BY <1>1 DEF DispState, Snapshot
  <1>3. disp[d].todo \ {s} \in SUBSET Snapshot
    BY <1>1 DEF DispState
  <1>4. v \in DispState
    BY <1>1, <1>2, <1>3 DEF DispState
  <1>5. v.row \in Rows
    BY <1>1, <1>2 DEF DispState
  <1>6. disp' = [disp EXCEPT ![d] = v]
    BY <1>1 DEF InHand, DispOK, DispTypeOK
  <1> QED
    BY <1>4, <1>5, <1>6, DispUpdate

(* From the UPDATE of the row on to the one of BCD.                          *)
LEMMA ToWritebackTyped ==
  ASSUME DispOK, NEW d \in Dispatchers, disp[d].pc = "record", ToWriteback(d)
  PROVE  DispOK'
  <1> DEFINE v == [disp[d] EXCEPT !.pc = "writeback"]
  <1>1. v \in DispState /\ v.row \in Rows
    BY DEF DispOK, DispTypeOK, DispState
  <1>2. disp' = [disp EXCEPT ![d] = v]
    BY DEF ToWriteback, DispOK, DispTypeOK
  <1> QED
    BY <1>1, <1>2, DispUpdate

(* Every step of the processor keeps the typing invariant.                   *)
LEMMA ProcessorTyped ==
  ASSUME TypeInv, NEW d \in Dispatchers, DispStep(d)
  PROVE  StoreOK' /\ DispOK'
  <1> USE DEF TypeInv
  <1>0. disp[d] \in DispState /\ (disp[d].pc = "record" => disp[d].row \in Rows)
    BY DEF DispOK, DispTypeOK
  <1>1. CASE FetchPending(d)
    <2>1. PICK B \in SUBSET Rows :
            disp' = [disp EXCEPT ![d] = [DispIdle EXCEPT !.pc = "fetched",
              !.todo = {[row |-> r, retry |-> pg[r].retry] : r \in B}]]
      BY <1>1 DEF FetchPending
    <2>2. {[row |-> r, retry |-> pg[r].retry] : r \in B} \in SUBSET Snapshot
      BY DEF StoreOK, SharedTypeOK, Row, Snapshot
    <2>3. PICK todo \in SUBSET Snapshot :
            disp' = [disp EXCEPT ![d] = [DispIdle EXCEPT !.pc = "fetched", !.todo = todo]]
      BY <2>1, <2>2
    <2>4. /\ [DispIdle EXCEPT !.pc = "fetched", !.todo = todo] \in DispState
          /\ [DispIdle EXCEPT !.pc = "fetched", !.todo = todo].pc = "fetched"
      BY DispFetched
    <2>5. StoreOK'
      BY <1>1, StoreKept DEF FetchPending
    <2> QED
      BY <2>3, <2>4, <2>5, DispUpdate
  <1>2. CASE DeferBatch(d) \/ DecryptFails(d)
    BY <1>2, StoreKept, LoopTyped DEF DeferBatch, DecryptFails
  <1>3. CASE SkipExhaustedDealer(d)
    <2>1. PICK s \in disp[d].todo : Loop(d, disp[d].todo \ {s}, disp[d].spent)
      BY <1>3 DEF SkipExhaustedDealer
    <2>2. disp[d].todo \ {s} \in SUBSET Snapshot /\ disp[d].spent \in SUBSET Nat
      BY <1>0 DEF DispState
    <2> QED
      BY <1>3, <2>1, <2>2, StoreKept, LoopTyped DEF SkipExhaustedDealer
  <1>4. CASE RechargeAccepted(d)
    <2>1. PICK s \in disp[d].todo, code \in AcceptCodes, named \in BOOLEAN :
            /\ ledger' = [ledger EXCEPT ![s.row] = Append(ledger[s.row], "pending")]
            /\ InHand(d, s, code, IF named THEN Len(ledger[s.row]) + 1 ELSE 0)
      BY <1>4, ProcessorAssumption DEF RechargeAccepted
    <2>2. s.row \in Rows /\ code \in Int
      BY <1>0, ProcessorAssumption DEF DispState, Snapshot
    <2>3. ledger[s.row] \in Seq(Outcomes)
      BY <2>2 DEF StoreOK, SharedTypeOK
    <2>4. /\ Append(ledger[s.row], "pending") \in Seq(Outcomes)
          /\ (IF named THEN Len(ledger[s.row]) + 1 ELSE 0) \in Nat
      BY <2>3 DEF Outcomes
    <2> QED
      BY <1>4, <2>1, <2>2, <2>4, LedgerWritten, InHandTyped DEF RechargeAccepted
  <1>5. CASE RechargeRefused(d)
    <2>1. PICK s \in disp[d].todo, code \in RejectCodes : InHand(d, s, code, 0)
      BY <1>5 DEF RechargeRefused
    <2>2. code \in Int
      BY ProcessorAssumption
    <2> QED
      BY <1>5, <2>1, <2>2, StoreKept, InHandTyped DEF RechargeRefused
  <1>6. CASE RecordPushed(d)
    <2>1. disp[d].row \in Rows /\ disp[d].trans \in Nat
      BY <1>0, <1>6 DEF RecordPushed, DispState
    <2>2. pg[disp[d].row] \in Row
      BY <2>1 DEF StoreOK, SharedTypeOK
    <2> QED
      BY <1>6, <2>1, <2>2, RowUpdates, StoreMarked, ToWritebackTyped DEF RecordPushed
  <1>7. CASE RecordFailed(d)
    <2>1. disp[d].row \in Rows /\ pg[disp[d].row] \in Row
      BY <1>0, <1>7 DEF RecordFailed, StoreOK, SharedTypeOK
    <2>2. MarkAsFailed(pg[disp[d].row]) \in Row
      BY <2>1, RowUpdates, 0 \in Nat
    <2> QED
      BY <1>7, <2>1, <2>2, StoreMarked, ToWritebackTyped DEF RecordFailed
  <1>8. CASE RecordRetry(d)
    <2>1. disp[d].row \in Rows /\ pg[disp[d].row] \in Row
      BY <1>0, <1>8 DEF RecordRetry, Retrying, StoreOK, SharedTypeOK
    <2>2. MarkForRetry(pg[disp[d].row]) \in Row
      BY <2>1, RowUpdates, 0 \in Nat
    <2>3. /\ disp[d].todo \in SUBSET Snapshot /\ disp[d].spent \in SUBSET Nat
          /\ disp[d].spent \cup {DealerOf[disp[d].row]} \in SUBSET Nat
      BY <1>0, <2>1, ProcessorAssumption DEF DispState
    <2>4. DispOK'
      BY <1>8, <2>3, LoopTyped DEF RecordRetry
    <2> QED
      BY <1>8, <2>1, <2>2, <2>4, StoreMarked DEF RecordRetry
  <1>9. CASE RecordRetryRejected(d)
    BY <1>9, StoreKept, LoopTyped DEF RecordRetryRejected
  <1>10. CASE DispWriteback(d)
    <2>1. disp[d].row \in Rows /\ BcdAfter(disp[d].code) \in BcdStatuses
      BY <1>10, BcdWritten DEF DispWriteback, DispOK
    <2>2. disp[d].todo \in SUBSET Snapshot /\ disp[d].spent \in SUBSET Nat
      BY <1>0 DEF DispState
    <2> QED
      BY <1>10, <2>1, <2>2, BcdUpdated, LoopTyped DEF DispWriteback
  <1> QED
    BY <1>1, <1>2, <1>3, <1>4, <1>5, <1>6, <1>7, <1>8, <1>9, <1>10 DEF DispStep

-----------------------------------------------------------------------------
(* The status checker keeps the types.                                       *)

(* A run of the status checker that has fetched its rows is in the loop.     *)
LEMMA ChkFetched ==
  ASSUME NEW todo \in SUBSET Seen
  PROVE  /\ [ChkIdle EXCEPT !.pc = "loop", !.todo = todo] \in ChkState
         /\ [ChkIdle EXCEPT !.pc = "loop", !.todo = todo].pc = "loop"
  <1>1. ChkIdle \in ChkState
    BY DEF ChkIdle, ChkState
  <1> QED
    BY <1>1 DEF ChkState

(* One run of the status checker rewritten.                                  *)
LEMMA ChkUpdate ==
  ASSUME ChkOK, NEW c \in Checkers, NEW v \in ChkState,
         v.pc \notin {"idle", "loop"} => v.row \in Rows,
         chk' = [chk EXCEPT ![c] = v]
  PROVE  ChkOK'
  BY DEF ChkOK, ChkTypeOK

(* Going back to the loop of the status checker, or out of it.               *)
LEMMA ChkLoopTyped ==
  ASSUME ChkOK, NEW c \in Checkers, NEW todo \in SUBSET Seen, ChkLoop(c, todo)
  PROVE  ChkOK'
  <1> DEFINE v == IF todo = {} THEN ChkIdle
                  ELSE [ChkIdle EXCEPT !.pc = "loop", !.todo = todo]
  <1>1. ChkIdle \in ChkState /\ ChkIdle.pc = "idle"
    BY DEF ChkIdle, ChkState
  <1>2. v \in ChkState /\ v.pc \in {"idle", "loop"}
    BY <1>1 DEF ChkIdle, ChkState
  <1>3. chk' = [chk EXCEPT ![c] = v]
    BY DEF ChkLoop
  <1> QED
    BY <1>2, <1>3, ChkUpdate

(* A run with a row in hand moves on to its next step with it.               *)
LEMMA ChkMoved ==
  ASSUME ChkOK, NEW c \in Checkers, NEW code \in Int, chk[c].row \in Rows,
         NEW pc \in {"query", "record", "writeback"},
         chk' = [chk EXCEPT ![c] = [chk[c] EXCEPT !.pc = pc, !.code = code]]
  PROVE  ChkOK'
  <1>1. [chk[c] EXCEPT !.pc = pc, !.code = code] \in ChkState
    BY DEF ChkOK, ChkTypeOK, ChkState
  <1>2. [chk[c] EXCEPT !.pc = pc, !.code = code].row = chk[c].row
    BY DEF ChkOK, ChkTypeOK, ChkState
  <1> QED
    BY <1>1, <1>2, ChkUpdate

(* From the UPDATE of the row on to the one of BCD.                          *)
LEMMA ChkToWritebackTyped ==
  ASSUME ChkOK, NEW c \in Checkers, chk[c].pc = "record", ChkToWriteback(c)
  PROVE  ChkOK'
  <1>1. [chk[c] EXCEPT !.pc = "writeback"] \in ChkState
    BY DEF ChkOK, ChkTypeOK, ChkState
  <1>2. [chk[c] EXCEPT !.pc = "writeback"].row \in Rows
    BY DEF ChkOK, ChkTypeOK, ChkState
  <1>3. chk' = [chk EXCEPT ![c] = [chk[c] EXCEPT !.pc = "writeback"]]
    BY DEF ChkToWriteback, ChkOK, ChkTypeOK
  <1> QED
    BY <1>1, <1>2, <1>3, ChkUpdate

(* Every step of the status checker keeps the typing invariant.              *)
LEMMA CheckerTyped ==
  ASSUME TypeInv, NEW c \in Checkers, ChkStep(c)
  PROVE  StoreOK' /\ ChkOK'
  <1> USE DEF TypeInv
  <1>0. chk[c] \in ChkState /\ (chk[c].pc \notin {"idle", "loop"} => chk[c].row \in Rows)
    BY DEF ChkOK, ChkTypeOK
  <1>m. ASSUME chk[c].pc = "record"
        PROVE  /\ chk[c].row \in Rows
               /\ pg[chk[c].row] \in Row
               /\ MarkAsSuccess(pg[chk[c].row]) \in Row
               /\ MarkAsFailed(pg[chk[c].row]) \in Row
               /\ MarkForRetry(pg[chk[c].row]) \in Row
               /\ UpdateStatusCheckAttempt(pg[chk[c].row]) \in Row
               /\ chk[c].todo \in SUBSET Seen
    <2>1. chk[c].row \in Rows /\ pg[chk[c].row] \in Row
      BY <1>0, <1>m DEF StoreOK, SharedTypeOK
    <2> QED
      BY <1>0, <2>1, RowUpdates, 0 \in Nat DEF ChkState
  <1>1. CASE FetchDue(c)
    <2>1. {[row |-> r, trans |-> pg[r].trans, checked |-> pg[r].checked] :
             r \in {q \in Rows : Due(pg[q])}} \in SUBSET Seen
      BY DEF StoreOK, SharedTypeOK, Row, Seen
    <2>2. PICK todo \in SUBSET Seen :
            chk' = [chk EXCEPT ![c] = [ChkIdle EXCEPT !.pc = "loop", !.todo = todo]]
      BY <1>1, <2>1 DEF FetchDue
    <2>3. /\ [ChkIdle EXCEPT !.pc = "loop", !.todo = todo] \in ChkState
          /\ [ChkIdle EXCEPT !.pc = "loop", !.todo = todo].pc = "loop"
      BY ChkFetched
    <2>4. StoreOK'
      BY <1>1, StoreKept DEF FetchDue
    <2> QED
      BY <2>2, <2>3, <2>4, ChkUpdate
  <1>2. CASE CountAttempt(c)
    <2>1. PICK s \in chk[c].todo :
            /\ pg' = [pg EXCEPT ![s.row] = UpdateStatusCheckAttempt(pg[s.row])]
            /\ chk' = [chk EXCEPT ![c] =
                 [chk[c] EXCEPT !.pc = IF s.checked THEN "query" ELSE "noresponse",
                    !.todo = chk[c].todo \ {s}, !.row = s.row, !.trans = s.trans]]
      BY <1>2 DEF CountAttempt
    <2>2. s.row \in Rows /\ s.trans \in Nat
      BY <1>0 DEF ChkState, Seen
    <2>3. pg[s.row] \in Row
      BY <2>2 DEF StoreOK, SharedTypeOK
    <2>4. StoreOK'
      BY <1>2, <2>1, <2>2, <2>3, RowUpdates, 0 \in Nat, StoreMarked DEF CountAttempt
    <2> DEFINE v == [chk[c] EXCEPT !.pc = IF s.checked THEN "query" ELSE "noresponse",
                       !.todo = chk[c].todo \ {s}, !.row = s.row, !.trans = s.trans]
    <2>5. chk[c].todo \ {s} \in SUBSET Seen
      BY <1>0 DEF ChkState
    <2>6. v \in ChkState /\ v.row = s.row
      BY <1>0, <2>2, <2>5 DEF ChkState
    <2> QED
      BY <2>1, <2>2, <2>4, <2>6, ChkUpdate
  <1>3. CASE WriteNoResponse(c)
    <2>1. chk[c].row \in Rows /\ "NR" \in BcdStatuses
      BY <1>0, <1>3 DEF WriteNoResponse, BcdStatuses
    <2>2. StoreOK'
      BY <1>3, <2>1, BcdUpdated DEF WriteNoResponse
    <2>3. chk' = [chk EXCEPT ![c] = [chk[c] EXCEPT !.pc = "query"]]
      BY <1>3 DEF WriteNoResponse, ChkOK, ChkTypeOK
    <2>4. [chk[c] EXCEPT !.pc = "query"] \in ChkState
      BY <1>0 DEF ChkState
    <2>5. [chk[c] EXCEPT !.pc = "query"].row = chk[c].row
      BY <1>0 DEF ChkState
    <2> QED
      BY <2>1, <2>2, <2>3, <2>4, <2>5, ChkUpdate
  <1>4. CASE QueryStatus(c)
    <2>1. PICK code \in Answers(chk[c].row, chk[c].trans) :
            chk' = [chk EXCEPT ![c].pc = "record", ![c].code = code]
      BY <1>4 DEF QueryStatus
    <2>2. code \in Int
      BY <2>1, CheckerAssumption DEF Answers, SUCCESS, TXN_FAILED, NOT_FOUND, NO_ANSWER
    <2>3. chk' = [chk EXCEPT ![c] = [chk[c] EXCEPT !.pc = "record", !.code = code]]
      BY <2>1 DEF ChkOK, ChkTypeOK
    <2>4. chk[c].row \in Rows
      BY <1>0, <1>4 DEF QueryStatus
    <2> QED
      BY <1>4, <2>2, <2>3, <2>4, StoreKept, ChkMoved DEF QueryStatus
  <1>5. CASE RecordCheckSuccess(c)
    BY <1>5, <1>m, StoreMarked, ChkToWritebackTyped DEF RecordCheckSuccess
  <1>6. CASE RecordCheckFailed(c)
    BY <1>6, <1>m, StoreMarked, ChkToWritebackTyped DEF RecordCheckFailed
  <1>7. CASE RecordNotFound(c)
    <2>1. ChkOK'
      BY <1>7, <1>m, ChkLoopTyped DEF RecordNotFound
    <2> QED
      BY <1>7, <1>m, <2>1, StoreMarked DEF RecordNotFound
  <1>8. CASE RecordUnknown(c)
    <2>1. ChkOK'
      BY <1>8, ChkToWritebackTyped DEF RecordUnknown, Requeueing
    <2> QED
      BY <1>8, <1>m, <2>1, StoreMarked DEF RecordUnknown, Requeueing
  <1>9. CASE RecordUnknownRejected(c)
    BY <1>9, StoreKept, ChkLoopTyped DEF RecordUnknownRejected
  <1>10. CASE ChkWriteback(c)
    <2>1. /\ chk[c].row \in Rows /\ chk[c].todo \in SUBSET Seen
          /\ (IF chk[c].code = SUCCESS THEN "P" ELSE "F") \in BcdStatuses
      BY <1>0, <1>10 DEF ChkWriteback, ChkState, BcdStatuses
    <2> QED
      BY <1>10, <2>1, BcdUpdated, ChkLoopTyped DEF ChkWriteback
  <1> QED
    BY <1>1, <1>2, <1>3, <1>4, <1>5, <1>6, <1>7, <1>8, <1>9, <1>10 DEF ChkStep

-----------------------------------------------------------------------------
(* The callback handlers keep the types.                                     *)

(* One callback handler rewritten.                                           *)
LEMMA HandUpdate ==
  ASSUME HandOK, NEW h \in Handlers, NEW v \in HandState,
         v.pc # "idle" => v.row \in Rows,
         hand' = [hand EXCEPT ![h] = v]
  PROVE  HandOK'
  BY DEF HandOK, HandTypeOK

(* A handler at rest.                                                        *)
LEMMA HandIdleTyped ==
  HandIdle \in HandState /\ HandIdle.pc = "idle"
  BY DEF HandIdle, HandState

(* Every step of a callback handler keeps the typing invariant.              *)
LEMMA CallbackTyped ==
  ASSUME TypeInv, NEW h \in Handlers, HandStep(h)
  PROVE  StoreOK' /\ HandOK'
  <1> USE DEF TypeInv
  <1>0. hand[h] \in HandState /\ (hand[h].pc # "idle" => hand[h].row \in Rows)
    BY DEF HandOK, HandTypeOK
  <1>1. CASE Receive(h)
    <2>1. PICK r \in Rows, code \in Int :
            hand' = [hand EXCEPT ![h] = [pc |-> "record", row |-> r, code |-> code]]
      <3>1. SUCCESS \in Int /\ \A code \in FailureCodes : code \in Int
        BY CallbackAssumption DEF SUCCESS
      <3>2. PICK r \in Rows :
              \/ hand' = [hand EXCEPT ![h] = [pc |-> "record", row |-> r, code |-> SUCCESS]]
              \/ \E code \in FailureCodes :
                   hand' = [hand EXCEPT ![h] = [pc |-> "record", row |-> r, code |-> code]]
        BY <1>1 DEF Receive
      <3> QED
        BY <3>1, <3>2
    <2>2. /\ [pc |-> "record", row |-> r, code |-> code] \in HandState
          /\ [pc |-> "record", row |-> r, code |-> code].row \in Rows
      BY DEF HandState
    <2>3. StoreOK'
      BY <1>1, StoreKept DEF Receive
    <2> QED
      BY <2>1, <2>2, <2>3, HandUpdate
  <1>2. CASE RecordCallback(h)
    <2>1. hand[h].row \in Rows /\ pg[hand[h].row] \in Row
      BY <1>0, <1>2 DEF RecordCallback, StoreOK, SharedTypeOK
    <2>2. /\ MarkAsSuccess(pg[hand[h].row]) \in Row
          /\ MarkAsFailed(pg[hand[h].row]) \in Row
      BY <2>1, RowUpdates, 0 \in Nat
    <2>3. StoreOK'
      <3>1. CASE hand[h].code = SUCCESS
        BY <1>2, <2>1, <2>2, <3>1, StoreMarked DEF RecordCallback
      <3>2. CASE hand[h].code # SUCCESS
        BY <1>2, <2>1, <2>2, <3>2, StoreMarked DEF RecordCallback
      <3> QED
        BY <3>1, <3>2
    <2>4. hand' = [hand EXCEPT ![h] = [hand[h] EXCEPT !.pc = "writeback"]]
      BY <1>2 DEF RecordCallback, HandOK, HandTypeOK
    <2>5. /\ [hand[h] EXCEPT !.pc = "writeback"] \in HandState
          /\ [hand[h] EXCEPT !.pc = "writeback"].row = hand[h].row
      BY <1>0 DEF HandState
    <2> QED
      BY <2>1, <2>3, <2>4, <2>5, HandUpdate
  <1>3. CASE HandWriteback(h)
    <2>1. /\ hand[h].row \in Rows
          /\ (IF hand[h].code = SUCCESS THEN "P"
              ELSE BcdStatusForPyroFailure(hand[h].code)) \in BcdStatuses
      BY <1>0, <1>3, BcdWritten DEF HandWriteback, BcdStatuses
    <2>2. StoreOK'
      BY <1>3, <2>1, BcdUpdated DEF HandWriteback
    <2> QED
      BY <1>3, <2>2, HandIdleTyped, HandUpdate DEF HandWriteback
  <1> QED
    BY <1>1, <1>2, <1>3 DEF HandStep

-----------------------------------------------------------------------------
(* Pyro, the clock and the aborts keep the types.                            *)

(* So does every step of Pyro and of the clock.                              *)
LEMMA EnvironmentTyped ==
  ASSUME TypeInv, Environment
  PROVE  StoreOK'
  <1> USE DEF TypeInv
  <1>1. PICK r \in Rows : Settle(r) \/ Ripen(r) \/ Lapse(r) \/ LinkBcd(r)
    BY DEF Environment
  <1>2. pg[r] \in Row /\ ledger[r] \in Seq(Outcomes) /\ pg[r].retry <= MaxRetries + 1
    BY DEF StoreOK, SharedTypeOK
  <1>3. CASE Settle(r)
    <2>1. PICK k \in DOMAIN ledger[r], outcome \in Outcomes :
            ledger' = [ledger EXCEPT ![r][k] = outcome]
      BY <1>3 DEF Settle, Outcomes
    <2>2. ledger' = [ledger EXCEPT ![r] = [ledger[r] EXCEPT ![k] = outcome]]
      BY <2>1 DEF StoreOK, SharedTypeOK
    <2>3. [ledger[r] EXCEPT ![k] = outcome] \in Seq(Outcomes)
      BY <1>2
    <2> QED
      BY <1>3, <2>2, <2>3, LedgerWritten DEF Settle
  <1>4. ASSUME NEW age \in Ages, pg' = [pg EXCEPT ![r].age = age],
               UNCHANGED <<bcd, ledger, aborts>>
        PROVE  StoreOK'
    <2>1. pg' = [pg EXCEPT ![r] = [pg[r] EXCEPT !.age = age]]
      BY <1>4 DEF StoreOK, SharedTypeOK
    <2>2. /\ [pg[r] EXCEPT !.age = age] \in Row
          /\ [pg[r] EXCEPT !.age = age].retry = pg[r].retry
      BY <1>2 DEF Row
    <2> QED
      BY <1>2, <1>4, <2>1, <2>2, RowWritten
  <1>5. CASE Ripen(r)
    BY <1>4, <1>5 DEF Ripen, Ages
  <1>6. CASE Lapse(r)
    BY <1>4, <1>6 DEF Lapse, Ages
  <1>7. CASE LinkBcd(r)
    BY <1>7 DEF LinkBcd, StoreOK, SharedTypeOK, BcdStatuses
  <1> QED
    BY <1>1, <1>3, <1>5, <1>6, <1>7

(* A run at rest, of each job.                                               *)
LEMMA IdleTyped ==
  /\ DispIdle \in DispState /\ DispIdle.pc = "idle"
  /\ ChkIdle \in ChkState /\ ChkIdle.pc = "idle"
  <1>1. DispIdle \in DispState /\ DispIdle.pc = "idle"
    BY DEF DispIdle, DispState
  <1>2. ChkIdle \in ChkState /\ ChkIdle.pc = "idle"
    BY DEF ChkIdle, ChkState
  <1> QED
    BY <1>1, <1>2

(* A job or handler cut short keeps the typing invariant.                    *)
LEMMA AbortTyped ==
  ASSUME TypeInv, Abort
  PROVE  TypeInv'
  <1> USE DEF TypeInv
  <1>1. CASE \E d \in Dispatchers : DispAbort(d) /\ UNCHANGED <<chk, hand>>
    <2>1. PICK d \in Dispatchers : DispAbort(d) /\ UNCHANGED <<chk, hand>>
      BY <1>1
    <2>2. StoreOK' /\ DispOK'
      BY <2>1, StoreCutShort, IdleTyped, DispUpdate DEF DispAbort
    <2> QED
      BY <2>1, <2>2 DEF ChkOK, ChkTypeOK, HandOK, HandTypeOK
  <1>2. CASE \E c \in Checkers : ChkAbort(c) /\ UNCHANGED <<disp, hand>>
    <2>1. PICK c \in Checkers : ChkAbort(c) /\ UNCHANGED <<disp, hand>>
      BY <1>2
    <2>2. StoreOK' /\ ChkOK'
      BY <2>1, StoreCutShort, IdleTyped, ChkUpdate DEF ChkAbort
    <2> QED
      BY <2>1, <2>2 DEF DispOK, DispTypeOK, HandOK, HandTypeOK
  <1>3. CASE \E h \in Handlers : HandAbort(h) /\ UNCHANGED <<disp, chk>>
    <2>1. PICK h \in Handlers : HandAbort(h) /\ UNCHANGED <<disp, chk>>
      BY <1>3
    <2>2. StoreOK' /\ HandOK'
      BY <2>1, StoreCutShort, HandIdleTyped, HandUpdate DEF HandAbort
    <2> QED
      BY <2>1, <2>2 DEF DispOK, DispTypeOK, ChkOK, ChkTypeOK
  <1> QED
    BY <1>1, <1>2, <1>3 DEF Abort

(* A run of the processor, or of the status checker, moves alone.            *)
LEMMA OtherRunsWait ==
  ASSUME TypeInv, NEW d \in Dispatchers, ProcessorStep(d)
  PROVE  \A e \in Dispatchers : e # d => disp'[e] = disp[e]
  BY DEF TypeInv, DispOK, DispTypeOK, ProcessorStep, DispStep, FetchPending, DeferBatch, DecryptFails,
         SkipExhaustedDealer, RechargeAccepted, RechargeRefused, InHand, RecordPushed,
         RecordFailed, RecordRetry, RecordRetryRejected, DispWriteback, ToWriteback, Loop

LEMMA OtherChecksWait ==
  ASSUME TypeInv, NEW c \in Checkers, CheckerStep(c)
  PROVE  \A e \in Checkers : e # c => chk'[e] = chk[e]
  BY DEF TypeInv, ChkOK, ChkTypeOK, CheckerStep, ChkStep, FetchDue, CountAttempt,
         WriteNoResponse, QueryStatus, RecordCheckSuccess, RecordCheckFailed, RecordNotFound,
         RecordUnknown, RecordUnknownRejected, ChkWriteback, ChkToWriteback, ChkLoop

(* The typing invariant holds at first.                                      *)
LEMMA InitTyped == Init => TypeInv
  <1> SUFFICES ASSUME Init PROVE TypeInv
    OBVIOUS
  <1>1. NewRow \in Row /\ NewRow.retry = 0
    BY DEF NewRow, Row, Flags, Ages
  <1>2. <<>> \in Seq(Outcomes)
    OBVIOUS
  <1>3. StoreOK
    BY <1>1, <1>2, ServiceAssumption, MaxRetriesAssumption
       DEF Init, SharedInit, StoreOK, SharedTypeOK, BcdStatuses
  <1>4. DispOK
    BY IdleTyped DEF Init, DispInit, DispOK, DispTypeOK
  <1>5. ChkOK
    BY IdleTyped DEF Init, ChkInit, ChkOK, ChkTypeOK
  <1>6. HandOK
    BY HandIdleTyped DEF Init, HandInit, HandOK, HandTypeOK
  <1> QED
    BY <1>3, <1>4, <1>5, <1>6 DEF TypeInv

(* Every step keeps it.                                                      *)
LEMMA NextTyped == TypeInv /\ [Next]_vars => TypeInv'
  <1> SUFFICES ASSUME TypeInv, [Next]_vars PROVE TypeInv'
    OBVIOUS
  <1> USE DEF TypeInv
  <1>1. CASE Environment
    BY <1>1, EnvironmentTyped
       DEF Environment, DispOK, DispTypeOK, ChkOK, ChkTypeOK, HandOK, HandTypeOK
  <1>2. CASE \E d \in Dispatchers : ProcessorStep(d)
    BY <1>2, ProcessorTyped DEF ProcessorStep, ChkOK, ChkTypeOK, HandOK, HandTypeOK
  <1>3. CASE \E c \in Checkers : CheckerStep(c)
    BY <1>3, CheckerTyped DEF CheckerStep, DispOK, DispTypeOK, HandOK, HandTypeOK
  <1>4. CASE \E h \in Handlers : CallbackStep(h)
    BY <1>4, CallbackTyped DEF CallbackStep, DispOK, DispTypeOK, ChkOK, ChkTypeOK
  <1>5. CASE Abort
    BY <1>5, AbortTyped
  <1>6. CASE UNCHANGED vars
    BY <1>6 DEF vars, shared, StoreOK, SharedTypeOK,
                DispOK, DispTypeOK, ChkOK, ChkTypeOK, HandOK, HandTypeOK
  <1> QED
    BY <1>1, <1>2, <1>3, <1>4, <1>5, <1>6 DEF Next

(* Every variable keeps its type, and no row's retry_count passes            *)
(* max_retries + 1, however many runs overlap and are cut short.             *)
THEOREM TypeCorrect == Spec => []TypeOK
  <1>1. TypeInv => TypeOK
    BY DEF TypeInv, TypeOK, StoreOK, DispOK, ChkOK, HandOK
  <1> QED
    BY <1>1, InitTyped, NextTyped, PTL DEF Spec

-----------------------------------------------------------------------------
(* Ownership.                                                                *)

(* One run of the processor at a time, and one of each job at a time.        *)
OneProcessor == \A d, e \in Dispatchers : d = e
OneRunEach   == OneProcessor /\ \A c, e \in Checkers : c = e

Open(r) == pg[r].flag \in {"N", "E"}

(* A batch names no row twice, nor the one in hand.                          *)
BatchOK ==
  /\ \A d \in Dispatchers :
       /\ \A s, t \in disp[d].todo : s.row = t.row => s = t
       /\ disp[d].pc \in {"record", "writeback"} => \A s \in disp[d].todo : s.row # disp[d].row
  /\ \A c \in Checkers :
       /\ \A s, t \in chk[c].todo : s.row = t.row => s = t
       /\ chk[c].pc \notin {"idle", "loop"} => \A s \in chk[c].todo : s.row # chk[c].row

(* A pushed row, and any row in hand, has room for one more retry.           *)
RoomToRetry ==
  \A r \in Rows :
    \/ pg[r].flag = "P"
    \/ \E d \in Dispatchers : Holds(d, r)
    \/ \E c \in Checkers : Checks(c, r)
    => pg[r].retry <= MaxRetries

OwnerInv == OneOwner /\ BatchOK /\ RoomToRetry

-----------------------------------------------------------------------------
(* The loop of the processor forgets the row in hand, and some of the batch. *)
LEMMA LoopShrinks ==
  ASSUME TypeInv, BatchOK, NEW d \in Dispatchers, NEW todo \in SUBSET disp[d].todo,
         NEW spent, Loop(d, todo, spent)
  PROVE  /\ disp'[d].todo = todo /\ disp'[d].pc \in {"idle", "loop"}
         /\ \A s, t \in disp'[d].todo : s.row = t.row => s = t
  <1>1. disp'[d] = IF todo = {} THEN DispIdle
                   ELSE [DispIdle EXCEPT !.pc = "loop", !.todo = todo, !.spent = spent]
    BY DEF Loop, TypeInv, DispOK, DispTypeOK
  <1>2. disp'[d].todo = todo /\ disp'[d].pc \in {"idle", "loop"}
    BY <1>1 DEF DispIdle
  <1> QED
    BY <1>2 DEF BatchOK

(* Every step of the processor keeps the batches free of repeats, however    *)
(* many runs there are.                                                      *)
LEMMA ProcessorBatches ==
  ASSUME TypeInv, BatchOK, NEW d \in Dispatchers, ProcessorStep(d)
  PROVE  BatchOK'
  <1>0. disp[d] \in DispState /\ disp \in [Dispatchers -> DispState]
    BY DEF TypeInv, DispOK, DispTypeOK
  <1>i. chk' = chk /\ \A e \in Dispatchers : e # d => disp'[e] = disp[e]
    BY OtherRunsWait DEF ProcessorStep
  <1>b. ASSUME \A s, t \in disp'[d].todo : s.row = t.row => s = t,
               disp'[d].pc \in {"record", "writeback"} =>
                 \A s \in disp'[d].todo : s.row # disp'[d].row
        PROVE  BatchOK'
    BY <1>i, <1>b DEF BatchOK
  <1>l. ASSUME NEW todo \in SUBSET disp[d].todo, NEW spent, Loop(d, todo, spent)
        PROVE  BatchOK'
    <2>1. /\ disp'[d].pc \in {"idle", "loop"}
          /\ \A s, t \in disp'[d].todo : s.row = t.row => s = t
      BY <1>l, LoopShrinks
    <2> QED
      BY <2>1, <1>b
  <1>1. CASE FetchPending(d)
    <2>1. PICK B \in SUBSET Rows :
            disp' = [disp EXCEPT ![d] = [DispIdle EXCEPT !.pc = "fetched",
              !.todo = {[row |-> r, retry |-> pg[r].retry] : r \in B}]]
      BY <1>1 DEF FetchPending
    <2>2. /\ disp'[d].todo = {[row |-> r, retry |-> pg[r].retry] : r \in B}
          /\ disp'[d].pc = "fetched"
      BY <1>0, <2>1 DEF DispIdle
    <2> QED
      BY <2>2, <1>b
  <1>2. CASE \/ DeferBatch(d) \/ DecryptFails(d) \/ SkipExhaustedDealer(d) \/ RecordRetry(d)
             \/ RecordRetryRejected(d) \/ DispWriteback(d)
    <2>1. \E todo \in SUBSET disp[d].todo : \E spent : Loop(d, todo, spent)
      BY <1>2 DEF DeferBatch, DecryptFails, SkipExhaustedDealer, RecordRetry, RecordRetryRejected,
                  DispWriteback
    <2> QED
      BY <2>1, <1>l
  <1>3. CASE RechargeAccepted(d) \/ RechargeRefused(d)
    <2>0. PICK s \in disp[d].todo : \E code, trans : InHand(d, s, code, trans)
      BY <1>3 DEF RechargeAccepted, RechargeRefused
    <2>1. PICK code, trans : InHand(d, s, code, trans)
      BY <2>0
    <2>2. /\ disp'[d].todo = disp[d].todo \ {s} /\ disp'[d].row = s.row
      BY <1>0, <2>1 DEF InHand, DispState
    <2> QED
      BY <2>2, <1>b DEF BatchOK
  <1>4. CASE RecordPushed(d) \/ RecordFailed(d)
    <2>1. /\ disp[d].pc = "record"
          /\ disp'[d].todo = disp[d].todo /\ disp'[d].row = disp[d].row
      BY <1>0, <1>4 DEF RecordPushed, RecordFailed, ToWriteback, DispState
    <2> QED
      BY <2>1, <1>b DEF BatchOK
  <1> QED
    BY <1>1, <1>2, <1>3, <1>4 DEF ProcessorStep, DispStep

(* Every step of the processor keeps the ownership invariant.                *)
LEMMA ProcessorOwns ==
  ASSUME OneRunEach, TypeInv, OwnerInv, NEW d \in Dispatchers, ProcessorStep(d)
  PROVE  OwnerInv'
  <1> USE DEF OwnerInv
  <1>0. /\ disp[d] \in DispState
        /\ disp \in [Dispatchers -> DispState]
        /\ \A r \in Rows : pg[r] \in Row /\ pg[r].retry \in Nat
        /\ pg \in [Rows -> Row]
        /\ disp[d].pc \in {"record", "writeback"} => disp[d].row \in Rows
        /\ \A e \in Dispatchers : e = d
        /\ MaxRetries \in Nat
    BY MaxRetriesAssumption
       DEF TypeInv, DispOK, DispTypeOK, StoreOK, SharedTypeOK, Row, OneRunEach, OneProcessor
  <1>c. chk' = chk /\ (\A c \in Checkers, r \in Rows : Checks(c, r)' <=> Checks(c, r))
    BY DEF ProcessorStep, Checks
  <1>b. BatchOK'
    BY ProcessorBatches
  <1>k. ASSUME pg' = pg, \A r \in Rows : Holds(d, r)' => Holds(d, r)
        PROVE  OwnerInv'
    <2>1. OneOwner'
      BY <1>0, <1>c, <1>k DEF OneOwner
    <2>2. RoomToRetry'
      BY <1>0, <1>c, <1>k DEF RoomToRetry
    <2> QED
      BY <2>1, <2>2, <1>b
  <1>m. ASSUME disp[d].pc = "record",
               \A r \in Rows : Holds(d, r)' => Holds(d, r) /\ r # disp[d].row,
               \A r \in Rows : r # disp[d].row => pg'[r] = pg[r],
               \/ pg'[disp[d].row].flag \in {"F", "E"}
               \/ pg'[disp[d].row].flag = "P" /\ pg'[disp[d].row].retry = pg[disp[d].row].retry
        PROVE  OwnerInv'
    <2>1. disp[d].row \in Rows /\ Holds(d, disp[d].row)
      BY <1>0, <1>m DEF Holds
    <2>2. \A c \in Checkers : ~Checks(c, disp[d].row)
      BY <2>1 DEF OneOwner
    <2>3. OneOwner'
      BY <1>0, <1>c, <1>m, <2>2 DEF OneOwner
    <2>4. pg[disp[d].row].retry <= MaxRetries
      BY <2>1 DEF RoomToRetry
    <2>5. RoomToRetry'
      BY <1>0, <1>c, <1>m, <2>2, <2>4 DEF RoomToRetry
    <2> QED
      BY <2>3, <2>5, <1>b
  <1>l. ASSUME NEW todo \in SUBSET disp[d].todo, NEW spent, Loop(d, todo, spent)
        PROVE  /\ \A r \in Rows : Holds(d, r)' => Holds(d, r)
               /\ disp[d].pc = "record" => \A r \in Rows : Holds(d, r)' => r # disp[d].row
    <2>1. disp'[d].todo = todo /\ disp'[d].pc \in {"idle", "loop"}
      BY <1>l, LoopShrinks
    <2> QED
      BY <2>1 DEF Holds, BatchOK
  <1>1. CASE FetchPending(d)
    <2>1. PICK B \in SUBSET Rows :
            /\ IsBatch(B)
            /\ disp' = [disp EXCEPT ![d] = [DispIdle EXCEPT !.pc = "fetched",
                 !.todo = {[row |-> r, retry |-> pg[r].retry] : r \in B}]]
      BY <1>1 DEF FetchPending
    <2>2. /\ disp'[d].todo = {[row |-> r, retry |-> pg[r].retry] : r \in B}
          /\ disp'[d].pc = "fetched"
      BY <1>0, <2>1 DEF DispIdle
    <2>4. \A r \in B : pg[r].flag \in {"N", "E"} /\ pg[r].retry <= MaxRetries
      BY <2>1 DEF IsBatch, Pending
    <2>5. \A r \in Rows : Holds(d, r)' => r \in B
      BY <2>2 DEF Holds
    <2>6. pg' = pg
      BY <1>1 DEF FetchPending, shared
    <2>7. OneOwner'
      BY <1>0, <1>c, <2>4, <2>5, <2>6 DEF OneOwner
    <2>8. RoomToRetry'
      BY <1>0, <1>c, <2>4, <2>5, <2>6 DEF RoomToRetry
    <2> QED
      BY <1>b, <2>7, <2>8
  <1>2. CASE DeferBatch(d) \/ DecryptFails(d)
    BY <1>2, <1>l, <1>k DEF DeferBatch, DecryptFails, shared
  <1>3. CASE SkipExhaustedDealer(d)
    <2>1. PICK s \in disp[d].todo : Loop(d, disp[d].todo \ {s}, disp[d].spent)
      BY <1>3 DEF SkipExhaustedDealer
    <2>2. \A r \in Rows : Holds(d, r)' => Holds(d, r)
      BY <2>1, <1>l
    <2> QED
      BY <1>3, <2>2, <1>k DEF SkipExhaustedDealer, shared
  <1>4. CASE RechargeAccepted(d) \/ RechargeRefused(d)
    <2>0. PICK s \in disp[d].todo : \E code, trans : InHand(d, s, code, trans)
      BY <1>4 DEF RechargeAccepted, RechargeRefused
    <2>1. PICK code, trans : InHand(d, s, code, trans)
      BY <2>0
    <2>2. /\ disp'[d].todo = disp[d].todo \ {s} /\ disp'[d].row = s.row
          /\ disp'[d].pc = "record"
      BY <1>0, <2>1 DEF InHand, DispState
    <2>4. \A r \in Rows : Holds(d, r)' => Holds(d, r)
      BY <2>2 DEF Holds
    <2>5. pg' = pg
      BY <1>4 DEF RechargeAccepted, RechargeRefused, shared
    <2> QED
      BY <2>4, <2>5, <1>k
  <1>5. CASE RecordPushed(d) \/ RecordFailed(d)
    <2>1. disp[d].pc = "record" /\ disp[d].row \in Rows /\ disp[d].trans \in Nat
      BY <1>0, <1>5 DEF RecordPushed, RecordFailed, DispState
    <2>2. /\ disp'[d].todo = disp[d].todo /\ disp'[d].row = disp[d].row
          /\ disp'[d].pc = "writeback"
      BY <1>0, <1>5 DEF RecordPushed, RecordFailed, ToWriteback, DispState
    <2>4. \A r \in Rows : Holds(d, r)' => Holds(d, r) /\ r # disp[d].row
      BY <2>1, <2>2 DEF Holds, BatchOK
    <2>5. /\ \A r \in Rows : r # disp[d].row => pg'[r] = pg[r]
          /\ \/ pg'[disp[d].row].flag \in {"F", "E"}
             \/ /\ pg'[disp[d].row].flag = "P"
                /\ pg'[disp[d].row].retry = pg[disp[d].row].retry
      BY <1>0, <1>5, <2>1, MarkEffects DEF RecordPushed, RecordFailed
    <2> QED
      BY <2>1, <2>4, <2>5, <1>m
  <1>6. CASE RecordRetry(d)
    <2>1. disp[d].pc = "record" /\ disp[d].row \in Rows
      BY <1>0, <1>6 DEF RecordRetry, Retrying
    <2>2. \E todo \in SUBSET disp[d].todo : \E spent : Loop(d, todo, spent)
      BY <1>6 DEF RecordRetry
    <2>3. \A r \in Rows : Holds(d, r)' => Holds(d, r) /\ r # disp[d].row
      BY <2>1, <2>2, <1>l
    <2>4. /\ \A r \in Rows : r # disp[d].row => pg'[r] = pg[r]
          /\ pg'[disp[d].row].flag = "E"
      BY <1>0, <1>6, <2>1, MarkEffects, 0 \in Nat DEF RecordRetry
    <2> QED
      BY <2>1, <2>3, <2>4, <1>m
  <1>7. CASE RecordRetryRejected(d)
    BY <1>7, <1>l, <1>k DEF RecordRetryRejected, shared
  <1>8. CASE DispWriteback(d)
    BY <1>8, <1>l, <1>k DEF DispWriteback
  <1> QED
    BY <1>1, <1>2, <1>3, <1>4, <1>5, <1>6, <1>7, <1>8 DEF ProcessorStep, DispStep

-----------------------------------------------------------------------------
(* The loop of the checker forgets the row in hand, and some of the batch.   *)
LEMMA ChkLoopShrinks ==
  ASSUME TypeInv, BatchOK, NEW c \in Checkers, NEW todo \in SUBSET chk[c].todo,
         ChkLoop(c, todo)
  PROVE  /\ chk'[c].todo = todo /\ chk'[c].pc \in {"idle", "loop"}
         /\ \A s, t \in chk'[c].todo : s.row = t.row => s = t
  <1>1. chk'[c] = IF todo = {} THEN ChkIdle
                  ELSE [ChkIdle EXCEPT !.pc = "loop", !.todo = todo]
    BY DEF ChkLoop, TypeInv, ChkOK, ChkTypeOK
  <1>2. chk'[c].todo = todo /\ chk'[c].pc \in {"idle", "loop"}
    BY <1>1 DEF ChkIdle
  <1> QED
    BY <1>2 DEF BatchOK

(* Every step of the status checker does, too.                               *)
LEMMA CheckerBatches ==
  ASSUME TypeInv, BatchOK, NEW c \in Checkers, CheckerStep(c)
  PROVE  BatchOK'
  <1>0. chk[c] \in ChkState /\ chk \in [Checkers -> ChkState]
    BY DEF TypeInv, ChkOK, ChkTypeOK
  <1>i. disp' = disp /\ \A e \in Checkers : e # c => chk'[e] = chk[e]
    BY OtherChecksWait DEF CheckerStep
  <1>b. ASSUME \A s, t \in chk'[c].todo : s.row = t.row => s = t,
               chk'[c].pc \notin {"idle", "loop"} =>
                 \A s \in chk'[c].todo : s.row # chk'[c].row
        PROVE  BatchOK'
    BY <1>i, <1>b DEF BatchOK
  <1>1. CASE FetchDue(c)
    <2> DEFINE D == {q \in Rows : Due(pg[q])}
    <2>1. /\ chk'[c].pc = "loop"
          /\ chk'[c].todo =
               {[row |-> r, trans |-> pg[r].trans, checked |-> pg[r].checked] : r \in D}
      BY <1>0, <1>1 DEF FetchDue, ChkIdle
    <2> HIDE DEF D
    <2> QED
      BY <2>1, <1>b
  <1>2. CASE CountAttempt(c)
    <2>1. PICK s \in chk[c].todo :
            chk' = [chk EXCEPT ![c] =
              [chk[c] EXCEPT !.pc = IF s.checked THEN "query" ELSE "noresponse",
                 !.todo = chk[c].todo \ {s}, !.row = s.row, !.trans = s.trans]]
      BY <1>2 DEF CountAttempt
    <2>2. chk'[c].todo = chk[c].todo \ {s} /\ chk'[c].row = s.row
      BY <1>0, <2>1 DEF ChkState
    <2> QED
      BY <2>2, <1>b DEF BatchOK
  <1>3. CASE \/ WriteNoResponse(c) \/ QueryStatus(c)
             \/ RecordCheckSuccess(c) \/ RecordCheckFailed(c) \/ RecordUnknown(c)
    <2>1. /\ chk[c].pc \notin {"idle", "loop"}
          /\ chk'[c].todo = chk[c].todo /\ chk'[c].row = chk[c].row
      BY <1>0, <1>3 DEF WriteNoResponse, QueryStatus, RecordCheckSuccess, RecordCheckFailed,
                        RecordUnknown, Requeueing, ChkToWriteback, ChkState
    <2> QED
      BY <2>1, <1>b DEF BatchOK
  <1>4. CASE RecordNotFound(c) \/ RecordUnknownRejected(c) \/ ChkWriteback(c)
    <2>1. \E todo \in SUBSET chk[c].todo : ChkLoop(c, todo)
      BY <1>4 DEF RecordNotFound, RecordUnknownRejected, ChkWriteback
    <2> QED
      BY <2>1, <1>b, ChkLoopShrinks
  <1> QED
    BY <1>1, <1>2, <1>3, <1>4 DEF CheckerStep, ChkStep

(* Every step of the status checker keeps the ownership invariant.           *)
LEMMA CheckerOwns ==
  ASSUME OneRunEach, TypeInv, OwnerInv, NEW c \in Checkers, CheckerStep(c)
  PROVE  OwnerInv'
  <1> USE DEF OwnerInv
  <1>0. /\ chk[c] \in ChkState
        /\ chk \in [Checkers -> ChkState]
        /\ \A r \in Rows : pg[r] \in Row /\ pg[r].retry \in Nat
        /\ pg \in [Rows -> Row]
        /\ chk[c].pc \notin {"idle", "loop"} => chk[c].row \in Rows
        /\ \A e \in Checkers : e = c
        /\ MaxRetries \in Nat
    BY MaxRetriesAssumption
       DEF TypeInv, ChkOK, ChkTypeOK, StoreOK, SharedTypeOK, Row, OneRunEach
  <1>c. disp' = disp /\ (\A d \in Dispatchers, r \in Rows : Holds(d, r)' <=> Holds(d, r))
    BY DEF CheckerStep, Holds
  <1>b. BatchOK'
    BY CheckerBatches
  <1>k. ASSUME pg' = pg, \A r \in Rows : Checks(c, r)' => Checks(c, r)
        PROVE  OwnerInv'
    <2>1. OneOwner'
      BY <1>0, <1>c, <1>k DEF OneOwner
    <2>2. RoomToRetry'
      BY <1>0, <1>c, <1>k DEF RoomToRetry
    <2> QED
      BY <2>1, <2>2, <1>b
  <1>n. ASSUME NEW q \in Rows,
               \A r \in Rows : Checks(c, r)' => Checks(c, r),
               \A r \in Rows : r # q => pg'[r] = pg[r],
               pg'[q].flag = pg[q].flag, pg'[q].retry = pg[q].retry
        PROVE  OwnerInv'
    <2>1. OneOwner'
      BY <1>0, <1>c, <1>n DEF OneOwner
    <2>2. RoomToRetry'
      BY <1>0, <1>c, <1>n DEF RoomToRetry
    <2> QED
      BY <2>1, <2>2, <1>b
  <1>m. ASSUME chk[c].pc = "record",
               \A r \in Rows : Checks(c, r)' => Checks(c, r) /\ r # chk[c].row,
               \A r \in Rows : r # chk[c].row => pg'[r] = pg[r],
               pg'[chk[c].row].flag # "P"
        PROVE  OwnerInv'
    <2>1. chk[c].row \in Rows /\ Checks(c, chk[c].row)
      BY <1>0, <1>m DEF Checks
    <2>2. \A d \in Dispatchers : ~Holds(d, chk[c].row)
      BY <2>1 DEF OneOwner
    <2>3. OneOwner'
      BY <1>0, <1>c, <1>m, <2>2 DEF OneOwner
    <2>4. RoomToRetry'
      BY <1>0, <1>c, <1>m, <2>2 DEF RoomToRetry
    <2> QED
      BY <2>3, <2>4, <1>b
  <1>l. ASSUME NEW todo \in SUBSET chk[c].todo, ChkLoop(c, todo)
        PROVE  /\ \A r \in Rows : Checks(c, r)' => Checks(c, r)
               /\ chk[c].pc = "record" => \A r \in Rows : Checks(c, r)' => r # chk[c].row
    <2>1. chk'[c].todo = todo /\ chk'[c].pc \in {"idle", "loop"}
      BY <1>l, ChkLoopShrinks
    <2> QED
      BY <2>1 DEF Checks, BatchOK
  <1>w. ASSUME chk[c].pc = "record", ChkToWriteback(c)
        PROVE  \A r \in Rows : Checks(c, r)' => Checks(c, r) /\ r # chk[c].row
    <2>1. /\ chk'[c].todo = chk[c].todo /\ chk'[c].row = chk[c].row
          /\ chk'[c].pc = "writeback"
      BY <1>0, <1>w DEF ChkToWriteback, ChkState
    <2> QED
      BY <2>1, <1>w DEF Checks, BatchOK
  <1>1. CASE FetchDue(c)
    <2> DEFINE D == {q \in Rows : Due(pg[q])}
               T == {[row |-> r, trans |-> pg[r].trans, checked |-> pg[r].checked] : r \in D}
    <2>1. chk'[c].todo = T /\ chk'[c].pc = "loop"
      BY <1>0, <1>1 DEF FetchDue, ChkIdle
    <2> HIDE DEF D
    <2>3. \A r \in Rows : Checks(c, r)' => r \in D
      BY <2>1 DEF Checks
    <2>4. pg' = pg
      BY <1>1 DEF FetchDue, shared
    <2>5. \A r \in D : pg[r].flag = "P"
      BY DEF D, Due
    <2> HIDE DEF T
    <2>6. OneOwner'
      BY <1>0, <1>c, <2>3, <2>4, <2>5 DEF OneOwner
    <2>7. RoomToRetry'
      BY <1>0, <1>c, <2>3, <2>4, <2>5 DEF RoomToRetry
    <2> QED
      BY <1>b, <2>6, <2>7
  <1>2. CASE CountAttempt(c)
    <2>1. PICK s \in chk[c].todo :
            /\ pg' = [pg EXCEPT ![s.row] = UpdateStatusCheckAttempt(@)]
            /\ chk' = [chk EXCEPT ![c] =
                 [chk[c] EXCEPT !.pc = IF s.checked THEN "query" ELSE "noresponse",
                    !.todo = chk[c].todo \ {s}, !.row = s.row, !.trans = s.trans]]
      BY <1>2 DEF CountAttempt
    <2>2. s.row \in Rows
      BY <1>0 DEF ChkState, Seen
    <2>3. /\ chk'[c].todo = chk[c].todo \ {s} /\ chk'[c].row = s.row
          /\ chk'[c].pc \in {"query", "noresponse"}
      BY <1>0, <2>1 DEF ChkState
    <2>5. \A r \in Rows : Checks(c, r)' => Checks(c, r)
      BY <2>3 DEF Checks
    <2>6. /\ \A r \in Rows : r # s.row => pg'[r] = pg[r]
          /\ pg'[s.row].flag = pg[s.row].flag /\ pg'[s.row].retry = pg[s.row].retry
      BY <1>0, <2>1, <2>2, MarkEffects, 0 \in Nat
    <2> QED
      BY <2>2, <2>5, <2>6, <1>n
  <1>3. CASE WriteNoResponse(c) \/ QueryStatus(c)
    <2>1. /\ chk'[c].todo = chk[c].todo /\ chk'[c].row = chk[c].row
          /\ chk'[c].pc \in {"query", "record"} /\ chk[c].pc \in {"noresponse", "query"}
          /\ pg' = pg
      BY <1>0, <1>3 DEF WriteNoResponse, QueryStatus, ChkState, shared
    <2>3. \A r \in Rows : Checks(c, r)' => Checks(c, r)
      BY <2>1 DEF Checks
    <2> QED
      BY <2>1, <2>3, <1>k
  <1>4. CASE RecordCheckSuccess(c) \/ RecordCheckFailed(c) \/ RecordUnknown(c)
    <2>1. chk[c].pc = "record" /\ chk[c].row \in Rows /\ ChkToWriteback(c)
      BY <1>0, <1>4 DEF RecordCheckSuccess, RecordCheckFailed, RecordUnknown, Requeueing
    <2>2. /\ \A r \in Rows : r # chk[c].row => pg'[r] = pg[r]
          /\ pg'[chk[c].row].flag # "P"
      BY <1>0, <1>4, <2>1, MarkEffects, 0 \in Nat
         DEF RecordCheckSuccess, RecordCheckFailed, RecordUnknown
    <2> QED
      BY <2>1, <2>2, <1>w, <1>m
  <1>5. CASE RecordNotFound(c)
    <2>1. chk[c].row \in Rows /\ ChkLoop(c, chk[c].todo)
      BY <1>0, <1>5 DEF RecordNotFound
    <2>2. \A r \in Rows : Checks(c, r)' => Checks(c, r)
      BY <2>1, <1>l
    <2>3. /\ \A r \in Rows : r # chk[c].row => pg'[r] = pg[r]
          /\ pg'[chk[c].row].flag = pg[chk[c].row].flag
          /\ pg'[chk[c].row].retry = pg[chk[c].row].retry
      BY <1>0, <1>5, <2>1, MarkEffects, 0 \in Nat DEF RecordNotFound
    <2> QED
      BY <2>1, <2>2, <2>3, <1>n
  <1>6. CASE RecordUnknownRejected(c)
    BY <1>6, <1>l, <1>k DEF RecordUnknownRejected, shared
  <1>7. CASE ChkWriteback(c)
    BY <1>7, <1>l, <1>k DEF ChkWriteback
  <1> QED
    BY <1>1, <1>2, <1>3, <1>4, <1>5, <1>6, <1>7 DEF CheckerStep, ChkStep

(* No batch names a row twice: no step of anybody makes one that does.       *)
LEMMA NextBatches == TypeInv /\ BatchOK /\ [Next]_vars => BatchOK'
  <1> SUFFICES ASSUME TypeInv, BatchOK, [Next]_vars PROVE BatchOK'
    OBVIOUS
  <1>1. CASE UNCHANGED <<disp, chk>>
    BY <1>1 DEF BatchOK
  <1>2. CASE \E d \in Dispatchers : ProcessorStep(d)
    BY <1>2, ProcessorBatches
  <1>3. CASE \E c \in Checkers : CheckerStep(c)
    BY <1>3, CheckerBatches
  <1>4. CASE Abort
    <2>1. /\ \A d \in Dispatchers : disp'[d] = disp[d] \/ disp'[d] = DispIdle
          /\ \A c \in Checkers : chk'[c] = chk[c] \/ chk'[c] = ChkIdle
      BY <1>4 DEF Abort, DispAbort, ChkAbort, HandAbort, TypeInv, DispOK, DispTypeOK,
                  ChkOK, ChkTypeOK
    <2> QED
      BY <2>1 DEF BatchOK, DispIdle, ChkIdle
  <1> QED
    BY <1>1, <1>2, <1>3, <1>4 DEF Next, Environment, CallbackStep, vars

-----------------------------------------------------------------------------
(* A step that leaves both jobs alone, turns no row into a P, N or E row and *)
(* counts no retry keeps the ownership invariant.                            *)
LEMMA JobsAtRest ==
  ASSUME OwnerInv, UNCHANGED <<disp, chk>>,
         \A r \in Rows : /\ pg'[r].flag \in {pg[r].flag, "Y", "F"}
                         /\ pg'[r].retry = pg[r].retry
  PROVE  OwnerInv'
  <1>1. \A r \in Rows : /\ \A d \in Dispatchers : Holds(d, r)' <=> Holds(d, r)
                        /\ \A c \in Checkers : Checks(c, r)' <=> Checks(c, r)
    BY DEF Holds, Checks
  <1>2. OneOwner'
    BY <1>1 DEF OwnerInv, OneOwner
  <1>3. BatchOK'
    BY DEF OwnerInv, BatchOK
  <1>4. RoomToRetry'
    BY <1>1 DEF OwnerInv, RoomToRetry
  <1> QED
    BY <1>2, <1>3, <1>4 DEF OwnerInv

(* Callbacks write the rows the jobs have in hand, but only Y and F.         *)
LEMMA CallbackOwns ==
  ASSUME TypeInv, OwnerInv, NEW h \in Handlers, CallbackStep(h)
  PROVE  OwnerInv'
  <1>1. \A r \in Rows : /\ pg'[r].flag \in {pg[r].flag, "Y", "F"}
                        /\ pg'[r].retry = pg[r].retry
    <2>1. CASE RecordCallback(h)
      <3>1. hand[h].row \in Rows /\ pg \in [Rows -> Row]
        BY <2>1 DEF RecordCallback, TypeInv, HandOK, StoreOK, SharedTypeOK
      <3> QED
        BY <2>1, <3>1, MarkEffects, 0 \in Nat DEF RecordCallback
    <2>2. CASE Receive(h) \/ HandWriteback(h)
      BY <2>2 DEF Receive, HandWriteback, shared
    <2> QED
      BY <2>1, <2>2 DEF CallbackStep, HandStep
  <1> QED
    BY <1>1, JobsAtRest DEF CallbackStep

(* Pyro and the clock keep the ownership invariant.                          *)
LEMMA EnvironmentOwns ==
  ASSUME TypeInv, OwnerInv, Environment
  PROVE  OwnerInv'
  <1>1. PICK q \in Rows : Settle(q) \/ Ripen(q) \/ Lapse(q) \/ LinkBcd(q)
    BY DEF Environment
  <1>2. pg \in [Rows -> Row]
    BY DEF TypeInv, StoreOK, SharedTypeOK
  <1>3. \A row \in Row : \A age : /\ [row EXCEPT !.age = age].flag = row.flag
                                  /\ [row EXCEPT !.age = age].retry = row.retry
    BY DEF Row
  <1>4. \/ pg' = pg
        \/ \E age : pg' = [pg EXCEPT ![q] = [pg[q] EXCEPT !.age = age]]
    BY <1>1 DEF Settle, Ripen, Lapse, LinkBcd
  <1>5. \A r \in Rows : pg'[r].flag = pg[r].flag /\ pg'[r].retry = pg[r].retry
    <2>1. CASE pg' = pg
      BY <2>1
    <2>2. ASSUME NEW age, pg' = [pg EXCEPT ![q] = [pg[q] EXCEPT !.age = age]]
          PROVE  \A r \in Rows : pg'[r].flag = pg[r].flag /\ pg'[r].retry = pg[r].retry
      <3>1. pg'[q] = [pg[q] EXCEPT !.age = age] /\ pg[q] \in Row
        BY <1>2, <2>2
      <3>2. pg'[q].flag = pg[q].flag /\ pg'[q].retry = pg[q].retry
        BY <1>3, <3>1
      <3>3. \A r \in Rows : r # q => pg'[r] = pg[r]
        BY <1>2, <2>2
      <3> QED
        BY <3>2, <3>3
    <2> QED
      BY <1>4, <2>1, <2>2
  <1> QED
    BY <1>5, JobsAtRest DEF Environment

(* A job cut short holds nothing.                                            *)
LEMMA AbortOwns ==
  ASSUME TypeInv, OwnerInv, Abort
  PROVE  OwnerInv'
  <1>1. pg' = pg
    BY DEF Abort, DispAbort, ChkAbort, HandAbort
  <1>2. \A d \in Dispatchers : disp'[d] = disp[d] \/ disp'[d] = DispIdle
    BY DEF Abort, DispAbort, TypeInv, DispOK, DispTypeOK
  <1>3. \A c \in Checkers : chk'[c] = chk[c] \/ chk'[c] = ChkIdle
    BY DEF Abort, ChkAbort, TypeInv, ChkOK, ChkTypeOK
  <1>4. \A r \in Rows : /\ \A d \in Dispatchers : Holds(d, r)' => Holds(d, r)
                        /\ \A c \in Checkers : Checks(c, r)' => Checks(c, r)
    BY <1>2, <1>3 DEF Holds, Checks, DispIdle, ChkIdle
  <1>5. OneOwner'
    BY <1>1, <1>4 DEF OwnerInv, OneOwner
  <1>6. BatchOK'
    BY <1>2, <1>3 DEF OwnerInv, BatchOK, DispIdle, ChkIdle
  <1>7. RoomToRetry'
    BY <1>1, <1>4 DEF OwnerInv, RoomToRetry
  <1> QED
    BY <1>5, <1>6, <1>7 DEF OwnerInv

(* At first no job has a row in hand.                                        *)
LEMMA InitOwns == Init => OwnerInv
  <1> SUFFICES ASSUME Init PROVE OwnerInv
    OBVIOUS
  <1>1. \A d \in Dispatchers : disp[d].todo = {} /\ disp[d].pc = "idle"
    BY DEF Init, DispInit, DispIdle
  <1>2. \A c \in Checkers : chk[c].todo = {} /\ chk[c].pc = "idle"
    BY DEF Init, ChkInit, ChkIdle
  <1>3. \A r \in Rows : pg[r].flag = "N"
    BY DEF Init, SharedInit, NewRow
  <1> QED
    BY <1>1, <1>2, <1>3 DEF OwnerInv, OneOwner, BatchOK, RoomToRetry, Holds, Checks

(* The ownership invariant is inductive, with one run of each job.           *)
LEMMA NextOwns == OneRunEach /\ TypeInv /\ OwnerInv /\ [Next]_vars => OwnerInv'
  <1> SUFFICES ASSUME OneRunEach, TypeInv, OwnerInv, [Next]_vars PROVE OwnerInv'
    OBVIOUS
  <1>1. CASE UNCHANGED vars
    BY <1>1, JobsAtRest DEF vars, shared
  <1>2. CASE Environment
    BY <1>2, EnvironmentOwns
  <1>3. CASE \E d \in Dispatchers : ProcessorStep(d)
    BY <1>3, ProcessorOwns
  <1>4. CASE \E c \in Checkers : CheckerStep(c)
    BY <1>4, CheckerOwns
  <1>5. CASE \E h \in Handlers : CallbackStep(h)
    BY <1>5, CallbackOwns
  <1>6. CASE Abort
    BY <1>6, AbortOwns
  <1> QED
    BY <1>1, <1>2, <1>3, <1>4, <1>5, <1>6 DEF Next

(* With one run of each job, the processor and the status checker never have *)
(* the same row in hand, whatever callbacks write and crashes leave behind.  *)
THEOREM OneOwnerHolds == OneRunEach => (Spec => []OneOwner)
  <1> SUFFICES ASSUME OneRunEach PROVE Spec => []OneOwner
    OBVIOUS
  <1>1. OwnerInv => OneOwner
    BY DEF OwnerInv
  <1>2. Init => TypeInv /\ OwnerInv
    BY InitTyped, InitOwns
  <1>3. TypeInv /\ OwnerInv /\ [Next]_vars => TypeInv' /\ OwnerInv'
    BY NextTyped, NextOwns
  <1> QED
    BY <1>1, <1>2, <1>3, PTL DEF Spec

(* With one run of each job, no UPDATE that counts a retry trips over        *)
(* frc_pyro_retry_chk, so that CHECK never ends a batch.                     *)
THEOREM RetryCheckNeverFiresHolds == OneRunEach => (Spec => []RetryCheckNeverFires)
  <1> SUFFICES ASSUME OneRunEach PROVE Spec => []RetryCheckNeverFires
    OBVIOUS
  <1>1. TypeInv /\ OwnerInv => RetryCheckNeverFires
    <2> SUFFICES ASSUME TypeInv, OwnerInv PROVE RetryCheckNeverFires
      OBVIOUS
    <2>1. /\ MaxRetries \in Nat
          /\ \A r \in Rows : pg[r].retry \in Nat
          /\ \A r \in Rows : pg[r].retry <= MaxRetries => RetryCheckHolds(pg[r])
      BY MaxRetriesAssumption DEF TypeInv, StoreOK, SharedTypeOK, Row, RetryCheckHolds
    <2>2. ASSUME NEW d \in Dispatchers, Retrying(d)
          PROVE  RetryCheckHolds(pg[disp[d].row])
      <3>1. disp[d].row \in Rows /\ Holds(d, disp[d].row)
        BY <2>2 DEF TypeInv, DispOK, Retrying, Holds
      <3> QED
        BY <2>1, <3>1 DEF OwnerInv, RoomToRetry
    <2>3. ASSUME NEW c \in Checkers, Requeueing(c)
          PROVE  RetryCheckHolds(pg[chk[c].row])
      <3>1. chk[c].row \in Rows /\ Checks(c, chk[c].row)
        BY <2>3 DEF TypeInv, ChkOK, Requeueing, Checks
      <3> QED
        BY <2>1, <3>1 DEF OwnerInv, RoomToRetry
    <2> QED
      BY <2>2, <2>3 DEF RetryCheckNeverFires
  <1>2. Init => TypeInv /\ OwnerInv
    BY InitTyped, InitOwns
  <1>3. TypeInv /\ OwnerInv /\ [Next]_vars => TypeInv' /\ OwnerInv'
    BY NextTyped, NextOwns
  <1> QED
    BY <1>1, <1>2, <1>3, PTL DEF Spec
=============================================================================
