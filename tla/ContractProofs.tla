--------------------------- MODULE ContractProofs ---------------------------
(* The service implements RechargeContract when it is Reliable: every row    *)
(* gets one transaction, a row with a transaction is never queued again, and *)
(* whoever writes its verdict has it from Pyro.  When no update of BCD fails *)
(* either, BCD explains every row that nobody still has to write.            *)
EXTENDS ServiceProofs, FiniteSetTheorems

(* Row r has no transaction and may get one; has one that is recorded; or    *)
(* one whose outcome is o.                                                   *)
Waiting(r)    == Open(r) /\ Len(ledger[r]) = 0
Recorded(r)   == pg[r].flag \in {"P", "Y", "F"} /\ Len(ledger[r]) = 1
Outcome(r, o) == Len(ledger[r]) = 1 /\ ledger[r][1] = o

(* Run d is about to record that Pyro has accepted r.                        *)
Carries(d, r) == disp[d].pc = "record" /\ disp[d].row = r /\ disp[d].code = REGISTERED

RowInv(r) ==
  /\ Len(ledger[r]) <= 1
  /\ Open(r) => pg[r].trans = 0
  /\ Open(r) /\ Len(ledger[r]) = 1 => \E d \in Dispatchers : Carries(d, r)
  /\ pg[r].flag = "P" => pg[r].trans = 1 /\ Recorded(r)
  /\ pg[r].flag = "Y" => Outcome(r, "success")
  /\ pg[r].flag = "F" => Len(ledger[r]) = 0 \/ Outcome(r, "failed")

DispInv(d) ==
  /\ \A s \in disp[d].todo : Waiting(s.row)
  /\ disp[d].pc = "fetched" => disp[d].todo # {}
  /\ disp[d].pc = "record" =>
       IF disp[d].code = REGISTERED
       THEN disp[d].trans = 1 /\ Open(disp[d].row) /\ Len(ledger[disp[d].row]) = 1
       ELSE Waiting(disp[d].row)

ChkInv(c) ==
  /\ \A s \in chk[c].todo : s.trans = 1 /\ Recorded(s.row)
  /\ chk[c].pc \in {"noresponse", "query", "record"} => chk[c].trans = 1 /\ Recorded(chk[c].row)
  /\ chk[c].pc = "record" =>
       \/ chk[c].code = SUCCESS /\ Outcome(chk[c].row, "success")
       \/ chk[c].code = TXN_FAILED /\ Outcome(chk[c].row, "failed")
       \/ chk[c].code = NOT_FOUND

HandInv(h) ==
  hand[h].pc = "record" =>
    /\ Recorded(hand[h].row)
    /\ Outcome(hand[h].row, IF hand[h].code = SUCCESS THEN "success" ELSE "failed")

ContractInv ==
  /\ \A r \in Rows : RowInv(r)
  /\ \A d \in Dispatchers : DispInv(d)
  /\ \A c \in Checkers : ChkInv(c)
  /\ \A h \in Handlers : HandInv(h)

-----------------------------------------------------------------------------
(* What a step does to a row.                                                *)
SameRow(r) ==
  pg'[r].flag = pg[r].flag /\ pg'[r].trans = pg[r].trans /\ ledger'[r] = ledger[r]

(* Pyro settles its transaction.                                             *)
Settled(r) ==
  /\ Outcome(r, "pending") /\ Len(ledger'[r]) = 1 /\ ledger'[r][1] \in {"success", "failed"}
  /\ pg'[r].flag = pg[r].flag /\ pg'[r].trans = pg[r].trans

(* Its outcome is written.                                                   *)
Reported(r) ==
  /\ Recorded(r) /\ ledger'[r] = ledger[r] /\ pg'[r].trans = pg[r].trans
  /\ \/ pg'[r].flag = "Y" /\ Outcome(r, "success")
     \/ pg'[r].flag = "F" /\ Outcome(r, "failed")

(* Pyro accepts it, or the processor records what Pyro has answered.         *)
Posted(r) ==
  /\ Waiting(r) /\ Len(ledger'[r]) = 1 /\ ledger'[r][1] = "pending"
  /\ pg'[r].flag = pg[r].flag /\ pg'[r].trans = pg[r].trans

Requeued(r) ==
  /\ Waiting(r) /\ ledger'[r] = ledger[r]
  /\ pg'[r].flag = "E" /\ pg'[r].trans = pg[r].trans

Pushed(r) ==
  /\ Open(r) /\ Len(ledger[r]) = 1 /\ ledger'[r] = ledger[r]
  /\ pg'[r].flag = "P" /\ pg'[r].trans = 1

GivenUp(r) ==
  /\ Waiting(r) /\ ledger'[r] = ledger[r]
  /\ pg'[r].flag = "F" /\ pg'[r].trans = pg[r].trans

OutsideStep(r) == SameRow(r) \/ Settled(r) \/ Reported(r)

QueueStep(r) == SameRow(r) \/ Posted(r) \/ Requeued(r) \/ Pushed(r) \/ GivenUp(r)

OnlyRow(r) == \A q \in Rows : q # r => SameRow(q)

(* What nobody outside the processor can undo, and the processor neither.    *)
LEMMA Lasting ==
  ASSUME NEW r \in Rows, OutsideStep(r) \/ QueueStep(r)
  PROVE  /\ Recorded(r) => Recorded(r)'
         /\ \A o \in {"success", "failed"} : Outcome(r, o) => Outcome(r, o)'
  BY DEF OutsideStep, QueueStep, SameRow, Settled, Reported, Posted, Requeued, Pushed,
         GivenUp, Recorded, Outcome, Waiting, Open

LEMMA OutsideWaiting ==
  ASSUME NEW r \in Rows, OutsideStep(r)
  PROVE  /\ Waiting(r) => Waiting(r)'
         /\ Open(r) /\ Len(ledger[r]) = 1 => Open(r)' /\ Len(ledger'[r]) = 1
  BY DEF OutsideStep, SameRow, Settled, Reported, Recorded, Outcome, Waiting, Open

(* The row invariant survives every step of others.                          *)
LEMMA OutsideRow ==
  ASSUME NEW r \in Rows, RowInv(r), OutsideStep(r), disp' = disp
  PROVE  RowInv(r)'
  <1>1. \A d \in Dispatchers : Carries(d, r)' <=> Carries(d, r)
    BY DEF Carries
  <1>2. CASE SameRow(r)
    BY <1>1, <1>2 DEF RowInv, SameRow, Recorded, Outcome, Open
  <1>3. CASE Settled(r)
    BY <1>1, <1>3 DEF RowInv, Settled, Recorded, Outcome, Open
  <1>4. CASE Reported(r)
    BY <1>4 DEF RowInv, Reported, Recorded, Outcome, Open
  <1> QED
    BY <1>2, <1>3, <1>4 DEF OutsideStep

-----------------------------------------------------------------------------
(* What a step of others leaves of the invariant.                            *)
LEMMA OutsideKeeps ==
  ASSUME TypeInv, ContractInv, NEW r \in Rows, OutsideStep(r), OnlyRow(r), disp' = disp
  PROVE  (\A q \in Rows : RowInv(q))' /\ (\A d \in Dispatchers : DispInv(d))'
  <1>1. \A q \in Rows : OutsideStep(q)
    BY DEF OnlyRow, OutsideStep
  <1>2. \A q \in Rows : RowInv(q)'
    BY <1>1, OutsideRow DEF ContractInv
  <1>3. \A q \in Rows : /\ Waiting(q) => Waiting(q)'
                        /\ Open(q) /\ Len(ledger[q]) = 1 => Open(q)' /\ Len(ledger'[q]) = 1
    BY <1>1, OutsideWaiting
  <1>4. ASSUME NEW d \in Dispatchers
        PROVE  DispInv(d)'
    <2>1. /\ \A s \in disp[d].todo : s.row \in Rows
          /\ disp[d].pc = "record" => disp[d].row \in Rows
      BY DEF TypeInv, DispOK, DispTypeOK, DispState, Snapshot
    <2>2. DispInv(d)
      BY DEF ContractInv
    <2> QED
      BY <1>3, <2>1, <2>2 DEF DispInv
  <1> QED
    BY <1>2, <1>4

(* A run of the checker, or a handler, that does not move keeps its share.   *)
LEMMA ChkKept ==
  ASSUME TypeInv, NEW c \in Checkers, ChkInv(c), chk'[c] = chk[c],
         \A r \in Rows : OutsideStep(r) \/ QueueStep(r)
  PROVE  ChkInv(c)'
  <1>1. /\ \A s \in chk[c].todo : s.row \in Rows
        /\ chk[c].pc \in {"noresponse", "query", "record"} => chk[c].row \in Rows
    BY DEF TypeInv, ChkOK, ChkTypeOK, ChkState, Seen
  <1>2. \A r \in Rows : /\ Recorded(r) => Recorded(r)'
                        /\ Outcome(r, "success") => Outcome(r, "success")'
                        /\ Outcome(r, "failed") => Outcome(r, "failed")'
    BY Lasting
  <1> QED
    BY <1>1, <1>2 DEF ChkInv

LEMMA HandKept ==
  ASSUME TypeInv, NEW h \in Handlers, HandInv(h), hand'[h] = hand[h],
         \A r \in Rows : OutsideStep(r) \/ QueueStep(r)
  PROVE  HandInv(h)'
  <1>1. hand[h].pc = "record" => hand[h].row \in Rows
    BY DEF TypeInv, HandOK
  <1>2. \A r \in Rows : /\ Recorded(r) => Recorded(r)'
                        /\ Outcome(r, "success") => Outcome(r, "success")'
                        /\ Outcome(r, "failed") => Outcome(r, "failed")'
    BY Lasting
  <1> QED
    BY <1>1, <1>2 DEF HandInv

(* What the statements do to flag and transaction.                           *)
LEMMA TransWritten ==
  ASSUME NEW row \in Row, NEW k \in Nat, NEW age
  PROVE  /\ MarkAsPushed(row, k).trans = k
         /\ MarkAsSuccess(row).trans = row.trans
         /\ MarkAsFailed(row).trans = row.trans
         /\ MarkForRetry(row).trans = row.trans
         /\ UpdateStatusCheckAttempt(row).trans = row.trans
         /\ [row EXCEPT !.age = age].trans = row.trans
         /\ [row EXCEPT !.age = age].flag = row.flag
  BY DEF Row, MarkAsPushed, MarkAsSuccess, MarkAsFailed, MarkForRetry,
         UpdateStatusCheckAttempt

(* A book with one transaction at most.                                      *)
LEMMA OnlyTransaction ==
  ASSUME NEW l \in Seq(Outcomes), Len(l) <= 1, NEW k \in DOMAIN l
  PROVE  k = 1 /\ Len(l) = 1
  <1>1. DOMAIN l = 1..Len(l) /\ Len(l) \in Nat
    OBVIOUS
  <1> QED
    BY <1>1

(* Pyro and the clock.                                                       *)
LEMMA EnvironmentOutside ==
  ASSUME TypeInv, ContractInv, Environment
  PROVE  \E r \in Rows : OutsideStep(r) /\ OnlyRow(r)
  <1>1. PICK q \in Rows : Settle(q) \/ Ripen(q) \/ Lapse(q) \/ LinkBcd(q)
    BY DEF Environment
  <1>0. pg \in [Rows -> Row] /\ ledger \in [Rows -> Seq(Outcomes)]
    BY DEF TypeInv, StoreOK, SharedTypeOK
  <1>2. CASE Settle(q)
    <2>1. PICK k \in DOMAIN ledger[q], o \in {"success", "failed"} :
            ledger[q][k] = "pending" /\ ledger' = [ledger EXCEPT ![q] = [ledger[q] EXCEPT ![k] = o]]
      BY <1>2 DEF Settle
    <2>2. ledger[q] \in Seq(Outcomes) /\ Len(ledger[q]) <= 1
      BY <1>0 DEF ContractInv, RowInv
    <2>3. k = 1 /\ Len(ledger[q]) = 1
      BY <2>1, <2>2, OnlyTransaction
    <2>4. Outcome(q, "pending")
      BY <2>1, <2>3 DEF Outcome
    <2>5. ledger'[q] = [ledger[q] EXCEPT ![1] = o]
      BY <1>0, <2>1, <2>3
    <2>6. Len(ledger'[q]) = 1 /\ ledger'[q][1] = o
      BY <2>2, <2>3, <2>5
    <2>7. Settled(q)
      BY <1>2, <2>1, <2>4, <2>6 DEF Settled, Settle
    <2>8. OnlyRow(q)
      BY <1>0, <1>2, <2>1 DEF OnlyRow, SameRow, Settle
    <2> QED
      BY <2>7, <2>8 DEF OutsideStep
  <1>3. CASE Ripen(q) \/ Lapse(q)
    <2>1. PICK age : pg' = [pg EXCEPT ![q] = [pg[q] EXCEPT !.age = age]]
      BY <1>3 DEF Ripen, Lapse
    <2>2. pg[q] \in Row /\ pg'[q] = [pg[q] EXCEPT !.age = age]
      BY <1>0, <2>1
    <2>3. pg'[q].flag = pg[q].flag /\ pg'[q].trans = pg[q].trans
      BY <2>2, TransWritten, 0 \in Nat
    <2>4. ledger' = ledger
      BY <1>3 DEF Ripen, Lapse
    <2>5. SameRow(q) /\ OnlyRow(q)
      BY <1>0, <2>1, <2>3, <2>4 DEF SameRow, OnlyRow
    <2> QED
      BY <2>5 DEF OutsideStep
  <1>4. CASE LinkBcd(q)
    BY <1>4 DEF LinkBcd, OutsideStep, OnlyRow, SameRow
  <1> QED
    BY <1>1, <1>2, <1>3, <1>4

-----------------------------------------------------------------------------
(* The status checker goes on with the rows it has, or one of them.          *)
LEMMA ChkMovesOn ==
  ASSUME TypeInv, NEW c \in Checkers, ChkInv(c),
         \A r \in Rows : OutsideStep(r) \/ QueueStep(r),
         chk'[c].todo \subseteq chk[c].todo, chk'[c].pc # "record",
         chk'[c].pc \in {"noresponse", "query"} =>
           chk'[c].trans = 1 /\ chk'[c].row \in Rows /\ Recorded(chk'[c].row)
  PROVE  ChkInv(c)'
  <1>1. \A s \in chk[c].todo : s.row \in Rows
    BY DEF TypeInv, ChkOK, ChkTypeOK, ChkState, Seen
  <1>2. \A r \in Rows : Recorded(r) => Recorded(r)'
    BY Lasting
  <1> QED
    BY <1>1, <1>2 DEF ChkInv

(* The row a step of the status checker is about, and what it does to it.    *)
LEMMA CheckerOutside ==
  ASSUME Reliable, TypeInv, ContractInv, NEW c \in Checkers, CheckerStep(c)
  PROVE  /\ \E r \in Rows : OutsideStep(r) /\ OnlyRow(r)
         /\ (\A e \in Checkers : ChkInv(e))'
  <1>0. /\ chk \in [Checkers -> ChkState] /\ chk[c] \in ChkState
        /\ pg \in [Rows -> Row]
        /\ \A r \in Rows : pg[r] \in Row
        /\ chk[c].pc \notin {"idle", "loop"} => chk[c].row \in Rows
        /\ (\A e \in Checkers : ChkInv(e)) /\ (\A r \in Rows : RowInv(r))
        /\ CheckErrors = {}
    BY DEF TypeInv, ChkOK, ChkTypeOK, StoreOK, SharedTypeOK, Reliable, ContractInv
  <1>a. ASSUME NEW q \in Rows, OutsideStep(q), OnlyRow(q)
        PROVE  \A r \in Rows : OutsideStep(r) \/ QueueStep(r)
    BY <1>a DEF OnlyRow, OutsideStep
  <1>s. ASSUME NEW q \in Rows, OutsideStep(q), OnlyRow(q), ChkInv(c)'
        PROVE  /\ \E r \in Rows : OutsideStep(r) /\ OnlyRow(r)
               /\ (\A e \in Checkers : ChkInv(e))'
    BY <1>0, <1>s, <1>a, ChkKept, OtherChecksWait
  <1>u. ASSUME pg' = pg, ledger' = ledger, NEW q \in Rows
        PROVE  OutsideStep(q) /\ OnlyRow(q)
    BY <1>u DEF OnlyRow, OutsideStep, SameRow
  <1>l. ASSUME NEW todo \in SUBSET chk[c].todo, ChkLoop(c, todo)
        PROVE  chk'[c].todo \subseteq chk[c].todo /\ chk'[c].pc \in {"idle", "loop"}
    <2>1. chk'[c] = IF todo = {} THEN ChkIdle
                    ELSE [ChkIdle EXCEPT !.pc = "loop", !.todo = todo]
      BY <1>0, <1>l DEF ChkLoop
    <2> QED
      BY <2>1 DEF ChkIdle
  <1>1. CASE FetchDue(c)
    <2> DEFINE D == {q \in Rows : Due(pg[q])}
               T == {[row |-> r, trans |-> pg[r].trans, checked |-> pg[r].checked] : r \in D}
    <2>1. chk'[c].todo = T /\ chk'[c].pc = "loop"
      BY <1>0, <1>1 DEF FetchDue, ChkIdle
    <2>2. pg' = pg /\ ledger' = ledger /\ \E q \in Rows : Due(pg[q])
      BY <1>1 DEF FetchDue, shared
    <2>3. \A r \in D : pg[r].trans = 1 /\ Recorded(r)
      BY <1>0 DEF RowInv, Due
    <2> HIDE DEF D
    <2>4. \A s \in T : s.row \in D /\ s.trans = pg[s.row].trans
      OBVIOUS
    <2> HIDE DEF T
    <2>5. \A s \in chk'[c].todo : s.trans = 1 /\ Recorded(s.row)'
      BY <2>1, <2>2, <2>3, <2>4 DEF Recorded
    <2>6. ChkInv(c)'
      BY <2>1, <2>5 DEF ChkInv
    <2> QED
      BY <2>2, <2>6, <1>u, <1>s
  <1>2. CASE CountAttempt(c)
    <2>1. PICK s \in chk[c].todo :
            /\ pg' = [pg EXCEPT ![s.row] = UpdateStatusCheckAttempt(@)]
            /\ chk' = [chk EXCEPT ![c] =
                 [chk[c] EXCEPT !.pc = IF s.checked THEN "query" ELSE "noresponse",
                    !.todo = chk[c].todo \ {s}, !.row = s.row, !.trans = s.trans]]
      BY <1>2 DEF CountAttempt
    <2>2. s.row \in Rows /\ s.trans = 1 /\ Recorded(s.row)
      BY <1>0 DEF ChkState, Seen, ChkInv
    <2>3. /\ chk'[c].todo = chk[c].todo \ {s} /\ chk'[c].row = s.row
          /\ chk'[c].trans = s.trans /\ chk'[c].pc \in {"query", "noresponse"}
      BY <1>0, <2>1 DEF ChkState
    <2>4. pg'[s.row].flag = pg[s.row].flag /\ pg'[s.row].trans = pg[s.row].trans
      BY <1>0, <2>1, <2>2, MarkEffects, TransWritten, 0 \in Nat
    <2>5. SameRow(s.row) /\ OnlyRow(s.row)
      BY <1>0, <1>2, <2>1, <2>4 DEF CountAttempt, SameRow, OnlyRow
    <2>6. OutsideStep(s.row)
      BY <2>5 DEF OutsideStep
    <2>7. \A r \in Rows : OutsideStep(r) \/ QueueStep(r)
      BY <2>2, <2>5, <2>6, <1>a
    <2>8. ChkInv(c)'
      BY <1>0, <2>2, <2>3, <2>7, ChkMovesOn
    <2> QED
      BY <2>2, <2>5, <2>6, <2>8, <1>s
  <1>3. CASE WriteNoResponse(c)
    <2>1. /\ chk'[c].todo = chk[c].todo /\ chk'[c].row = chk[c].row /\ chk'[c].pc = "query"
          /\ chk'[c].trans = chk[c].trans
          /\ pg' = pg /\ ledger' = ledger /\ chk[c].row \in Rows /\ chk[c].pc = "noresponse"
      BY <1>0, <1>3 DEF WriteNoResponse, ChkState
    <2>2. OutsideStep(chk[c].row) /\ OnlyRow(chk[c].row)
      BY <2>1, <1>u
    <2>3. \A r \in Rows : OutsideStep(r) \/ QueueStep(r)
      BY <2>1, <2>2, <1>a
    <2>4. chk[c].trans = 1 /\ Recorded(chk[c].row)
      BY <1>0, <2>1 DEF ChkInv
    <2>5. ChkInv(c)'
      BY <1>0, <2>1, <2>3, <2>4, ChkMovesOn
    <2> QED
      BY <2>1, <2>2, <2>5, <1>s
  <1>4. CASE QueryStatus(c)
    <2>1. PICK code \in Answers(chk[c].row, chk[c].trans) :
            chk' = [chk EXCEPT ![c] = [[chk[c] EXCEPT !.pc = "record"] EXCEPT !.code = code]]
      BY <1>0, <1>4 DEF QueryStatus
    <2>2. /\ chk'[c].todo = chk[c].todo /\ chk'[c].row = chk[c].row /\ chk'[c].pc = "record"
          /\ chk'[c].trans = chk[c].trans /\ chk'[c].code = code
      BY <1>0, <2>1 DEF ChkState
    <2>3. pg' = pg /\ ledger' = ledger /\ chk[c].row \in Rows /\ chk[c].pc = "query"
      BY <1>0, <1>4 DEF QueryStatus, shared
    <2>4. chk[c].trans = 1 /\ Recorded(chk[c].row)
      BY <1>0, <2>3 DEF ChkInv
    <2>5. \/ code = SUCCESS /\ Outcome(chk[c].row, "success")
          \/ code = TXN_FAILED /\ Outcome(chk[c].row, "failed")
          \/ code = NOT_FOUND
      BY <1>0, <2>1, <2>4 DEF Answers, Outcome, Recorded
    <2>6. \A s \in chk[c].todo : s.trans = 1 /\ Recorded(s.row)
      BY <1>0 DEF ChkInv
    <2>7. ChkInv(c)'
      BY <2>2, <2>3, <2>4, <2>5, <2>6 DEF ChkInv, Recorded, Outcome
    <2> QED
      BY <2>3, <2>7, <1>u, <1>s
  <1>5. CASE RecordCheckSuccess(c) \/ RecordCheckFailed(c)
    <2>1. /\ chk'[c].todo = chk[c].todo /\ chk'[c].pc = "writeback"
          /\ chk[c].pc = "record" /\ chk[c].row \in Rows /\ ledger' = ledger
      BY <1>0, <1>5 DEF RecordCheckSuccess, RecordCheckFailed, ChkToWriteback, ChkState
    <2>2. /\ Recorded(chk[c].row)
          /\ chk[c].code = SUCCESS => Outcome(chk[c].row, "success")
          /\ chk[c].code = TXN_FAILED => Outcome(chk[c].row, "failed")
      BY <1>0, <2>1 DEF ChkInv, SUCCESS, TXN_FAILED, NOT_FOUND
    <2>3. /\ \A r \in Rows : r # chk[c].row => pg'[r] = pg[r]
          /\ pg'[chk[c].row].trans = pg[chk[c].row].trans
          /\ \/ pg'[chk[c].row].flag = "Y" /\ chk[c].code = SUCCESS
             \/ pg'[chk[c].row].flag = "F" /\ chk[c].code = TXN_FAILED
      BY <1>0, <1>5, <2>1, MarkEffects, TransWritten, 0 \in Nat
         DEF RecordCheckSuccess, RecordCheckFailed
    <2>4. OutsideStep(chk[c].row) /\ OnlyRow(chk[c].row)
      BY <2>1, <2>2, <2>3 DEF OutsideStep, Reported, OnlyRow, SameRow
    <2>5. \A r \in Rows : OutsideStep(r) \/ QueueStep(r)
      BY <2>1, <2>4, <1>a
    <2>6. ChkInv(c)'
      BY <1>0, <2>1, <2>5, ChkMovesOn
    <2> QED
      BY <2>1, <2>4, <2>6, <1>s
  <1>6. CASE RecordNotFound(c)
    <2>1. chk[c].row \in Rows /\ ChkLoop(c, chk[c].todo) /\ ledger' = ledger
      BY <1>0, <1>6 DEF RecordNotFound
    <2>2. /\ \A r \in Rows : r # chk[c].row => pg'[r] = pg[r]
          /\ pg'[chk[c].row].flag = pg[chk[c].row].flag
          /\ pg'[chk[c].row].trans = pg[chk[c].row].trans
      BY <1>0, <1>6, <2>1, MarkEffects, TransWritten, 0 \in Nat DEF RecordNotFound
    <2>3. OutsideStep(chk[c].row) /\ OnlyRow(chk[c].row)
      BY <2>1, <2>2 DEF OutsideStep, OnlyRow, SameRow
    <2>4. \A r \in Rows : OutsideStep(r) \/ QueueStep(r)
      BY <2>1, <2>3, <1>a
    <2>5. ChkInv(c)'
      BY <1>0, <2>1, <2>4, <1>l, ChkMovesOn
    <2> QED
      BY <2>1, <2>3, <2>5, <1>s
  <1>7. CASE RecordUnknown(c) \/ RecordUnknownRejected(c)
    <2>1. Requeueing(c)
      BY <1>7 DEF RecordUnknown, RecordUnknownRejected
    <2> QED
      BY <1>0, <2>1 DEF Requeueing, ChkInv
  <1>8. CASE ChkWriteback(c)
    <2>1. chk[c].row \in Rows /\ ChkLoop(c, chk[c].todo) /\ pg' = pg /\ ledger' = ledger
      BY <1>0, <1>8 DEF ChkWriteback
    <2>2. OutsideStep(chk[c].row) /\ OnlyRow(chk[c].row)
      BY <2>1, <1>u
    <2>3. \A r \in Rows : OutsideStep(r) \/ QueueStep(r)
      BY <2>1, <2>2, <1>a
    <2>4. ChkInv(c)'
      BY <1>0, <2>1, <2>3, <1>l, ChkMovesOn
    <2> QED
      BY <2>1, <2>2, <2>4, <1>s
  <1> QED
    BY <1>1, <1>2, <1>3, <1>4, <1>5, <1>6, <1>7, <1>8 DEF CheckerStep, ChkStep

-----------------------------------------------------------------------------
(* What a step of a callback handler does to its row.                        *)
LEMMA CallbackOutside ==
  ASSUME TypeInv, ContractInv, NEW h \in Handlers, CallbackStep(h)
  PROVE  /\ \E r \in Rows : OutsideStep(r) /\ OnlyRow(r)
         /\ (\A g \in Handlers : HandInv(g))'
  <1>0. /\ hand \in [Handlers -> HandState] /\ hand[h] \in HandState
        /\ pg \in [Rows -> Row] /\ ledger \in [Rows -> Seq(Outcomes)]
        /\ \A r \in Rows : pg[r] \in Row /\ ledger[r] \in Seq(Outcomes)
        /\ hand[h].pc # "idle" => hand[h].row \in Rows
        /\ (\A g \in Handlers : HandInv(g)) /\ (\A r \in Rows : RowInv(r))
    BY DEF TypeInv, HandOK, HandTypeOK, StoreOK, SharedTypeOK, ContractInv
  <1>s. ASSUME NEW q \in Rows, OutsideStep(q), OnlyRow(q), HandInv(h)',
               \A g \in Handlers : g # h => hand'[g] = hand[g]
        PROVE  /\ \E r \in Rows : OutsideStep(r) /\ OnlyRow(r)
               /\ (\A g \in Handlers : HandInv(g))'
    <2>1. \A r \in Rows : OutsideStep(r) \/ QueueStep(r)
      BY <1>s DEF OnlyRow, OutsideStep
    <2>2. \A g \in Handlers : HandInv(g)'
      BY <1>0, <1>s, <2>1, HandKept
    <2> QED
      BY <1>s, <2>2
  <1>u. ASSUME pg' = pg, ledger' = ledger, NEW q \in Rows
        PROVE  OutsideStep(q) /\ OnlyRow(q)
    BY <1>u DEF OnlyRow, OutsideStep, SameRow
  <1>1. CASE Receive(h)
    <2>1. PICK r \in Rows, code \in {SUCCESS} \cup FailureCodes :
            /\ pg[r].trans \in DOMAIN ledger[r] /\ pg[r].flag \notin Terminal
            /\ ledger[r][pg[r].trans] = IF code = SUCCESS THEN "success" ELSE "failed"
            /\ hand' = [hand EXCEPT ![h] = [pc |-> "record", row |-> r, code |-> code]]
      BY <1>1, CallbackAssumption DEF Receive
    <2>2. pg' = pg /\ ledger' = ledger
      BY <1>1 DEF Receive, shared
    <2>3. pg[r].trans # 0 /\ pg[r].flag \in Flags
      BY <1>0, <2>1 DEF Row
    <2>4. pg[r].flag = "P"
      BY <1>0, <2>1, <2>3 DEF RowInv, Open, Terminal, Flags
    <2>5. Recorded(r) /\ Outcome(r, IF code = SUCCESS THEN "success" ELSE "failed")
      BY <1>0, <2>1, <2>4 DEF RowInv, Recorded, Outcome
    <2>6. hand'[h] = [pc |-> "record", row |-> r, code |-> code]
      BY <1>0, <2>1
    <2>7. HandInv(h)'
      BY <2>2, <2>5, <2>6 DEF HandInv, Recorded, Outcome
    <2> QED
      BY <1>0, <2>1, <2>2, <2>7, <1>u, <1>s
  <1>2. CASE RecordCallback(h)
    <2>1. /\ hand[h].pc = "record" /\ hand[h].row \in Rows /\ ledger' = ledger
          /\ hand'[h].pc = "writeback"
          /\ \A g \in Handlers : g # h => hand'[g] = hand[g]
      BY <1>0, <1>2 DEF RecordCallback, HandState
    <2>2. /\ \A r \in Rows : r # hand[h].row => pg'[r] = pg[r]
          /\ pg'[hand[h].row].trans = pg[hand[h].row].trans
          /\ pg'[hand[h].row].flag = IF hand[h].code = SUCCESS THEN "Y" ELSE "F"
      BY <1>0, <1>2, <2>1, MarkEffects, TransWritten, 0 \in Nat DEF RecordCallback
    <2>3. /\ Recorded(hand[h].row)
          /\ Outcome(hand[h].row, IF hand[h].code = SUCCESS THEN "success" ELSE "failed")
      BY <1>0, <2>1 DEF HandInv
    <2>4. Reported(hand[h].row) /\ OnlyRow(hand[h].row)
      BY <2>1, <2>2, <2>3 DEF Reported, OnlyRow, SameRow
    <2>5. HandInv(h)'
      BY <2>1 DEF HandInv
    <2> QED
      BY <2>1, <2>4, <2>5, <1>s DEF OutsideStep
  <1>3. CASE HandWriteback(h)
    <2>1. /\ hand[h].row \in Rows /\ pg' = pg /\ ledger' = ledger
          /\ hand'[h].pc = "idle"
          /\ \A g \in Handlers : g # h => hand'[g] = hand[g]
      BY <1>0, <1>3 DEF HandWriteback, HandIdle
    <2>2. HandInv(h)'
      BY <2>1 DEF HandInv
    <2> QED
      BY <2>1, <2>2, <1>u, <1>s
  <1> QED
    BY <1>1, <1>2, <1>3 DEF CallbackStep, HandStep

-----------------------------------------------------------------------------
(* A row the processor leaves as it is keeps its invariant.                  *)
LEMMA RowStays ==
  ASSUME NEW r \in Rows, RowInv(r), SameRow(r),
         \A d \in Dispatchers : Carries(d, r) => Carries(d, r)'
  PROVE  RowInv(r)'
  BY DEF RowInv, SameRow, Recorded, Outcome, Open

(* The processor goes on with rows nobody has touched.                       *)
LEMMA DispMovesOn ==
  ASSUME NEW d \in Dispatchers, DispInv(d), disp'[d].pc \notin {"fetched", "record"},
         \A s \in disp'[d].todo : s \in disp[d].todo /\ SameRow(s.row)
  PROVE  DispInv(d)'
  BY DEF DispInv, SameRow, Waiting, Open

(* What a step of the processor does to its row, and what it knows of the    *)
(* rows it still has to post.                                                *)
LEMMA ProcessorQueue ==
  ASSUME Reliable, TypeInv, BatchOK, ContractInv, NEW d \in Dispatchers, ProcessorStep(d)
  PROVE  /\ \E r \in Rows : QueueStep(r) /\ OnlyRow(r)
         /\ (\A q \in Rows : RowInv(q))'
         /\ (\A e \in Dispatchers : DispInv(e))'
  <1>0. /\ disp \in [Dispatchers -> DispState] /\ disp[d] \in DispState
        /\ pg \in [Rows -> Row] /\ ledger \in [Rows -> Seq(Outcomes)]
        /\ \A r \in Rows : pg[r] \in Row /\ ledger[r] \in Seq(Outcomes)
        /\ disp[d].pc \in {"record", "writeback"} => disp[d].row \in Rows
        /\ \A s \in disp[d].todo : s.row \in Rows
        /\ \A e \in Dispatchers : e = d
        /\ DispInv(d) /\ (\A r \in Rows : RowInv(r))
        /\ AcceptCodes = {REGISTERED} /\ ~IdMayBeMissing
    BY DEF TypeInv, DispOK, DispTypeOK, DispState, Snapshot, StoreOK, SharedTypeOK,
           Reliable, ContractInv
  <1>o. /\ \A s, t \in disp[d].todo : s.row = t.row => s = t
        /\ disp[d].pc = "record" => \A s \in disp[d].todo : s.row # disp[d].row
    BY DEF BatchOK
  <1>s. ASSUME NEW q \in Rows, QueueStep(q), OnlyRow(q), RowInv(q)', DispInv(d)',
               \A r \in Rows : r # q => ~Carries(d, r)
        PROVE  /\ \E r \in Rows : QueueStep(r) /\ OnlyRow(r)
               /\ (\A r \in Rows : RowInv(r))'
               /\ (\A e \in Dispatchers : DispInv(e))'
    <2>1. ASSUME NEW r \in Rows PROVE RowInv(r)'
      <3>1. CASE r = q
        BY <1>s, <3>1
      <3>2. CASE r # q
        BY <1>0, <1>s, <3>2, RowStays DEF OnlyRow
      <3> QED
        BY <3>1, <3>2
    <2> QED
      BY <1>0, <1>s, <2>1
  <1>u. ASSUME pg' = pg, ledger' = ledger, NEW q \in Rows, DispInv(d)',
               \A r \in Rows : ~Carries(d, r)
        PROVE  /\ \E r \in Rows : QueueStep(r) /\ OnlyRow(r)
               /\ (\A r \in Rows : RowInv(r))'
               /\ (\A e \in Dispatchers : DispInv(e))'
    <2>1. \A r \in Rows : SameRow(r)
      BY <1>u DEF SameRow
    <2>2. RowInv(q)'
      BY <1>0, <1>u, <2>1, RowStays
    <2> QED
      BY <1>s, <1>u, <2>1, <2>2 DEF OnlyRow, QueueStep
  <1>l. ASSUME NEW todo \in SUBSET disp[d].todo, NEW spent, Loop(d, todo, spent),
               \A s \in todo : SameRow(s.row)
        PROVE  DispInv(d)'
    <2>1. disp'[d] = IF todo = {} THEN DispIdle
                     ELSE [DispIdle EXCEPT !.pc = "loop", !.todo = todo, !.spent = spent]
      BY <1>0, <1>l DEF Loop
    <2>2. disp'[d].todo = todo /\ disp'[d].pc \in {"idle", "loop"}
      BY <2>1 DEF DispIdle
    <2> QED
      BY <1>0, <1>l, <2>2, DispMovesOn
  <1>1. CASE FetchPending(d)
    <2>1. PICK B \in SUBSET Rows :
            /\ IsBatch(B) /\ B # {}
            /\ disp' = [disp EXCEPT ![d] = [DispIdle EXCEPT !.pc = "fetched",
                 !.todo = {[row |-> r, retry |-> pg[r].retry] : r \in B}]]
      BY <1>1 DEF FetchPending
    <2>2. /\ disp'[d].todo = {[row |-> r, retry |-> pg[r].retry] : r \in B}
          /\ disp'[d].pc = "fetched" /\ disp[d].pc = "idle"
      BY <1>0, <1>1, <2>1 DEF DispIdle, FetchPending
    <2>3. pg' = pg /\ ledger' = ledger
      BY <1>1 DEF FetchPending, shared
    <2>4. \A r \in Rows : ~Carries(d, r)
      BY <2>2 DEF Carries
    <2>5. ASSUME NEW r \in B PROVE Waiting(r)
      <3>1. Open(r) /\ RowInv(r) /\ Len(ledger[r]) \in Nat
        BY <1>0, <2>1 DEF IsBatch, Pending, Open
      <3>2. Len(ledger[r]) # 1
        BY <1>0, <2>4, <3>1 DEF RowInv
      <3>3. Len(ledger[r]) <= 1
        BY <3>1 DEF RowInv
      <3>4. \A n \in Nat : n <= 1 /\ n # 1 => n = 0
        OBVIOUS
      <3>5. Len(ledger[r]) = 0
        BY <3>1, <3>2, <3>3, <3>4
      <3> QED
        BY <3>1, <3>5 DEF Waiting
    <2>6. \A s \in disp'[d].todo : Waiting(s.row)'
      BY <2>2, <2>3, <2>5 DEF Waiting, Open
    <2>7. DispInv(d)'
      BY <2>1, <2>2, <2>6 DEF DispInv
    <2> QED
      BY <2>1, <2>3, <2>4, <2>7, <1>u
  <1>2. CASE DeferBatch(d) \/ DecryptFails(d) \/ SkipExhaustedDealer(d)
    <2>1. disp[d].pc \in {"fetched", "loop"} /\ disp[d].todo # {}
      BY <1>0, <1>2 DEF DeferBatch, DecryptFails, SkipExhaustedDealer, IsNext, DispInv
    <2>2. \E todo \in SUBSET disp[d].todo : \E spent : Loop(d, todo, spent)
      BY <1>2 DEF DeferBatch, DecryptFails, SkipExhaustedDealer
    <2>3. pg' = pg /\ ledger' = ledger
      BY <1>2 DEF DeferBatch, DecryptFails, SkipExhaustedDealer, shared
    <2>4. DispInv(d)'
      BY <2>2, <2>3, <1>l DEF SameRow
    <2>5. \A r \in Rows : ~Carries(d, r)
      BY <2>1 DEF Carries
    <2>6. PICK s \in disp[d].todo : s.row \in Rows
      BY <1>0, <2>1
    <2> QED
      BY <2>3, <2>4, <2>5, <2>6, <1>u
  <1>3. CASE RechargeAccepted(d)
    <2>1. PICK s \in disp[d].todo, code \in AcceptCodes, named \in {TRUE, ~IdMayBeMissing} :
            /\ IsNext(d, s)
            /\ ledger' = [ledger EXCEPT ![s.row] = Append(@, "pending")]
            /\ InHand(d, s, code, IF named THEN Len(ledger[s.row]) + 1 ELSE 0)
      BY <1>3 DEF RechargeAccepted
    <2>2. s.row \in Rows /\ code = REGISTERED /\ named /\ Waiting(s.row)
      BY <1>0, <2>1 DEF DispInv
    <2>3. /\ disp'[d].pc = "record" /\ disp'[d].row = s.row /\ disp'[d].code = REGISTERED
          /\ disp'[d].trans = 1 /\ disp'[d].todo = disp[d].todo \ {s}
      BY <1>0, <2>1, <2>2 DEF InHand, DispState, Waiting
    <2>4. ledger'[s.row] = Append(ledger[s.row], "pending")
      BY <1>0, <2>1, <2>2
    <2>5. Len(ledger'[s.row]) = 1 /\ ledger'[s.row][1] = "pending"
      BY <1>0, <2>2, <2>4 DEF Waiting, Outcomes
    <2>6. pg' = pg /\ (\A r \in Rows : r # s.row => ledger'[r] = ledger[r])
      BY <1>0, <1>3, <2>1 DEF RechargeAccepted
    <2>7. QueueStep(s.row) /\ OnlyRow(s.row)
      BY <2>2, <2>5, <2>6 DEF QueueStep, Posted, OnlyRow, SameRow
    <2>8. RowInv(s.row)'
      <3>1. Carries(d, s.row)'
        BY <2>3 DEF Carries
      <3> QED
        BY <1>0, <2>2, <2>5, <2>6, <3>1 DEF RowInv, Waiting, Open
    <2>9. DispInv(d)'
      <3>1. \A t \in disp'[d].todo : t \in disp[d].todo /\ t.row \in Rows /\ t.row # s.row
        BY <1>0, <1>o, <2>3
      <3>2. \A t \in disp'[d].todo : Waiting(t.row)'
        BY <1>0, <2>6, <3>1 DEF DispInv, Waiting, Open
      <3> QED
        BY <2>2, <2>3, <2>5, <2>6, <3>2 DEF DispInv, Waiting, Open
    <2>10. \A r \in Rows : ~Carries(d, r)
      BY <2>1 DEF Carries, IsNext
    <2> QED
      BY <2>2, <2>7, <2>8, <2>9, <2>10, <1>s
  <1>4. CASE RechargeRefused(d)
    <2>1. PICK s \in disp[d].todo, code \in RejectCodes : IsNext(d, s) /\ InHand(d, s, code, 0)
      BY <1>4 DEF RechargeRefused
    <2>2. s.row \in Rows /\ code # REGISTERED /\ Waiting(s.row)
      BY <1>0, <2>1, ProcessorAssumption DEF DispInv
    <2>3. /\ disp'[d].pc = "record" /\ disp'[d].row = s.row /\ disp'[d].code = code
          /\ disp'[d].todo = disp[d].todo \ {s}
      BY <1>0, <2>1 DEF InHand, DispState
    <2>4. pg' = pg /\ ledger' = ledger
      BY <1>4 DEF RechargeRefused, shared
    <2>5. DispInv(d)'
      BY <1>0, <2>2, <2>3, <2>4 DEF DispInv, Waiting, Open
    <2>6. \A r \in Rows : ~Carries(d, r)
      BY <2>1 DEF Carries, IsNext
    <2> QED
      BY <2>2, <2>4, <2>5, <2>6, <1>u
  <1>w. ASSUME disp[d].pc = "record", ToWriteback(d), OnlyRow(disp[d].row)
        PROVE  DispInv(d)'
    <2>1. disp'[d].todo = disp[d].todo /\ disp'[d].pc = "writeback"
      BY <1>0, <1>w DEF ToWriteback, DispState
    <2>2. \A s \in disp[d].todo : SameRow(s.row)
      BY <1>0, <1>o, <1>w DEF OnlyRow
    <2> QED
      BY <1>0, <2>1, <2>2, DispMovesOn
  <1>5. CASE RecordPushed(d)
    <2> PICK q \in Rows : q = disp[d].row
      BY <1>0, <1>5 DEF RecordPushed
    <2>1. /\ disp[d].pc = "record" /\ q = disp[d].row /\ ledger' = ledger
          /\ disp[d].trans = 1 /\ Open(q) /\ Len(ledger[q]) = 1
      BY <1>0, <1>5 DEF RecordPushed, DispInv
    <2>2. /\ \A r \in Rows : r # q => pg'[r] = pg[r]
          /\ pg'[q].flag = "P" /\ pg'[q].trans = 1
      BY <1>0, <1>5, <2>1, MarkEffects, TransWritten, 1 \in Nat DEF RecordPushed
    <2>3. QueueStep(q) /\ OnlyRow(q)
      BY <2>1, <2>2 DEF QueueStep, Pushed, OnlyRow, SameRow
    <2>4. RowInv(q)'
      BY <2>1, <2>2 DEF RowInv, Recorded, Open
    <2> QED
      BY <1>5, <2>1, <2>3, <2>4, <1>w, <1>s DEF RecordPushed, Carries
  <1>6. CASE RecordFailed(d)
    <2> PICK q \in Rows : q = disp[d].row
      BY <1>0, <1>6 DEF RecordFailed
    <2>1. /\ disp[d].pc = "record" /\ q = disp[d].row /\ ledger' = ledger
          /\ Waiting(q)
      BY <1>0, <1>6 DEF RecordFailed, DispInv
    <2>2. /\ \A r \in Rows : r # q => pg'[r] = pg[r]
          /\ pg'[q].flag = "F" /\ pg'[q].trans = pg[q].trans
      <3>1. /\ pg[q] \in Row /\ pg'[q] = MarkAsFailed(pg[q])
            /\ \A r \in Rows : r # q => pg'[r] = pg[r]
        BY <1>0, <1>6, <2>1 DEF RecordFailed
      <3> QED
        BY <3>1, MarkEffects, TransWritten, 0 \in Nat
    <2>3. QueueStep(q) /\ OnlyRow(q)
      BY <2>1, <2>2 DEF QueueStep, GivenUp, OnlyRow, SameRow
    <2>4. RowInv(q)'
      BY <2>1, <2>2 DEF RowInv, Waiting, Open
    <2> QED
      BY <1>6, <2>1, <2>3, <2>4, <1>w, <1>s DEF RecordFailed, Carries
  <1>7. CASE RecordRetry(d)
    <2> PICK q \in Rows : q = disp[d].row
      BY <1>0, <1>7 DEF Retrying, RecordRetry
    <2>1. /\ disp[d].pc = "record" /\ q = disp[d].row /\ ledger' = ledger
          /\ Waiting(q)
      BY <1>0, <1>7 DEF RecordRetry, Retrying, DispInv
    <2>2. /\ \A r \in Rows : r # q => pg'[r] = pg[r]
          /\ pg'[q].flag = "E" /\ pg'[q].trans = pg[q].trans
      BY <1>0, <1>7, <2>1, MarkEffects, TransWritten, 0 \in Nat DEF RecordRetry
    <2>3. QueueStep(q) /\ OnlyRow(q)
      BY <2>1, <2>2 DEF QueueStep, Requeued, OnlyRow, SameRow
    <2>4. RowInv(q)'
      BY <1>0, <2>1, <2>2 DEF RowInv, Waiting, Open
    <2>5. \E todo \in SUBSET disp[d].todo : \E spent : Loop(d, todo, spent)
      BY <1>7 DEF RecordRetry
    <2>6. \A s \in disp[d].todo : SameRow(s.row)
      BY <1>0, <1>o, <2>1, <2>3 DEF OnlyRow
    <2>7. DispInv(d)'
      BY <2>5, <2>6, <1>l
    <2> QED
      BY <2>1, <2>3, <2>4, <2>7, <1>s DEF Carries
  <1>8. CASE RecordRetryRejected(d) \/ DispWriteback(d)
    <2>1. /\ disp[d].row \in Rows /\ pg' = pg /\ ledger' = ledger
          /\ \A r \in Rows : ~Carries(d, r)
      BY <1>0, <1>8 DEF RecordRetryRejected, Retrying, DispWriteback, shared, Carries
    <2>2. \E todo \in SUBSET disp[d].todo : \E spent : Loop(d, todo, spent)
      BY <1>8 DEF RecordRetryRejected, DispWriteback
    <2>3. DispInv(d)'
      BY <2>1, <2>2, <1>l DEF SameRow
    <2> QED
      BY <2>1, <2>3, <1>u
  <1> QED
    BY <1>1, <1>2, <1>3, <1>4, <1>5, <1>6, <1>7, <1>8 DEF ProcessorStep, DispStep

-----------------------------------------------------------------------------
(* At first nothing is posted, recorded or in hand.                          *)
LEMMA InitContract == Init => ContractInv
  <1> SUFFICES ASSUME Init PROVE ContractInv
    OBVIOUS
  <1>1. \A r \in Rows : pg[r].flag = "N" /\ pg[r].trans = 0 /\ ledger[r] = <<>>
    BY DEF Init, SharedInit, NewRow
  <1>2. \A r \in Rows : RowInv(r)
    BY <1>1 DEF RowInv
  <1>3. \A d \in Dispatchers : DispInv(d)
    BY DEF Init, DispInit, DispIdle, DispInv
  <1>4. \A c \in Checkers : ChkInv(c)
    BY DEF Init, ChkInit, ChkIdle, ChkInv
  <1>5. \A h \in Handlers : HandInv(h)
    BY DEF Init, HandInit, HandIdle, HandInv
  <1> QED
    BY <1>2, <1>3, <1>4, <1>5 DEF ContractInv

(* A step of the service is a step of one row, and keeps the invariant.      *)
LEMMA StepOfOneRow ==
  ASSUME Reliable, TypeInv, BatchOK, ContractInv, Next
  PROVE  /\ \E r \in Rows : (OutsideStep(r) \/ QueueStep(r)) /\ OnlyRow(r)
         /\ ContractInv'
  <1>0. /\ \A d \in Dispatchers : DispInv(d)
        /\ \A c \in Checkers : ChkInv(c)
        /\ \A h \in Handlers : HandInv(h)
    BY DEF ContractInv
  <1>a. ASSUME NEW q \in Rows, OutsideStep(q) \/ QueueStep(q), OnlyRow(q)
        PROVE  \A r \in Rows : OutsideStep(r) \/ QueueStep(r)
    BY <1>a DEF OnlyRow, OutsideStep
  <1>c. ASSUME NEW q \in Rows, OutsideStep(q) \/ QueueStep(q), OnlyRow(q), chk' = chk
        PROVE  (\A c \in Checkers : ChkInv(c))'
    BY <1>0, <1>a, <1>c, ChkKept
  <1>h. ASSUME NEW q \in Rows, OutsideStep(q) \/ QueueStep(q), OnlyRow(q), hand' = hand
        PROVE  (\A h \in Handlers : HandInv(h))'
    BY <1>0, <1>a, <1>h, HandKept
  <1>1. CASE Environment
    <2>1. PICK q \in Rows : OutsideStep(q) /\ OnlyRow(q)
      BY <1>1, EnvironmentOutside
    <2>2. disp' = disp /\ chk' = chk /\ hand' = hand
      BY <1>1 DEF Environment
    <2> QED
      BY <2>1, <2>2, <1>c, <1>h, OutsideKeeps DEF ContractInv
  <1>2. CASE \E d \in Dispatchers : ProcessorStep(d)
    <2>1. PICK d \in Dispatchers : ProcessorStep(d)
      BY <1>2
    <2>2. /\ \E r \in Rows : QueueStep(r) /\ OnlyRow(r)
          /\ (\A q \in Rows : RowInv(q))'
          /\ (\A e \in Dispatchers : DispInv(e))'
      BY <2>1, ProcessorQueue
    <2>3. PICK q \in Rows : QueueStep(q) /\ OnlyRow(q)
      BY <2>2
    <2>4. chk' = chk /\ hand' = hand
      BY <2>1 DEF ProcessorStep
    <2> QED
      BY <2>2, <2>3, <2>4, <1>c, <1>h DEF ContractInv
  <1>3. CASE \E c \in Checkers : CheckerStep(c)
    <2>1. PICK c \in Checkers : CheckerStep(c)
      BY <1>3
    <2>2. /\ \E r \in Rows : OutsideStep(r) /\ OnlyRow(r)
          /\ (\A e \in Checkers : ChkInv(e))'
      BY <2>1, CheckerOutside
    <2>3. PICK q \in Rows : OutsideStep(q) /\ OnlyRow(q)
      BY <2>2
    <2>4. disp' = disp /\ hand' = hand
      BY <2>1 DEF CheckerStep
    <2> QED
      BY <2>2, <2>3, <2>4, <1>h, OutsideKeeps DEF ContractInv
  <1>4. CASE \E h \in Handlers : CallbackStep(h)
    <2>1. PICK h \in Handlers : CallbackStep(h)
      BY <1>4
    <2>2. /\ \E r \in Rows : OutsideStep(r) /\ OnlyRow(r)
          /\ (\A g \in Handlers : HandInv(g))'
      BY <2>1, CallbackOutside
    <2>3. PICK q \in Rows : OutsideStep(q) /\ OnlyRow(q)
      BY <2>2
    <2>4. disp' = disp /\ chk' = chk
      BY <2>1 DEF CallbackStep
    <2> QED
      BY <2>2, <2>3, <2>4, <1>c, OutsideKeeps DEF ContractInv
  <1>5. CASE Abort
    <2>1. CutShort
      BY <1>5 DEF Abort, DispAbort, ChkAbort, HandAbort
    <2>2. aborts \in 0..MaxAborts /\ MaxAborts = 0
      BY DEF TypeInv, StoreOK, SharedTypeOK, Reliable
    <2> QED
      BY <2>1, <2>2 DEF CutShort
  <1> QED
    BY <1>1, <1>2, <1>3, <1>4, <1>5 DEF Next

(* The invariant is inductive for a reliable service.                        *)
LEMMA NextContract ==
  Reliable /\ TypeInv /\ BatchOK /\ ContractInv /\ [Next]_vars => ContractInv'
  <1> SUFFICES ASSUME Reliable, TypeInv, BatchOK, ContractInv, [Next]_vars
               PROVE  ContractInv'
    OBVIOUS
  <1>1. CASE Next
    BY <1>1, StepOfOneRow
  <1>2. CASE UNCHANGED vars
    BY <1>2 DEF vars, shared, ContractInv, RowInv, DispInv, ChkInv, HandInv, Carries,
                Waiting, Recorded, Outcome, Open
  <1> QED
    BY <1>1, <1>2

-----------------------------------------------------------------------------
(* With one transaction at most, the charges are one if it is a success.     *)
LEMMA ChargesCounted ==
  ASSUME NEW l \in Seq(Outcomes), Len(l) <= 1
  PROVE  Cardinality({k \in DOMAIN l : l[k] = "success"}) =
           IF Len(l) = 1 /\ l[1] = "success" THEN 1 ELSE 0
  <1>1. DOMAIN l = 1..Len(l) /\ Len(l) \in Nat
    OBVIOUS
  <1>2. CASE Len(l) = 1 /\ l[1] = "success"
    <2>1. {k \in DOMAIN l : l[k] = "success"} = {1}
      BY <1>1, <1>2
    <2> QED
      BY <1>2, <2>1, FS_Singleton
  <1>3. CASE ~(Len(l) = 1 /\ l[1] = "success")
    <2>1. {k \in DOMAIN l : l[k] = "success"} = {}
      BY <1>1, <1>3
    <2> QED
      BY <1>3, <2>1, FS_EmptySet
  <1> QED
    BY <1>2, <1>3

(* What the contract sees of row r before and after a step.                  *)
Sees(r, v, c, w, d) ==
  /\ Verdict(pg[r]) = v /\ Charges(r) = c
  /\ Verdict(pg'[r]) = w /\ Charges(r)' = d

(* A step of one row is a charge, a report, or nothing to the contract.      *)
LEMMA RowAbstractly ==
  ASSUME TypeInv, TypeInv', NEW r \in Rows, RowInv(r), RowInv(r)',
         OutsideStep(r) \/ QueueStep(r)
  PROVE  \/ Sees(r, "open", 0, "open", 1)
         \/ Sees(r, "open", 1, "success", 1)
         \/ Sees(r, "open", 0, "failed", 0)
         \/ Sees(r, Verdict(pg[r]), Charges(r), Verdict(pg[r]), Charges(r))
  <1>1. /\ Charges(r) = IF Outcome(r, "success") THEN 1 ELSE 0
        /\ Charges(r)' = IF Outcome(r, "success")' THEN 1 ELSE 0
    <2>1. /\ ledger[r] \in Seq(Outcomes) /\ Len(ledger[r]) <= 1
          /\ ledger'[r] \in Seq(Outcomes) /\ Len(ledger'[r]) <= 1
      BY DEF TypeInv, StoreOK, SharedTypeOK, RowInv
    <2> QED
      BY <2>1, ChargesCounted DEF Charges, Outcome
  <1>2. CASE SameRow(r)
    BY <1>1, <1>2 DEF SameRow, Sees, Verdict, Outcome
  <1>3. CASE Settled(r)
    BY <1>1, <1>3 DEF Settled, Sees, Verdict, Outcome, RowInv
  <1>4. CASE Reported(r)
    BY <1>1, <1>4 DEF Reported, Sees, Verdict, Outcome, Recorded, RowInv
  <1>5. CASE Posted(r) \/ Requeued(r) \/ Pushed(r)
    BY <1>1, <1>5 DEF Posted, Requeued, Pushed, Sees, Verdict, Outcome, RowInv, Waiting, Open
  <1>6. CASE GivenUp(r)
    BY <1>1, <1>6 DEF GivenUp, Sees, Verdict, Outcome, Waiting, Open
  <1> QED
    BY <1>2, <1>3, <1>4, <1>5, <1>6 DEF OutsideStep, QueueStep

(* A step of the service is a step of the contract, or none.                 *)
LEMMA StepImplements ==
  ASSUME TypeInv, TypeInv', ContractInv, ContractInv', NEW q \in Rows,
         OutsideStep(q) \/ QueueStep(q), OnlyRow(q)
  PROVE  [Contract!Next]_(Contract!contractVars)
  <1> DEFINE v == [r \in Rows |-> Verdict(pg[r])]
             c == [r \in Rows |-> Charges(r)]
             w == [r \in Rows |-> Verdict(pg'[r])]
             d == [r \in Rows |-> Charges(r)']
  <1>1. \A r \in Rows : r # q => w[r] = v[r] /\ d[r] = c[r]
    BY DEF OnlyRow, SameRow, Verdict, Charges
  <1>2. Sees(q, v[q], c[q], w[q], d[q])
    BY DEF Sees
  <1>3. \/ v[q] = "open" /\ c[q] = 0 /\ w[q] = "open" /\ d[q] = 1
        \/ v[q] = "open" /\ c[q] = 1 /\ w[q] = "success" /\ d[q] = 1
        \/ v[q] = "open" /\ c[q] = 0 /\ w[q] = "failed" /\ d[q] = 0
        \/ w[q] = v[q] /\ d[q] = c[q]
    <2>1. RowInv(q) /\ RowInv(q)'
      BY DEF ContractInv
    <2> QED
      BY <2>1, RowAbstractly DEF Sees
  <1> HIDE DEF v, c, w, d
  <1>4. /\ v = [r \in Rows |-> v[r]] /\ c = [r \in Rows |-> c[r]]
        /\ w = [r \in Rows |-> w[r]] /\ d = [r \in Rows |-> d[r]]
    BY DEF v, c, w, d
  <1>5. CASE w[q] = v[q] /\ d[q] = c[q]
    <2>1. w = v /\ d = c
      BY <1>1, <1>4, <1>5
    <2> QED
      BY <2>1 DEF v, c, w, d, Contract!contractVars
  <1>6. CASE v[q] = "open" /\ c[q] = 0 /\ w[q] = "open" /\ d[q] = 1
    <2>1. w = v /\ d = [c EXCEPT ![q] = 1]
      BY <1>1, <1>4, <1>6
    <2>2. Contract!Charge(q)
      BY <1>6, <2>1 DEF v, c, w, d, Contract!Charge
    <2> QED
      BY <2>2 DEF Contract!Next
  <1>7. CASE v[q] = "open" /\ c[q] = 1 /\ w[q] = "success" /\ d[q] = 1
    <2>1. w = [v EXCEPT ![q] = "success"] /\ d = c
      BY <1>1, <1>4, <1>7
    <2>2. Contract!ReportSuccess(q)
      BY <1>7, <2>1 DEF v, c, w, d, Contract!ReportSuccess
    <2> QED
      BY <2>2 DEF Contract!Next
  <1>8. CASE v[q] = "open" /\ c[q] = 0 /\ w[q] = "failed" /\ d[q] = 0
    <2>1. w = [v EXCEPT ![q] = "failed"] /\ d = c
      BY <1>1, <1>4, <1>8
    <2>2. Contract!ReportFailure(q)
      BY <1>8, <2>1 DEF v, c, w, d, Contract!ReportFailure
    <2> QED
      BY <2>2 DEF Contract!Next
  <1> QED
    BY <1>3, <1>5, <1>6, <1>7, <1>8

(* A reliable service implements the contract: for any number of rows, any   *)
(* retry limit and any number of callback handlers, a subscriber is charged  *)
(* once at most, and Y and F are final and say what happened.                *)
THEOREM ContractImplemented == Reliable => (Spec => ImplementsContract)
  <1> SUFFICES ASSUME Reliable PROVE Spec => ImplementsContract
    OBVIOUS
  <1>1. Init => TypeInv /\ BatchOK /\ ContractInv
    BY InitTyped, InitOwns, InitContract DEF OwnerInv
  <1>3. TypeInv /\ BatchOK /\ ContractInv /\ [Next]_vars
          => TypeInv' /\ BatchOK' /\ ContractInv'
    BY NextTyped, NextBatches, NextContract
  <1>4. Init => Contract!Init
    <2> SUFFICES ASSUME Init PROVE Contract!Init
      OBVIOUS
    <2>1. \A r \in Rows : pg[r].flag = "N" /\ ledger[r] = <<>>
      BY DEF Init, SharedInit, NewRow
    <2>2. \A r \in Rows : Verdict(pg[r]) = "open"
      BY <2>1 DEF Verdict
    <2>3. ASSUME NEW r \in Rows PROVE Charges(r) = 0
      <3>1. ledger[r] \in Seq(Outcomes)
        BY <1>1 DEF TypeInv, StoreOK, SharedTypeOK
      <3>2. Len(ledger[r]) = 0
        BY <2>1
      <3> QED
        BY <3>1, <3>2, ChargesCounted DEF Charges
    <2> QED
      BY <2>2, <2>3 DEF Contract!Init
  <1>5. TypeInv /\ TypeInv' /\ BatchOK /\ ContractInv /\ ContractInv' /\ [Next]_vars
          => [Contract!Next]_(Contract!contractVars)
    <2> SUFFICES ASSUME TypeInv, TypeInv', BatchOK, ContractInv, ContractInv', [Next]_vars
                 PROVE  [Contract!Next]_(Contract!contractVars)
      OBVIOUS
    <2>1. CASE Next
      <3>1. PICK q \in Rows : (OutsideStep(q) \/ QueueStep(q)) /\ OnlyRow(q)
        BY <2>1, StepOfOneRow
      <3> QED
        BY <3>1, StepImplements
    <2>2. CASE UNCHANGED vars
      BY <2>2 DEF vars, shared, Contract!contractVars, Verdict, Charges
    <2> QED
      BY <2>1, <2>2
  <1> QED
    BY <1>1, <1>3, <1>4, <1>5, PTL DEF Spec, ImplementsContract, Contract!Spec

-----------------------------------------------------------------------------
(* BCD follows the flag, unless the processor is about to write it.          *)

Explains(flag) ==
  CASE flag \in {"N", "E"} -> {"RQ"}
    [] flag = "P"          -> {"W", "NR"}
    [] flag = "Y"          -> {"P", "W", "NR"}
    [] flag = "F"          -> {"F", "ID", "W", "NR"}

WritesLater(r) == \E d \in Dispatchers : disp[d].pc = "writeback" /\ disp[d].row = r

BcdRow(r) ==
  bcd[r] # "NP" /\ ~(r \in Late /\ bcd[r] = "RQ") =>
    bcd[r] \in Explains(pg[r].flag) \/ (bcd[r] = "RQ" /\ WritesLater(r))

Handled(r) == pg[r].flag \in {"P", "Y", "F"}

(* What is about to be written back is what the flag has come to.            *)
DispBack(d) ==
  disp[d].pc = "writeback" =>
    IF disp[d].code = REGISTERED THEN Handled(disp[d].row) ELSE pg[disp[d].row].flag = "F"

ChkBack(c) ==
  chk[c].pc = "writeback" =>
    pg[chk[c].row].flag = IF chk[c].code = SUCCESS THEN "Y" ELSE "F"

HandBack(h) ==
  hand[h].pc = "writeback" =>
    pg[hand[h].row].flag = IF hand[h].code = SUCCESS THEN "Y" ELSE "F"

BcdInv ==
  /\ \A r \in Rows : BcdRow(r)
  /\ \A d \in Dispatchers : DispBack(d)
  /\ \A c \in Checkers : ChkBack(c)
  /\ \A h \in Handlers : HandBack(h)

(* Which way the flag of a row goes.                                         *)
LEMMA FlagMoves ==
  ASSUME NEW r \in Rows, RowInv(r), OutsideStep(r) \/ QueueStep(r)
  PROVE  /\ pg[r].flag = "Y" => pg'[r].flag = "Y"
         /\ pg[r].flag = "F" => pg'[r].flag = "F"
         /\ Handled(r) => pg'[r].flag \in {"P", "Y", "F"}
         /\ Open(r) => pg'[r].flag \in {pg[r].flag, "E", "P", "F"}
         /\ pg[r].flag = "P" => pg'[r].flag \in {"P", "Y", "F"}
         /\ OutsideStep(r) /\ Open(r) => pg'[r].flag = pg[r].flag
  BY DEF RowInv, OutsideStep, QueueStep, SameRow, Settled, Reported, Posted, Requeued,
         Pushed, GivenUp, Recorded, Outcome, Waiting, Open, Handled

(* Rows whose flag or BCD status moves, and what keeps the two together.     *)
LEMMA BcdRowsKept ==
  ASSUME TypeInv, ContractInv, BcdInv,
         \A r \in Rows : OutsideStep(r) \/ QueueStep(r),
         \A r \in Rows : \/ bcd'[r] = bcd[r]
                         \/ bcd'[r] \in Explains(pg'[r].flag)
                         \/ r \in Late /\ bcd'[r] = "RQ",
         \A r \in Rows : bcd'[r] = bcd[r] /\ bcd[r] = "RQ" /\ WritesLater(r) => WritesLater(r)',
         \A r \in Rows : Open(r) /\ pg'[r].flag \in {"P", "F"} => WritesLater(r)'
  PROVE  (\A r \in Rows : BcdRow(r))'
  <1> SUFFICES ASSUME NEW r \in Rows PROVE BcdRow(r)'
    OBVIOUS
  <1>1. CASE bcd'[r] \in Explains(pg'[r].flag) \/ (r \in Late /\ bcd'[r] = "RQ")
    BY <1>1 DEF BcdRow
  <1>2. CASE bcd'[r] = bcd[r]
    <2>1. BcdRow(r) /\ RowInv(r) /\ pg[r].flag \in Flags
      BY DEF BcdInv, ContractInv, TypeInv, StoreOK, SharedTypeOK, Row
    <2>2. CASE WritesLater(r) /\ bcd[r] = "RQ"
      BY <1>2, <2>2 DEF BcdRow
    <2>3. CASE bcd[r] \in Explains(pg[r].flag)
      <3>1. CASE Open(r)
        <4>1. bcd[r] = "RQ" /\ pg'[r].flag \in {"N", "E", "P", "F"}
          BY <2>1, <2>3, <3>1, FlagMoves DEF Explains, Open
        <4>2. CASE pg'[r].flag \in {"N", "E"}
          BY <1>2, <4>1, <4>2 DEF BcdRow, Explains
        <4>3. CASE pg'[r].flag \in {"P", "F"}
          BY <1>2, <3>1, <4>1, <4>3 DEF BcdRow
        <4> QED
          BY <4>1, <4>2, <4>3
      <3>2. CASE pg[r].flag \in {"P", "Y", "F"}
        BY <1>2, <2>1, <2>3, <3>2, FlagMoves DEF BcdRow, Explains
      <3> QED
        BY <2>1, <3>1, <3>2 DEF Flags, Open
    <2>4. CASE bcd[r] = "NP" \/ (r \in Late /\ bcd[r] = "RQ")
      BY <1>2, <2>4 DEF BcdRow
    <2> QED
      BY <2>1, <2>2, <2>3, <2>4 DEF BcdRow
  <1> QED
    BY <1>1, <1>2

(* The jobs at rest go on to write what the flag has come to.                *)
LEMMA BacksKept ==
  ASSUME TypeInv, ContractInv, BcdInv, \A r \in Rows : OutsideStep(r) \/ QueueStep(r)
  PROVE  /\ disp' = disp => (\A d \in Dispatchers : DispBack(d))'
         /\ \A c \in Checkers : chk'[c] = chk[c] => ChkBack(c)'
         /\ \A h \in Handlers : hand'[h] = hand[h] => HandBack(h)'
  <1>0. /\ \A r \in Rows : RowInv(r)
        /\ \A d \in Dispatchers : disp[d].pc = "writeback" => disp[d].row \in Rows
        /\ \A c \in Checkers : chk[c].pc = "writeback" => chk[c].row \in Rows
        /\ \A h \in Handlers : hand[h].pc = "writeback" => hand[h].row \in Rows
    BY DEF ContractInv, TypeInv, DispOK, ChkOK, HandOK
  <1>1. \A r \in Rows : /\ pg[r].flag = "Y" => pg'[r].flag = "Y"
                        /\ pg[r].flag = "F" => pg'[r].flag = "F"
                        /\ Handled(r) => pg'[r].flag \in {"P", "Y", "F"}
    BY <1>0, FlagMoves
  <1>2. disp' = disp => (\A d \in Dispatchers : DispBack(d))'
    BY <1>0, <1>1 DEF BcdInv, DispBack, Handled
  <1>3. \A c \in Checkers : chk'[c] = chk[c] => ChkBack(c)'
    BY <1>0, <1>1 DEF BcdInv, ChkBack
  <1>4. \A h \in Handlers : hand'[h] = hand[h] => HandBack(h)'
    BY <1>0, <1>1 DEF BcdInv, HandBack
  <1> QED
    BY <1>2, <1>3, <1>4

(* A BCD update that does not fail, on a record that is linked or not.       *)
LEMMA BcdWrittenTo ==
  ASSUME TypeInv, ~OracleMayFail, NEW q \in Rows, NEW status, UpdateBcdStatus(q, status)
  PROVE  /\ \A r \in Rows : r # q => bcd'[r] = bcd[r]
         /\ bcd'[q] = status \/ (bcd'[q] = bcd[q] /\ bcd[q] = "NP")
  BY DEF UpdateBcdStatus, TypeInv, StoreOK, SharedTypeOK

(* The steps of others leave the flags of the queue alone.                   *)
LEMMA OutsideBcd ==
  ASSUME TypeInv, ContractInv, BcdInv, NEW q \in Rows, OutsideStep(q), OnlyRow(q), disp' = disp,
         \A r \in Rows : \/ bcd'[r] = bcd[r]
                         \/ bcd'[r] \in Explains(pg'[r].flag)
                         \/ r \in Late /\ bcd'[r] = "RQ"
  PROVE  /\ (\A r \in Rows : BcdRow(r))'
         /\ (\A d \in Dispatchers : DispBack(d))'
         /\ \A c \in Checkers : chk'[c] = chk[c] => ChkBack(c)'
         /\ \A h \in Handlers : hand'[h] = hand[h] => HandBack(h)'
  <1>1. \A r \in Rows : OutsideStep(r)
    BY DEF OnlyRow, OutsideStep
  <1>2. \A r \in Rows : WritesLater(r) => WritesLater(r)'
    BY DEF WritesLater
  <1>3. \A r \in Rows : ~(Open(r) /\ pg'[r].flag \in {"P", "F"})
    BY <1>1, FlagMoves DEF ContractInv, Open
  <1>4. (\A r \in Rows : BcdRow(r))'
    BY <1>1, <1>2, <1>3, BcdRowsKept
  <1> QED
    BY <1>1, <1>4, BacksKept

LEMMA EnvironmentBcd ==
  ASSUME TypeInv, ContractInv, BcdInv, Environment
  PROVE  BcdInv'
  <1>1. PICK q \in Rows : OutsideStep(q) /\ OnlyRow(q)
    BY EnvironmentOutside
  <1>2. disp' = disp /\ chk' = chk /\ hand' = hand
    BY DEF Environment
  <1>3. \A r \in Rows : bcd'[r] = bcd[r] \/ (r \in Late /\ bcd'[r] = "RQ")
    BY DEF Environment, Settle, Ripen, Lapse, LinkBcd, TypeInv, StoreOK, SharedTypeOK
  <1> QED
    BY <1>1, <1>2, <1>3, OutsideBcd DEF BcdInv

LEMMA CheckerBcd ==
  ASSUME Reliable, ~OracleMayFail, TypeInv, ContractInv, BcdInv,
         NEW c \in Checkers, CheckerStep(c)
  PROVE  BcdInv'
  <1>1. PICK q \in Rows : OutsideStep(q) /\ OnlyRow(q)
    BY CheckerOutside
  <1>2. disp' = disp /\ hand' = hand
    BY DEF CheckerStep
  <1>0. /\ chk \in [Checkers -> ChkState] /\ chk[c] \in ChkState
        /\ pg \in [Rows -> Row] /\ (\A r \in Rows : pg[r] \in Row)
        /\ chk[c].pc \notin {"idle", "loop"} => chk[c].row \in Rows
        /\ ChkInv(c) /\ ChkBack(c)
        /\ \A r \in Rows : RowInv(r)
    BY DEF TypeInv, ChkOK, ChkTypeOK, StoreOK, SharedTypeOK, Reliable, ContractInv, BcdInv
  <1>s. ASSUME ChkBack(c)',
               \A r \in Rows : bcd'[r] = bcd[r] \/ bcd'[r] \in Explains(pg'[r].flag)
        PROVE  BcdInv'
    BY <1>0, <1>1, <1>2, <1>s, OutsideBcd, OtherChecksWait DEF BcdInv
  <1>l. ASSUME NEW todo, ChkLoop(c, todo)
        PROVE  ChkBack(c)'
    <2>1. chk'[c] = IF todo = {} THEN ChkIdle
                    ELSE [ChkIdle EXCEPT !.pc = "loop", !.todo = todo]
      BY <1>0, <1>l DEF ChkLoop
    <2>2. chk'[c].pc # "writeback"
      BY <2>1 DEF ChkIdle
    <2> QED
      BY <2>2 DEF ChkBack
  <1>3. CASE FetchDue(c) \/ CountAttempt(c) \/ QueryStatus(c)
    <2>1. chk'[c].pc # "writeback"
      <3>1. CASE FetchDue(c)
        BY <1>0, <3>1 DEF FetchDue, ChkIdle
      <3>2. CASE CountAttempt(c)
        BY <1>0, <3>2 DEF CountAttempt, ChkState
      <3>3. CASE QueryStatus(c)
        BY <1>0, <3>3 DEF QueryStatus, ChkState
      <3> QED
        BY <1>3, <3>1, <3>2, <3>3
    <2>2. bcd' = bcd
      BY <1>3 DEF FetchDue, CountAttempt, QueryStatus, shared
    <2> QED
      BY <2>1, <2>2, <1>s DEF ChkBack
  <1>4. CASE WriteNoResponse(c)
    <2>1. /\ chk'[c].pc = "query" /\ chk[c].row \in Rows /\ Recorded(chk[c].row) /\ pg' = pg
          /\ UpdateBcdStatus(chk[c].row, "NR")
      BY <1>0, <1>4 DEF WriteNoResponse, ChkState, ChkInv
    <2>2. "NR" \in Explains(pg'[chk[c].row].flag)
      BY <2>1 DEF Recorded, Explains
    <2> QED
      BY <2>1, <2>2, <1>s, BcdWrittenTo DEF ChkBack
  <1>5. CASE RecordCheckSuccess(c) \/ RecordCheckFailed(c)
    <2>1. /\ chk[c].row \in Rows /\ chk'[c].row = chk[c].row /\ chk'[c].code = chk[c].code
          /\ bcd' = bcd
          /\ pg'[chk[c].row].flag = IF chk[c].code = SUCCESS THEN "Y" ELSE "F"
      BY <1>0, <1>5, MarkEffects, 0 \in Nat
         DEF RecordCheckSuccess, RecordCheckFailed, ChkToWriteback, ChkState, SUCCESS, TXN_FAILED
    <2>2. ChkBack(c)'
      BY <2>1 DEF ChkBack
    <2> QED
      BY <2>1, <2>2, <1>s
  <1>6. CASE RecordNotFound(c) \/ RecordUnknownRejected(c)
    BY <1>6, <1>l, <1>s DEF RecordNotFound, RecordUnknownRejected, shared
  <1>7. CASE RecordUnknown(c)
    BY <1>0, <1>7 DEF RecordUnknown, Requeueing, ChkInv
  <1>8. CASE ChkWriteback(c)
    <2>1. /\ chk[c].row \in Rows /\ pg' = pg /\ ChkLoop(c, chk[c].todo)
          /\ pg[chk[c].row].flag = IF chk[c].code = SUCCESS THEN "Y" ELSE "F"
          /\ UpdateBcdStatus(chk[c].row, IF chk[c].code = SUCCESS THEN "P" ELSE "F")
      BY <1>0, <1>8 DEF ChkWriteback, ChkBack
    <2>2. (IF chk[c].code = SUCCESS THEN "P" ELSE "F") \in Explains(pg'[chk[c].row].flag)
      BY <2>1 DEF Explains
    <2> QED
      BY <2>1, <2>2, <1>l, <1>s, BcdWrittenTo
  <1> QED
    BY <1>3, <1>4, <1>5, <1>6, <1>7, <1>8 DEF CheckerStep, ChkStep

LEMMA CallbackBcd ==
  ASSUME ~OracleMayFail, TypeInv, ContractInv, BcdInv, NEW h \in Handlers, CallbackStep(h)
  PROVE  BcdInv'
  <1>1. PICK q \in Rows : OutsideStep(q) /\ OnlyRow(q)
    BY CallbackOutside
  <1>2. disp' = disp /\ chk' = chk /\ (\A g \in Handlers : g # h => hand'[g] = hand[g])
    BY DEF CallbackStep, HandStep, Receive, RecordCallback, HandWriteback, TypeInv, HandOK, HandTypeOK
  <1>0. /\ hand \in [Handlers -> HandState] /\ hand[h] \in HandState
        /\ pg \in [Rows -> Row] /\ (\A r \in Rows : pg[r] \in Row)
        /\ hand[h].pc # "idle" => hand[h].row \in Rows
        /\ HandBack(h)
    BY DEF TypeInv, HandOK, HandTypeOK, StoreOK, SharedTypeOK, BcdInv
  <1>s. ASSUME HandBack(h)',
               \A r \in Rows : bcd'[r] = bcd[r] \/ bcd'[r] \in Explains(pg'[r].flag)
        PROVE  BcdInv'
    <2>1. /\ (\A r \in Rows : BcdRow(r))'
          /\ (\A d \in Dispatchers : DispBack(d))' /\ (\A c \in Checkers : ChkBack(c))'
          /\ \A g \in Handlers : hand'[g] = hand[g] => HandBack(g)'
      BY <1>1, <1>2, <1>s, OutsideBcd
    <2> QED
      BY <1>2, <1>s, <2>1 DEF BcdInv
  <1>3. CASE Receive(h)
    <2>1. hand'[h].pc = "record" /\ bcd' = bcd
      BY <1>0, <1>3 DEF Receive, shared
    <2> QED
      BY <2>1, <1>s DEF HandBack
  <1>4. CASE RecordCallback(h)
    <2>1. /\ hand[h].row \in Rows /\ hand'[h].row = hand[h].row /\ hand'[h].code = hand[h].code
          /\ bcd' = bcd
          /\ pg'[hand[h].row].flag = IF hand[h].code = SUCCESS THEN "Y" ELSE "F"
      BY <1>0, <1>4, MarkEffects, 0 \in Nat DEF RecordCallback, HandState
    <2>2. HandBack(h)'
      BY <2>1 DEF HandBack
    <2> QED
      BY <2>1, <2>2, <1>s
  <1>5. CASE HandWriteback(h)
    <2> DEFINE status == IF hand[h].code = SUCCESS THEN "P"
                         ELSE BcdStatusForPyroFailure(hand[h].code)
    <2>1. /\ hand[h].row \in Rows /\ pg' = pg /\ hand'[h].pc = "idle"
          /\ pg[hand[h].row].flag = IF hand[h].code = SUCCESS THEN "Y" ELSE "F"
          /\ UpdateBcdStatus(hand[h].row, status)
      BY <1>0, <1>5 DEF HandWriteback, HandBack, HandIdle
    <2>2. status \in Explains(pg'[hand[h].row].flag)
      BY <2>1 DEF Explains, BcdStatusForPyroFailure
    <2>3. HandBack(h)'
      BY <2>1 DEF HandBack
    <2> HIDE DEF status
    <2> QED
      BY <2>1, <2>2, <2>3, <1>s, BcdWrittenTo
  <1> QED
    BY <1>3, <1>4, <1>5 DEF CallbackStep, HandStep

LEMMA ProcessorBcd ==
  ASSUME Reliable, ~OracleMayFail, TypeInv, BatchOK, ContractInv, BcdInv,
         NEW d \in Dispatchers, ProcessorStep(d)
  PROVE  BcdInv'
  <1>0. /\ disp \in [Dispatchers -> DispState] /\ disp[d] \in DispState
        /\ pg \in [Rows -> Row] /\ (\A r \in Rows : pg[r] \in Row)
        /\ disp[d].pc \in {"record", "writeback"} => disp[d].row \in Rows
        /\ \A e \in Dispatchers : e = d
        /\ DispBack(d)
        /\ \A r \in Rows : RowInv(r)
    BY DEF TypeInv, DispOK, DispTypeOK, StoreOK, SharedTypeOK, Reliable, ContractInv, BcdInv
  <1>1. \A r \in Rows : OutsideStep(r) \/ QueueStep(r)
    <2>1. PICK q \in Rows : QueueStep(q) /\ OnlyRow(q)
      BY ProcessorQueue
    <2> QED
      BY <2>1 DEF OnlyRow, QueueStep
  <1>2. chk' = chk /\ hand' = hand
    BY DEF ProcessorStep
  <1>s. ASSUME DispBack(d)',
               \A r \in Rows : bcd'[r] = bcd[r] \/ bcd'[r] \in Explains(pg'[r].flag),
               \A r \in Rows : bcd'[r] = bcd[r] /\ bcd[r] = "RQ" => ~WritesLater(r),
               \A r \in Rows : Open(r) /\ pg'[r].flag \in {"P", "F"} => WritesLater(r)'
        PROVE  BcdInv'
    <2>1. (\A r \in Rows : BcdRow(r))'
      BY <1>1, <1>s, BcdRowsKept
    <2>2. (\A c \in Checkers : ChkBack(c))' /\ (\A h \in Handlers : HandBack(h))'
      BY <1>1, <1>2, BacksKept
    <2> QED
      BY <1>0, <1>s, <2>1, <2>2 DEF BcdInv
  <1>l. ASSUME NEW todo, NEW spent, Loop(d, todo, spent)
        PROVE  disp'[d].pc # "writeback"
    <2>1. disp'[d] = IF todo = {} THEN DispIdle
                     ELSE [DispIdle EXCEPT !.pc = "loop", !.todo = todo, !.spent = spent]
      BY <1>0, <1>l DEF Loop
    <2> QED
      BY <2>1 DEF DispIdle
  <1>u. ASSUME disp[d].pc # "writeback", disp'[d].pc # "writeback", bcd' = bcd,
               \A r \in Rows : pg'[r].flag \in {pg[r].flag, "E"}
        PROVE  BcdInv'
    <2>1. DispBack(d)' /\ \A r \in Rows : ~WritesLater(r)
      BY <1>0, <1>u DEF DispBack, WritesLater
    <2>2. \A r \in Rows : ~(Open(r) /\ pg'[r].flag \in {"P", "F"})
      BY <1>u DEF Open
    <2> QED
      BY <1>u, <2>1, <2>2, <1>s
  <1>3. CASE FetchPending(d)
    <2>1. disp[d].pc = "idle" /\ disp'[d].pc = "fetched" /\ bcd' = bcd /\ pg' = pg
      BY <1>0, <1>3 DEF FetchPending, DispIdle, shared
    <2> QED
      BY <2>1, <1>u
  <1>4. CASE DeferBatch(d) \/ DecryptFails(d) \/ SkipExhaustedDealer(d)
    <2>1. /\ disp[d].pc # "writeback" /\ bcd' = bcd /\ pg' = pg
          /\ \E todo, spent : Loop(d, todo, spent)
      BY <1>4 DEF DeferBatch, DecryptFails, SkipExhaustedDealer, IsNext, shared
    <2> QED
      BY <2>1, <1>l, <1>u
  <1>5. CASE RechargeAccepted(d) \/ RechargeRefused(d)
    <2>1. /\ disp[d].pc # "writeback" /\ bcd' = bcd /\ pg' = pg
          /\ \E s, code, trans : InHand(d, s, code, trans)
      BY <1>5 DEF RechargeAccepted, RechargeRefused, IsNext, shared
    <2>2. disp'[d].pc = "record"
      BY <1>0, <2>1 DEF InHand, DispState
    <2> QED
      BY <2>1, <2>2, <1>u
  <1>6. CASE RecordPushed(d) \/ RecordFailed(d)
    <2>1. /\ disp[d].pc = "record" /\ disp[d].row \in Rows /\ bcd' = bcd
          /\ disp'[d].pc = "writeback" /\ disp'[d].row = disp[d].row
          /\ disp'[d].code = disp[d].code
      BY <1>0, <1>6 DEF RecordPushed, RecordFailed, ToWriteback, DispState
    <2>2. /\ \A r \in Rows : r # disp[d].row => pg'[r] = pg[r]
          /\ pg'[disp[d].row].flag = IF disp[d].code = REGISTERED THEN "P" ELSE "F"
      <3>1. CASE RecordPushed(d)
        <4>1. disp[d].trans \in Nat
          BY <1>0 DEF DispState
        <4> QED
          BY <1>0, <2>1, <3>1, <4>1, MarkEffects DEF RecordPushed
      <3>2. CASE RecordFailed(d)
        BY <1>0, <2>1, <3>2, MarkEffects, 0 \in Nat DEF RecordFailed
      <3> QED
        BY <1>6, <3>1, <3>2
    <2>3. DispBack(d)'
      BY <2>1, <2>2 DEF DispBack, Handled
    <2>4. \A r \in Rows : ~WritesLater(r)
      BY <1>0, <2>1 DEF WritesLater
    <2>5. WritesLater(disp[d].row) \/ \A r \in Rows : r = disp[d].row => WritesLater(r)'
      BY <2>1 DEF WritesLater
    <2>6. \A r \in Rows : Open(r) /\ pg'[r].flag \in {"P", "F"} => WritesLater(r)'
      BY <2>1, <2>2, <2>4, <2>5 DEF Open
    <2> QED
      BY <2>1, <2>3, <2>4, <2>6, <1>s
  <1>7. CASE RecordRetry(d)
    <2>1. /\ disp[d].pc = "record" /\ disp[d].row \in Rows /\ bcd' = bcd
          /\ \E todo, spent : Loop(d, todo, spent)
      BY <1>0, <1>7 DEF RecordRetry, Retrying
    <2>2. \A r \in Rows : pg'[r].flag \in {pg[r].flag, "E"}
      BY <1>0, <1>7, <2>1, MarkEffects, 0 \in Nat DEF RecordRetry
    <2> QED
      BY <2>1, <2>2, <1>l, <1>u
  <1>8. CASE RecordRetryRejected(d)
    <2>1. /\ disp[d].pc = "record" /\ bcd' = bcd /\ pg' = pg
          /\ \E todo, spent : Loop(d, todo, spent)
      BY <1>8 DEF RecordRetryRejected, Retrying, shared
    <2> QED
      BY <2>1, <1>l, <1>u
  <1>9. CASE DispWriteback(d)
    <2>1. /\ disp[d].pc = "writeback" /\ disp[d].row \in Rows /\ pg' = pg
          /\ UpdateBcdStatus(disp[d].row, BcdAfter(disp[d].code))
          /\ disp'[d].pc # "writeback"
      BY <1>0, <1>9, <1>l DEF DispWriteback
    <2>2. /\ BcdAfter(disp[d].code) \in Explains(pg'[disp[d].row].flag)
          /\ BcdAfter(disp[d].code) # "RQ"
      <3>1. BcdAfter(disp[d].code) \in IF disp[d].code = REGISTERED THEN {"W"} ELSE {"F", "ID"}
        <4>1. BcdStatusForPyroFailure(disp[d].code) \in {"F", "ID"}
          BY DEF BcdStatusForPyroFailure
        <4>2. CASE disp[d].code = REGISTERED
          <5>1. disp[d].code \notin PERMANENT_FAILURE_CODES
            BY <4>2 DEF REGISTERED, PERMANENT_FAILURE_CODES
          <5> QED
            BY <4>2, <5>1 DEF BcdAfter
        <4>3. CASE disp[d].code # REGISTERED
          <5>1. CASE disp[d].code \in PERMANENT_FAILURE_CODES
            BY <4>1, <4>3, <5>1 DEF BcdAfter
          <5>2. CASE disp[d].code \notin PERMANENT_FAILURE_CODES
            BY <4>3, <5>2 DEF BcdAfter
          <5> QED
            BY <5>1, <5>2
        <4> QED
          BY <4>2, <4>3
      <3>2. IF disp[d].code = REGISTERED THEN pg[disp[d].row].flag \in {"P", "Y", "F"}
                                         ELSE pg[disp[d].row].flag = "F"
        BY <1>0, <2>1 DEF DispBack, Handled
      <3>3. CASE disp[d].code = REGISTERED
        BY <2>1, <3>1, <3>2, <3>3 DEF Explains
      <3>4. CASE disp[d].code # REGISTERED
        BY <2>1, <3>1, <3>2, <3>4 DEF Explains
      <3> QED
        BY <3>3, <3>4
    <2>3. /\ \A r \in Rows : r # disp[d].row => bcd'[r] = bcd[r]
          /\ \/ bcd'[disp[d].row] = BcdAfter(disp[d].code)
             \/ bcd'[disp[d].row] = bcd[disp[d].row] /\ bcd[disp[d].row] = "NP"
      BY <2>1, BcdWrittenTo
    <2>4. \A r \in Rows : WritesLater(r) => r = disp[d].row
      BY <1>0 DEF WritesLater
    <2>5. DispBack(d)'
      BY <2>1 DEF DispBack
    <2>6. \A r \in Rows : ~(Open(r) /\ pg'[r].flag \in {"P", "F"})
      BY <2>1 DEF Open
    <2>7. \A r \in Rows : bcd'[r] = bcd[r] \/ bcd'[r] \in Explains(pg'[r].flag)
      BY <2>2, <2>3
    <2>8. \A r \in Rows : bcd'[r] = bcd[r] /\ bcd[r] = "RQ" => ~WritesLater(r)
      BY <2>2, <2>3, <2>4
    <2> QED
      BY <2>5, <2>6, <2>7, <2>8, <1>s
  <1> QED
    BY <1>3, <1>4, <1>5, <1>6, <1>7, <1>8, <1>9 DEF ProcessorStep, DispStep

LEMMA InitBcd == Init => BcdInv
  <1> SUFFICES ASSUME Init PROVE BcdInv
    OBVIOUS
  <1>1. \A r \in Rows : pg[r].flag = "N" /\ bcd[r] \in {"NP", "RQ"}
    BY DEF Init, SharedInit, NewRow
  <1>2. \A r \in Rows : BcdRow(r)
    BY <1>1 DEF BcdRow, Explains
  <1> QED
    BY <1>2 DEF BcdInv, DispBack, ChkBack, HandBack, Init, DispInit, ChkInit, HandInit,
                DispIdle, ChkIdle, HandIdle

LEMMA NextBcd ==
  Reliable /\ ~OracleMayFail /\ TypeInv /\ BatchOK /\ ContractInv /\ BcdInv /\ [Next]_vars
    => BcdInv'
  <1> SUFFICES ASSUME Reliable, ~OracleMayFail, TypeInv, BatchOK, ContractInv, BcdInv, [Next]_vars
               PROVE  BcdInv'
    OBVIOUS
  <1>1. CASE Environment
    BY <1>1, EnvironmentBcd
  <1>2. CASE \E d \in Dispatchers : ProcessorStep(d)
    BY <1>2, ProcessorBcd
  <1>3. CASE \E c \in Checkers : CheckerStep(c)
    BY <1>3, CheckerBcd
  <1>4. CASE \E h \in Handlers : CallbackStep(h)
    BY <1>4, CallbackBcd
  <1>5. CASE Abort
    <2>1. CutShort
      BY <1>5 DEF Abort, DispAbort, ChkAbort, HandAbort
    <2>2. aborts \in 0..MaxAborts /\ MaxAborts = 0
      BY DEF TypeInv, StoreOK, SharedTypeOK, Reliable
    <2> QED
      BY <2>1, <2>2 DEF CutShort
  <1>6. CASE UNCHANGED vars
    BY <1>6 DEF vars, shared, BcdInv, BcdRow, WritesLater, DispBack, ChkBack, HandBack, Handled
  <1> QED
    BY <1>1, <1>2, <1>3, <1>4, <1>5, <1>6 DEF Next

(* When the service is reliable and no BCD update fails, the BCD status of a *)
(* row nobody is at work on is one its flag explains, for any number of rows *)
(* and handlers, although three components write it without reading it.      *)
THEOREM BcdExplainedHolds == Reliable /\ ~OracleMayFail => (Spec => []BcdExplained)
  <1> SUFFICES ASSUME Reliable, ~OracleMayFail PROVE Spec => []BcdExplained
    OBVIOUS
  <1>1. TypeInv /\ BcdInv => BcdExplained
    <2> SUFFICES ASSUME TypeInv, BcdInv, NEW r \in Rows, Quiet(r), bcd[r] # "NP",
                        ~(r \in Late /\ bcd[r] = "RQ")
                 PROVE  bcd[r] \in Explains(pg[r].flag)
      BY DEF BcdExplained, Explains, TypeInv, StoreOK, SharedTypeOK, Row, Flags
    <2> QED
      BY DEF BcdInv, BcdRow, WritesLater, Quiet
  <1>2. Init => TypeInv /\ BatchOK /\ ContractInv /\ BcdInv
    BY InitTyped, InitOwns, InitContract, InitBcd DEF OwnerInv
  <1>4. TypeInv /\ BatchOK /\ ContractInv /\ BcdInv /\ [Next]_vars
          => TypeInv' /\ BatchOK' /\ ContractInv' /\ BcdInv'
    BY NextTyped, NextBatches, NextContract, NextBcd
  <1> QED
    BY <1>1, <1>2, <1>4, PTL DEF Spec
=============================================================================
