---------------------------- MODULE SuccessProofs ----------------------------
(* What is reported is what happened: NoPhantomSuccess, whatever is lost,    *)
(* repeated, raced or cut short.                                             *)
EXTENDS ServiceProofs

(* No success without a transaction that succeeded.                          *)

(* A transaction id somebody remembers is one Pyro gave out, or none (0).    *)
IdsOK ==
  /\ \A r \in Rows : pg[r].trans <= Len(ledger[r])
  /\ \A d \in Dispatchers :
       disp[d].pc = "record" /\ disp[d].code = REGISTERED =>
         disp[d].trans <= Len(ledger[disp[d].row])
  /\ \A c \in Checkers : \A s \in chk[c].todo : s.trans <= Len(ledger[s.row])
  /\ \A c \in Checkers :
       chk[c].pc \in {"noresponse", "query"} => chk[c].trans <= Len(ledger[chk[c].row])

(* Whoever is about to report a success has seen one.                        *)
ReportersOK ==
  /\ \A c \in Checkers :
       chk[c].pc \in {"record", "writeback"} /\ chk[c].code = SUCCESS => Succeeded(chk[c].row)
  /\ \A h \in Handlers :
       hand[h].pc # "idle" /\ hand[h].code = SUCCESS => Succeeded(hand[h].row)

SuccessInv == NoPhantomSuccess /\ IdsOK /\ ReportersOK

-----------------------------------------------------------------------------
(* What the statements on a row do to the columns this proof looks at.       *)
LEMMA RowEffects ==
  ASSUME NEW row \in Row, NEW k \in Nat
  PROVE  /\ MarkAsPushed(row, k).flag = "P" /\ MarkAsPushed(row, k).trans = k
         /\ MarkAsPushed(row, k).final = row.final
         /\ MarkAsSuccess(row).flag = "Y" /\ MarkAsSuccess(row).trans = row.trans
         /\ MarkAsFailed(row).flag = "F" /\ MarkAsFailed(row).trans = row.trans
         /\ MarkAsFailed(row).final = "FAILED"
         /\ MarkForRetry(row).flag = "E" /\ MarkForRetry(row).trans = row.trans
         /\ MarkForRetry(row).final = row.final
         /\ UpdateStatusCheckAttempt(row).flag = row.flag
         /\ UpdateStatusCheckAttempt(row).trans = row.trans
         /\ UpdateStatusCheckAttempt(row).final = row.final
  BY DEF Row, MarkAsPushed, MarkAsSuccess, MarkAsFailed, MarkForRetry,
         UpdateStatusCheckAttempt

(* Pyro's book only grows: no transaction disappears, none is settled twice. *)
BookGrows ==
  \A r \in Rows :
    /\ DOMAIN ledger[r] \subseteq DOMAIN ledger'[r]
    /\ Len(ledger[r]) <= Len(ledger'[r])
    /\ \A k \in DOMAIN ledger[r] :
         ledger[r][k] # "pending" => ledger'[r][k] = ledger[r][k]
    /\ Succeeded(r) => Succeeded(r)'

(* Pyro's book, left alone.                                                  *)
LEMMA BookKept ==
  ASSUME UNCHANGED ledger, TypeInv
  PROVE  BookGrows
  <1>1. \A r \in Rows : Len(ledger[r]) \in Nat
    BY DEF TypeInv, StoreOK, SharedTypeOK
  <1> QED
    BY <1>1 DEF BookGrows, Succeeded

(* A transaction Pyro accepts goes at the end of its book.                   *)
LEMMA BookAppended ==
  ASSUME TypeInv, NEW r \in Rows,
         ledger' = [ledger EXCEPT ![r] = Append(ledger[r], "pending")]
  PROVE  BookGrows /\ Len(ledger'[r]) = Len(ledger[r]) + 1
  <1>1. \A q \in Rows : ledger[q] \in Seq(Outcomes) /\ Len(ledger[q]) \in Nat
    BY DEF TypeInv, StoreOK, SharedTypeOK
  <1>2. \A q \in Rows : ledger'[q] = IF q = r THEN Append(ledger[r], "pending") ELSE ledger[q]
    BY DEF TypeInv, StoreOK, SharedTypeOK
  <1>3. "pending" \in Outcomes
    BY DEF Outcomes
  <1>4. /\ Len(Append(ledger[r], "pending")) = Len(ledger[r]) + 1
        /\ DOMAIN Append(ledger[r], "pending") = 1..(Len(ledger[r]) + 1)
        /\ DOMAIN ledger[r] = 1..Len(ledger[r])
        /\ \A k \in DOMAIN ledger[r] : Append(ledger[r], "pending")[k] = ledger[r][k]
    BY <1>1, <1>3
  <1>5. Succeeded(r) => Succeeded(r)'
    BY <1>1, <1>2, <1>4 DEF Succeeded
  <1>6. \A q \in Rows : q # r => (Succeeded(q) => Succeeded(q)')
    BY <1>2 DEF Succeeded
  <1>7. DOMAIN ledger[r] \subseteq DOMAIN ledger'[r] /\ Len(ledger[r]) <= Len(ledger'[r])
    BY <1>1, <1>2, <1>4
  <1>8. \A q \in Rows : q # r =>
          DOMAIN ledger[q] \subseteq DOMAIN ledger'[q] /\ Len(ledger[q]) <= Len(ledger'[q])
    BY <1>1, <1>2
  <1>9. Len(ledger'[r]) = Len(ledger[r]) + 1
    BY <1>2, <1>4
  <1>10. \A q \in Rows : \A k \in DOMAIN ledger[q] : ledger'[q][k] = ledger[q][k]
    BY <1>2, <1>4
  <1> QED
    BY <1>5, <1>6, <1>7, <1>8, <1>9, <1>10 DEF BookGrows

(* Settling a transaction undoes no success.                                 *)
LEMMA BookSettled ==
  ASSUME TypeInv, NEW r \in Rows, Settle(r)
  PROVE  BookGrows
  <1>1. \A q \in Rows : ledger[q] \in Seq(Outcomes) /\ Len(ledger[q]) \in Nat
    BY DEF TypeInv, StoreOK, SharedTypeOK
  <1>2. PICK k \in DOMAIN ledger[r], outcome \in {"success", "failed"} :
          ledger[r][k] = "pending" /\ ledger' = [ledger EXCEPT ![r][k] = outcome]
    BY DEF Settle
  <1>3. \A q \in Rows : q # r => ledger'[q] = ledger[q]
    BY <1>2 DEF TypeInv, StoreOK, SharedTypeOK
  <1>4. ledger'[r] = [ledger[r] EXCEPT ![k] = outcome]
    BY <1>2 DEF TypeInv, StoreOK, SharedTypeOK
  <1>5. /\ DOMAIN ledger'[r] = DOMAIN ledger[r] /\ Len(ledger'[r]) = Len(ledger[r])
        /\ \A j \in DOMAIN ledger[r] : j # k => ledger'[r][j] = ledger[r][j]
    BY <1>1, <1>4
  <1>6. Succeeded(r) => Succeeded(r)'
    BY <1>2, <1>5 DEF Succeeded
  <1>7. \A q \in Rows : q # r => (Succeeded(q) => Succeeded(q)')
    BY <1>3 DEF Succeeded
  <1>8. \A q \in Rows : \A j \in DOMAIN ledger[q] :
          ledger[q][j] # "pending" => ledger'[q][j] = ledger[q][j]
    BY <1>2, <1>3, <1>5
  <1> QED
    BY <1>1, <1>3, <1>5, <1>6, <1>7, <1>8 DEF BookGrows

(* What it takes to keep the invariant over a step.                          *)
NoNewClaim ==
  \A r \in Rows :
    /\ pg'[r].flag = "Y" => pg[r].flag = "Y" \/ Succeeded(r)
    /\ pg'[r].final = "SUCCESS" => pg[r].final = "SUCCESS" \/ Succeeded(r)
    /\ bcd'[r] = "P" => bcd[r] = "P" \/ Succeeded(r)

RecordedIdsKept ==
  /\ \A r \in Rows : pg'[r].trans = pg[r].trans
  /\ \A c \in Checkers : chk'[c].todo \subseteq chk[c].todo
  /\ \A c \in Checkers : chk'[c].pc \in {"noresponse", "query"} =>
       /\ chk[c].pc \in {"noresponse", "query"}
       /\ chk'[c].trans = chk[c].trans /\ chk'[c].row = chk[c].row

IdsKept ==
  /\ RecordedIdsKept
  /\ \A d \in Dispatchers :
       disp'[d].pc = "record" /\ disp'[d].code = REGISTERED => disp'[d] = disp[d]

ReportersKept ==
  /\ \A c \in Checkers :
       chk'[c].pc \in {"record", "writeback"} /\ chk'[c].code = SUCCESS =>
         /\ chk[c].pc \in {"record", "writeback"} /\ chk[c].code = SUCCESS
         /\ chk'[c].row = chk[c].row
  /\ \A h \in Handlers :
       hand'[h].pc # "idle" /\ hand'[h].code = SUCCESS =>
         /\ hand[h].pc # "idle" /\ hand[h].code = SUCCESS
         /\ hand'[h].row = hand[h].row

(* A step that claims no success it has not seen keeps the claims true.      *)
LEMMA ClaimsKept ==
  ASSUME NoPhantomSuccess, BookGrows, NoNewClaim
  PROVE  NoPhantomSuccess'
  BY DEF NoPhantomSuccess, BookGrows, NoNewClaim

(* Transaction ids stay valid while the book only grows, if those the        *)
(* processor is about to record do.                                          *)
LEMMA RecordedIdsCarryOver ==
  ASSUME TypeInv, TypeInv', IdsOK, BookGrows, RecordedIdsKept,
         \A d \in Dispatchers : disp'[d].pc = "record" /\ disp'[d].code = REGISTERED =>
           disp'[d].trans <= Len(ledger'[disp'[d].row])
  PROVE  IdsOK'
  <1>1. \A r \in Rows, k \in Nat : k <= Len(ledger[r]) => k <= Len(ledger'[r])
    BY DEF TypeInv, StoreOK, SharedTypeOK, BookGrows
  <1>2. \A r \in Rows : pg'[r].trans <= Len(ledger'[r])
    BY <1>1 DEF TypeInv, StoreOK, SharedTypeOK, Row, IdsOK, RecordedIdsKept
  <1>4. ASSUME NEW c \in Checkers, NEW s \in chk'[c].todo
        PROVE  s.trans <= Len(ledger'[s.row])
    <2>1. s \in chk[c].todo
      BY DEF RecordedIdsKept
    <2>2. s.row \in Rows /\ s.trans \in Nat
      BY <2>1 DEF TypeInv, ChkOK, ChkTypeOK, ChkState, Seen
    <2> QED
      BY <1>1, <2>1, <2>2 DEF IdsOK
  <1>5. ASSUME NEW c \in Checkers, chk'[c].pc \in {"noresponse", "query"}
        PROVE  chk'[c].trans <= Len(ledger'[chk'[c].row])
    <2>1. /\ chk[c].pc \in {"noresponse", "query"}
          /\ chk'[c].trans = chk[c].trans /\ chk'[c].row = chk[c].row
      BY <1>5 DEF RecordedIdsKept
    <2>2. chk[c].row \in Rows /\ chk[c].trans \in Nat
      BY <2>1 DEF TypeInv, ChkOK, ChkTypeOK, ChkState
    <2> QED
      BY <1>1, <2>1, <2>2 DEF IdsOK
  <1> QED
    BY <1>2, <1>4, <1>5 DEF IdsOK

(* So they do when the processor has taken no new one.                       *)
LEMMA IdsCarryOver ==
  ASSUME TypeInv, TypeInv', IdsOK, BookGrows, IdsKept
  PROVE  IdsOK'
  <1>1. \A r \in Rows, k \in Nat : k <= Len(ledger[r]) => k <= Len(ledger'[r])
    BY DEF TypeInv, StoreOK, SharedTypeOK, BookGrows
  <1>2. ASSUME NEW d \in Dispatchers, disp'[d].pc = "record", disp'[d].code = REGISTERED
        PROVE  disp'[d].trans <= Len(ledger'[disp'[d].row])
    <2>1. disp'[d] = disp[d]
      BY <1>2 DEF IdsKept
    <2>2. disp[d].row \in Rows /\ disp[d].trans \in Nat
      BY <1>2, <2>1 DEF TypeInv, DispOK, DispTypeOK, DispState
    <2> QED
      BY <1>1, <1>2, <2>1, <2>2 DEF IdsOK
  <1> QED
    BY <1>2, RecordedIdsCarryOver DEF IdsKept

(* Whoever has seen a success goes on having seen it.                        *)
LEMMA ReportersCarryOver ==
  ASSUME TypeInv, ReportersOK, BookGrows, ReportersKept
  PROVE  ReportersOK'
  <1>1. /\ \A c \in Checkers : chk[c].pc \in {"record", "writeback"} => chk[c].row \in Rows
        /\ \A h \in Handlers : hand[h].pc # "idle" => hand[h].row \in Rows
    BY DEF TypeInv, ChkOK, HandOK
  <1> QED
    BY <1>1 DEF ReportersOK, BookGrows, ReportersKept

-----------------------------------------------------------------------------
(* The processor claims no success at all.                                   *)

(* Every step of the processor keeps the invariant: it reports no success.   *)
LEMMA ProcessorClaims ==
  ASSUME TypeInv, TypeInv', SuccessInv, NEW d \in Dispatchers, ProcessorStep(d)
  PROVE  SuccessInv'
  <1> USE DEF SuccessInv
  <1>0. /\ disp[d] \in DispState
        /\ disp \in [Dispatchers -> DispState]
        /\ \A r \in Rows : pg[r] \in Row
        /\ pg \in [Rows -> Row]
        /\ bcd \in [Rows -> BcdStatuses]
        /\ disp[d].pc \in {"record", "writeback"} => disp[d].row \in Rows
    BY DEF TypeInv, DispOK, DispTypeOK, StoreOK, SharedTypeOK
  <1>r. ReportersKept
    BY DEF ProcessorStep, ReportersKept
  <1>i. (\A e \in Dispatchers : e # d => disp'[e] = disp[e])
    BY OtherRunsWait
  <1>l. ASSUME NEW todo, NEW spent, Loop(d, todo, spent)
        PROVE  disp'[d].pc \in {"idle", "loop"}
    BY <1>0, <1>l DEF Loop, DispIdle
  <1>k. ASSUME disp'[d].pc # "record" \/ disp'[d].code # REGISTERED,
               \A r \in Rows : pg'[r].trans = pg[r].trans
        PROVE  IdsKept
    BY <1>k, <1>i DEF IdsKept, RecordedIdsKept, ProcessorStep
  <1>s. ASSUME UNCHANGED shared
        PROVE  BookGrows /\ NoNewClaim
    BY <1>s, BookKept DEF shared, NoNewClaim
  <1>c. ASSUME BookGrows, NoNewClaim, IdsKept
        PROVE  SuccessInv'
    BY <1>c, <1>r, ClaimsKept, IdsCarryOver, ReportersCarryOver
  <1>1. CASE FetchPending(d)
    <2>1. disp'[d].pc = "fetched"
      BY <1>0, <1>1 DEF FetchPending, DispIdle
    <2> QED
      BY <1>1, <2>1, <1>k, <1>s, <1>c DEF FetchPending, shared
  <1>2. CASE DeferBatch(d) \/ DecryptFails(d)
    BY <1>2, <1>l, <1>k, <1>s, <1>c DEF DeferBatch, DecryptFails, shared
  <1>3. CASE SkipExhaustedDealer(d)
    BY <1>3, <1>l, <1>k, <1>s, <1>c DEF SkipExhaustedDealer, shared
  <1>4. CASE RechargeAccepted(d)
    <2>1. PICK s \in disp[d].todo, code \in AcceptCodes, named \in BOOLEAN :
            /\ ledger' = [ledger EXCEPT ![s.row] = Append(ledger[s.row], "pending")]
            /\ InHand(d, s, code, IF named THEN Len(ledger[s.row]) + 1 ELSE 0)
      BY <1>4, ProcessorAssumption DEF RechargeAccepted
    <2>2. s.row \in Rows
      BY <1>0 DEF DispState, Snapshot
    <2>3. BookGrows /\ Len(ledger'[s.row]) = Len(ledger[s.row]) + 1
      BY <2>1, <2>2, BookAppended
    <2>4. /\ disp'[d].row = s.row
          /\ disp'[d].trans = IF named THEN Len(ledger[s.row]) + 1 ELSE 0
      BY <1>0, <2>1 DEF InHand, DispState
    <2>5. NoNewClaim
      BY <1>4 DEF RechargeAccepted, NoNewClaim
    <2>6. ASSUME NEW e \in Dispatchers, disp'[e].pc = "record", disp'[e].code = REGISTERED
          PROVE  disp'[e].trans <= Len(ledger'[disp'[e].row])
      <3>1. Len(ledger[s.row]) \in Nat
        BY <2>2 DEF TypeInv, StoreOK, SharedTypeOK
      <3>2. CASE e = d
        BY <2>3, <2>4, <3>1, <3>2
      <3>3. CASE e # d
        <4>1. disp'[e] = disp[e]
          BY <1>i, <3>3
        <4>2. disp[e].row \in Rows /\ disp[e].trans \in Nat
          BY <2>6, <4>1 DEF TypeInv, DispOK, DispTypeOK, DispState
        <4>3. disp[e].trans <= Len(ledger[disp[e].row])
          BY <2>6, <4>1 DEF IdsOK
        <4>4. /\ Len(ledger[disp[e].row]) <= Len(ledger'[disp[e].row])
              /\ Len(ledger[disp[e].row]) \in Nat /\ Len(ledger'[disp[e].row]) \in Nat
          BY <2>3, <4>2 DEF BookGrows, TypeInv, StoreOK, SharedTypeOK
        <4> QED
          BY <4>1, <4>2, <4>3, <4>4
      <3> QED
        BY <3>2, <3>3
    <2>7. RecordedIdsKept
      BY <1>4 DEF RechargeAccepted, ProcessorStep, RecordedIdsKept
    <2>10. IdsOK'
      BY <2>3, <2>6, <2>7, RecordedIdsCarryOver
    <2> QED
      BY <2>3, <2>5, <2>10, <1>r, ClaimsKept, ReportersCarryOver
  <1>5. CASE RechargeRefused(d)
    <2>1. PICK s \in disp[d].todo, code \in RejectCodes : InHand(d, s, code, 0)
      BY <1>5 DEF RechargeRefused
    <2>2. disp'[d].code # REGISTERED
      BY <1>0, <2>1, ProcessorAssumption DEF InHand, DispState
    <2> QED
      BY <1>5, <2>2, <1>k, <1>s, <1>c DEF RechargeRefused, shared
  <1>6. CASE RecordPushed(d)
    <2>1. /\ disp[d].row \in Rows /\ disp[d].trans \in Nat
          /\ disp[d].trans <= Len(ledger[disp[d].row])
      BY <1>0, <1>6 DEF RecordPushed, DispState, IdsOK
    <2>2. /\ pg'[disp[d].row].flag = "P" /\ pg'[disp[d].row].trans = disp[d].trans
          /\ pg'[disp[d].row].final = pg[disp[d].row].final
          /\ \A r \in Rows : r # disp[d].row => pg'[r] = pg[r]
      BY <1>0, <1>6, <2>1, RowEffects DEF RecordPushed
    <2>3. BookGrows /\ NoNewClaim
      BY <1>6, <2>2, BookKept DEF RecordPushed, NoNewClaim
    <2>4. disp'[d].pc = "writeback"
      BY <1>0, <1>6 DEF RecordPushed, ToWriteback, DispState
    <2>5. ledger' = ledger /\ chk' = chk
      BY <1>6 DEF RecordPushed, ProcessorStep
    <2>7. IdsOK'
      BY <2>1, <2>2, <2>4, <2>5, <1>i DEF IdsOK
    <2> QED
      BY <2>3, <2>7, <1>r, ClaimsKept, ReportersCarryOver
  <1>7. CASE RecordFailed(d)
    <2>1. /\ \A r \in Rows : pg'[r].flag # "Y" \/ pg'[r] = pg[r]
          /\ \A r \in Rows : pg'[r].trans = pg[r].trans
          /\ \A r \in Rows : pg'[r].final = "SUCCESS" => pg[r].final = "SUCCESS"
      BY <1>0, <1>7, RowEffects, 0 \in Nat DEF RecordFailed
    <2>2. BookGrows /\ NoNewClaim
      BY <1>7, <2>1, BookKept DEF RecordFailed, NoNewClaim
    <2>3. disp'[d].pc = "writeback"
      BY <1>0, <1>7 DEF RecordFailed, ToWriteback, DispState
    <2> QED
      BY <2>1, <2>2, <2>3, <1>k, <1>c
  <1>8. CASE RecordRetry(d)
    <2>1. /\ \A r \in Rows : pg'[r].flag # "Y" \/ pg'[r] = pg[r]
          /\ \A r \in Rows : pg'[r].trans = pg[r].trans
          /\ \A r \in Rows : pg'[r].final = "SUCCESS" => pg[r].final = "SUCCESS"
      BY <1>0, <1>8, RowEffects, 0 \in Nat DEF RecordRetry, Retrying
    <2>2. BookGrows /\ NoNewClaim
      BY <1>8, <2>1, BookKept DEF RecordRetry, NoNewClaim
    <2>3. disp'[d].pc \in {"idle", "loop"}
      BY <1>8, <1>l DEF RecordRetry
    <2> QED
      BY <2>1, <2>2, <2>3, <1>k, <1>c
  <1>9. CASE RecordRetryRejected(d)
    BY <1>9, <1>l, <1>k, <1>s, <1>c DEF RecordRetryRejected, shared
  <1>10. CASE DispWriteback(d)
    <2>1. BcdAfter(disp[d].code) # "P"
      BY DEF BcdAfter, BcdStatusForPyroFailure
    <2>2. \A r \in Rows : bcd'[r] = "P" => bcd[r] = "P"
      BY <1>0, <1>10, <2>1 DEF DispWriteback, UpdateBcdStatus
    <2>3. BookGrows /\ NoNewClaim
      BY <1>10, <2>2, BookKept DEF DispWriteback, NoNewClaim
    <2>4. disp'[d].pc \in {"idle", "loop"}
      BY <1>10, <1>l DEF DispWriteback
    <2> QED
      BY <1>10, <2>3, <2>4, <1>k, <1>c DEF DispWriteback
  <1> QED
    BY <1>1, <1>2, <1>3, <1>4, <1>5, <1>6, <1>7, <1>8, <1>9, <1>10 DEF ProcessorStep, DispStep

-----------------------------------------------------------------------------
(* The status checker claims what Pyro told it.                              *)

(* Every step of the status checker does: it reports what Pyro answered.     *)
LEMMA CheckerClaims ==
  ASSUME TypeInv, TypeInv', SuccessInv, NEW c \in Checkers, CheckerStep(c)
  PROVE  SuccessInv'
  <1> USE DEF SuccessInv
  <1>0. /\ chk[c] \in ChkState
        /\ chk \in [Checkers -> ChkState]
        /\ \A r \in Rows : pg[r] \in Row
        /\ pg \in [Rows -> Row]
        /\ bcd \in [Rows -> BcdStatuses]
        /\ chk[c].pc \notin {"idle", "loop"} => chk[c].row \in Rows
    BY DEF TypeInv, ChkOK, ChkTypeOK, StoreOK, SharedTypeOK
  <1>b. ledger' = ledger /\ BookGrows
    BY BookKept DEF CheckerStep, ChkStep, FetchDue, CountAttempt, WriteNoResponse,
                    QueryStatus, RecordCheckSuccess, RecordCheckFailed, RecordNotFound,
                    RecordUnknown, RecordUnknownRejected, ChkWriteback, shared
  <1>i. (\A e \in Checkers : e # c => chk'[e] = chk[e]) /\ disp' = disp /\ hand' = hand
    BY <1>0 DEF CheckerStep, ChkStep, FetchDue, CountAttempt, WriteNoResponse,
                QueryStatus, RecordCheckSuccess, RecordCheckFailed, RecordNotFound,
                RecordUnknown, RecordUnknownRejected, ChkWriteback, ChkToWriteback, ChkLoop
  <1>l. ASSUME NEW todo \in SUBSET chk[c].todo, ChkLoop(c, todo)
        PROVE  chk'[c].pc \in {"idle", "loop"} /\ chk'[c].todo \subseteq chk[c].todo
    BY <1>0, <1>l DEF ChkLoop, ChkIdle
  <1>k. ASSUME \A r \in Rows : pg'[r].trans = pg[r].trans,
               chk'[c].todo \subseteq chk[c].todo,
               chk'[c].pc \in {"noresponse", "query"} =>
                 /\ chk[c].pc \in {"noresponse", "query"}
                 /\ chk'[c].trans = chk[c].trans /\ chk'[c].row = chk[c].row
        PROVE  IdsKept
    BY <1>k, <1>i DEF IdsKept, RecordedIdsKept
  <1>r. ASSUME chk'[c].pc \in {"record", "writeback"} /\ chk'[c].code = SUCCESS =>
                 /\ chk[c].pc \in {"record", "writeback"} /\ chk[c].code = SUCCESS
                 /\ chk'[c].row = chk[c].row
        PROVE  ReportersKept
    BY <1>r, <1>i DEF ReportersKept
  <1>s. ASSUME UNCHANGED <<pg, bcd>>
        PROVE  NoNewClaim
    BY <1>s DEF NoNewClaim
  <1>c. ASSUME NoNewClaim, IdsKept, ReportersKept
        PROVE  SuccessInv'
    BY <1>b, <1>c, ClaimsKept, IdsCarryOver, ReportersCarryOver
  <1>1. CASE FetchDue(c)
    <2>1. /\ chk'[c].pc = "loop"
          /\ chk'[c].todo = {[row |-> r, trans |-> pg[r].trans, checked |-> pg[r].checked] :
                               r \in {q \in Rows : Due(pg[q])}}
      BY <1>0, <1>1 DEF FetchDue, ChkIdle
    <2>3. pg' = pg /\ bcd' = bcd
      BY <1>1 DEF FetchDue, shared
    <2>4. \A s \in chk'[c].todo : s.trans <= Len(ledger[s.row])
      BY <2>1 DEF IdsOK
    <2>5. IdsOK'
      BY <2>1, <2>3, <2>4, <1>b, <1>i DEF IdsOK
    <2> QED
      BY <2>1, <2>3, <2>5, <1>b, <1>r, <1>s, ClaimsKept, ReportersCarryOver
  <1>2. CASE CountAttempt(c)
    <2>1. PICK s \in chk[c].todo :
            /\ pg' = [pg EXCEPT ![s.row] = UpdateStatusCheckAttempt(pg[s.row])]
            /\ chk' = [chk EXCEPT ![c] =
                 [chk[c] EXCEPT !.pc = IF s.checked THEN "query" ELSE "noresponse",
                    !.todo = chk[c].todo \ {s}, !.row = s.row, !.trans = s.trans]]
      BY <1>2 DEF CountAttempt
    <2>2. s.row \in Rows /\ s.trans <= Len(ledger[s.row])
      BY <1>0 DEF ChkState, Seen, IdsOK
    <2>3. \A r \in Rows : /\ pg'[r].trans = pg[r].trans /\ pg'[r].flag = pg[r].flag
                          /\ pg'[r].final = pg[r].final
      BY <1>0, <2>1, <2>2, RowEffects, 0 \in Nat
    <2>4. /\ chk'[c].pc \in {"query", "noresponse"} /\ chk'[c].row = s.row
          /\ chk'[c].trans = s.trans /\ chk'[c].todo = chk[c].todo \ {s}
      BY <1>0, <2>1 DEF ChkState
    <2>5. NoNewClaim
      BY <1>2, <2>3 DEF CountAttempt, NoNewClaim
    <2>6. IdsOK'
      BY <2>2, <2>3, <2>4, <1>b, <1>i DEF IdsOK
    <2> QED
      BY <2>4, <2>5, <2>6, <1>b, <1>r, ClaimsKept, ReportersCarryOver
  <1>3. CASE WriteNoResponse(c)
    <2>1. \A r \in Rows : bcd'[r] = "P" => bcd[r] = "P"
      BY <1>0, <1>3 DEF WriteNoResponse, UpdateBcdStatus
    <2>2. /\ chk'[c].pc = "query" /\ chk'[c].row = chk[c].row
          /\ chk'[c].trans = chk[c].trans /\ chk'[c].todo = chk[c].todo
      BY <1>0, <1>3 DEF WriteNoResponse, ChkState
    <2>3. NoNewClaim
      BY <1>3, <2>1 DEF WriteNoResponse, NoNewClaim
    <2> QED
      BY <1>3, <2>2, <2>3, <1>k, <1>r, <1>c DEF WriteNoResponse
  <1>4. CASE QueryStatus(c)
    <2>1. PICK code \in Answers(chk[c].row, chk[c].trans) :
            chk' = [chk EXCEPT ![c].pc = "record", ![c].code = code]
      BY <1>4 DEF QueryStatus
    <2>2. /\ chk'[c].pc = "record" /\ chk'[c].row = chk[c].row
          /\ chk'[c].code = code /\ chk'[c].todo = chk[c].todo
      BY <1>0, <2>1 DEF ChkState
    <2>3. /\ chk[c].row \in Rows /\ chk[c].trans \in Nat
          /\ chk[c].trans <= Len(ledger[chk[c].row])
      BY <1>0, <1>4 DEF QueryStatus, IdsOK, ChkState
    <2>5. ASSUME code = SUCCESS
          PROVE  /\ chk[c].trans # 0
                 /\ ledger[chk[c].row][chk[c].trans] = "success"
      BY <2>1, <2>5, CheckerAssumption DEF Answers, SUCCESS, TXN_FAILED, NOT_FOUND, NO_ANSWER
    <2>7. ASSUME chk[c].trans # 0
          PROVE  chk[c].trans \in DOMAIN ledger[chk[c].row]
      <3>1. ledger[chk[c].row] \in Seq(Outcomes)
        BY <2>3 DEF TypeInv, StoreOK, SharedTypeOK
      <3> QED
        BY <2>3, <2>7, <3>1
    <2>4. code = SUCCESS => Succeeded(chk[c].row)
      BY <2>3, <2>5, <2>7 DEF Succeeded
    <2>6. pg' = pg /\ bcd' = bcd
      BY <1>4 DEF QueryStatus, shared
    <2>8. ReportersOK'
      BY <1>b, <1>i, <2>2, <2>4 DEF ReportersOK, Succeeded
    <2>9. IdsKept
      BY <2>2, <2>6, <1>k
    <2> QED
      BY <2>6, <2>8, <2>9, <1>b, <1>s, ClaimsKept, IdsCarryOver
  <1>5. CASE RecordCheckSuccess(c)
    <2>1. chk[c].row \in Rows /\ Succeeded(chk[c].row)
      BY <1>0, <1>5 DEF RecordCheckSuccess, ReportersOK
    <2>2. /\ \A r \in Rows : r # chk[c].row => pg'[r] = pg[r]
          /\ pg'[chk[c].row].flag = "Y" /\ pg'[chk[c].row].trans = pg[chk[c].row].trans
      BY <1>0, <1>5, <2>1, RowEffects, 0 \in Nat DEF RecordCheckSuccess
    <2>3. /\ chk'[c].pc = "writeback" /\ chk'[c].row = chk[c].row
          /\ chk'[c].code = chk[c].code /\ chk'[c].todo = chk[c].todo
      BY <1>0, <1>5 DEF RecordCheckSuccess, ChkToWriteback, ChkState
    <2>4. NoNewClaim
      BY <1>5, <2>1, <2>2 DEF RecordCheckSuccess, NoNewClaim
    <2> QED
      BY <1>5, <2>2, <2>3, <2>4, <1>k, <1>r, <1>c DEF RecordCheckSuccess
  <1>6. ASSUME \/ RecordCheckFailed(c) \/ RecordNotFound(c) \/ RecordUnknown(c)
        PROVE  /\ \A r \in Rows : pg'[r].trans = pg[r].trans
               /\ NoNewClaim
    <2>1. chk[c].row \in Rows
      BY <1>0, <1>6 DEF RecordCheckFailed, RecordNotFound, RecordUnknown, Requeueing
    <2>2. \A r \in Rows : /\ pg'[r].trans = pg[r].trans
                          /\ pg'[r].flag = "Y" => pg[r].flag = "Y"
                          /\ pg'[r].final = "SUCCESS" => pg[r].final = "SUCCESS"
      BY <1>0, <1>6, <2>1, RowEffects, 0 \in Nat
         DEF RecordCheckFailed, RecordNotFound, RecordUnknown
    <2>3. bcd' = bcd
      BY <1>6 DEF RecordCheckFailed, RecordNotFound, RecordUnknown
    <2> QED
      BY <2>2, <2>3 DEF NoNewClaim
  <1>7. CASE RecordCheckFailed(c) \/ RecordUnknown(c)
    <2>1. /\ chk'[c].pc = "writeback" /\ chk'[c].todo = chk[c].todo
          /\ chk'[c].row = chk[c].row /\ chk'[c].code = chk[c].code
          /\ chk[c].pc = "record"
      BY <1>0, <1>7 DEF RecordCheckFailed, RecordUnknown, Requeueing, ChkToWriteback, ChkState
    <2> QED
      BY <1>6, <1>7, <2>1, <1>k, <1>r, <1>c
  <1>8. CASE RecordNotFound(c)
    <2>1. chk'[c].pc \in {"idle", "loop"} /\ chk'[c].todo \subseteq chk[c].todo
      BY <1>8, <1>l DEF RecordNotFound
    <2> QED
      BY <1>6, <1>8, <2>1, <1>k, <1>r, <1>c
  <1>9. CASE RecordUnknownRejected(c)
    <2>1. chk'[c].pc \in {"idle", "loop"} /\ chk'[c].todo \subseteq chk[c].todo
      BY <1>9, <1>l DEF RecordUnknownRejected
    <2> QED
      BY <1>9, <2>1, <1>k, <1>r, <1>s, <1>c DEF RecordUnknownRejected, shared
  <1>10. CASE ChkWriteback(c)
    <2>1. chk'[c].pc \in {"idle", "loop"} /\ chk'[c].todo \subseteq chk[c].todo
      BY <1>10, <1>l DEF ChkWriteback
    <2>2. \A r \in Rows : bcd'[r] = "P" => bcd[r] = "P" \/ Succeeded(r)
      BY <1>0, <1>10 DEF ChkWriteback, UpdateBcdStatus, ReportersOK
    <2>3. NoNewClaim
      BY <1>10, <2>2 DEF ChkWriteback, NoNewClaim
    <2> QED
      BY <1>10, <2>1, <2>3, <1>k, <1>r, <1>c DEF ChkWriteback
  <1> QED
    BY <1>1, <1>2, <1>3, <1>4, <1>5, <1>7, <1>8, <1>9, <1>10 DEF CheckerStep, ChkStep

-----------------------------------------------------------------------------
(* A callback claims what Pyro reported.                                     *)

(* Every step of a callback handler does: it reports what Pyro sent.         *)
LEMMA CallbackClaims ==
  ASSUME TypeInv, TypeInv', SuccessInv, NEW h \in Handlers, CallbackStep(h)
  PROVE  SuccessInv'
  <1> USE DEF SuccessInv
  <1>0. /\ hand[h] \in HandState
        /\ hand \in [Handlers -> HandState]
        /\ \A r \in Rows : pg[r] \in Row
        /\ pg \in [Rows -> Row]
        /\ bcd \in [Rows -> BcdStatuses]
        /\ hand[h].pc # "idle" => hand[h].row \in Rows
    BY DEF TypeInv, HandOK, HandTypeOK, StoreOK, SharedTypeOK
  <1>b. ledger' = ledger /\ BookGrows
    BY BookKept DEF CallbackStep, HandStep, Receive, RecordCallback, HandWriteback, shared
  <1>i. (\A e \in Handlers : e # h => hand'[e] = hand[e]) /\ disp' = disp /\ chk' = chk
    BY <1>0 DEF CallbackStep, HandStep, Receive, RecordCallback, HandWriteback
  <1>k. ASSUME \A r \in Rows : pg'[r].trans = pg[r].trans
        PROVE  IdsOK'
    BY <1>k, <1>i, <1>b, IdsCarryOver DEF IdsKept, RecordedIdsKept
  <1>1. CASE Receive(h)
    <2>1. pg' = pg /\ bcd' = bcd
      BY <1>1 DEF Receive, shared
    <2>2. hand'[h].code = SUCCESS => Succeeded(hand'[h].row)
      <3>1. PICK r \in Rows :
              /\ pg[r].trans \in DOMAIN ledger[r]
              /\ \/ /\ ledger[r][pg[r].trans] = "success"
                    /\ hand' = [hand EXCEPT ![h] = [pc |-> "record", row |-> r, code |-> SUCCESS]]
                 \/ \E code \in FailureCodes :
                      hand' = [hand EXCEPT ![h] = [pc |-> "record", row |-> r, code |-> code]]
        BY <1>1 DEF Receive
      <3>2. CASE ledger[r][pg[r].trans] = "success" /\ hand'[h].row = r
        BY <3>1, <3>2 DEF Succeeded
      <3>3. CASE \E code \in FailureCodes : hand'[h].code = code
        BY <3>3, CallbackAssumption
      <3> QED
        BY <1>0, <3>1, <3>2, <3>3
    <2>3. ReportersOK'
      BY <2>2, <1>b, <1>i DEF ReportersOK, Succeeded
    <2> QED
      BY <2>1, <2>3, <1>b, <1>k, ClaimsKept DEF NoNewClaim
  <1>2. CASE RecordCallback(h)
    <2>1. hand[h].row \in Rows /\ (hand[h].code = SUCCESS => Succeeded(hand[h].row))
      BY <1>0, <1>2 DEF RecordCallback, ReportersOK
    <2>2. /\ \A r \in Rows : r # hand[h].row => pg'[r] = pg[r]
          /\ pg'[hand[h].row].trans = pg[hand[h].row].trans
          /\ pg'[hand[h].row].flag \in {"Y", "F"}
          /\ hand[h].code # SUCCESS => /\ pg'[hand[h].row].flag = "F"
                                       /\ pg'[hand[h].row].final = "FAILED"
      <3>1. pg[hand[h].row] \in Row
        BY <1>0, <2>1
      <3>2. pg' = [pg EXCEPT ![hand[h].row] =
                     IF hand[h].code = SUCCESS THEN MarkAsSuccess(pg[hand[h].row])
                     ELSE MarkAsFailed(pg[hand[h].row])]
        BY <1>2 DEF RecordCallback
      <3> QED
        BY <1>0, <2>1, <3>1, <3>2, RowEffects, 0 \in Nat
    <2>3. hand'[h].row = hand[h].row /\ hand'[h].code = hand[h].code
      BY <1>0, <1>2 DEF RecordCallback, HandState
    <2>4. NoNewClaim
      BY <1>2, <2>1, <2>2 DEF RecordCallback, NoNewClaim
    <2>5. ReportersKept
      BY <1>2, <1>i, <2>3 DEF RecordCallback, ReportersKept
    <2>6. IdsOK'
      BY <1>k, <2>2
    <2> QED
      BY <1>b, <2>4, <2>5, <2>6, ClaimsKept, ReportersCarryOver
  <1>3. CASE HandWriteback(h)
    <2>1. hand[h].row \in Rows /\ (hand[h].code = SUCCESS => Succeeded(hand[h].row))
      BY <1>0, <1>3 DEF HandWriteback, ReportersOK
    <2>2. BcdStatusForPyroFailure(hand[h].code) # "P"
      BY DEF BcdStatusForPyroFailure
    <2>3. \A r \in Rows : bcd'[r] = "P" => bcd[r] = "P" \/ Succeeded(r)
      BY <1>0, <1>3, <2>1, <2>2 DEF HandWriteback, UpdateBcdStatus
    <2>4. hand'[h].pc = "idle"
      BY <1>0, <1>3 DEF HandWriteback, HandIdle
    <2>5. NoNewClaim /\ ReportersKept
      BY <1>3, <1>i, <2>3, <2>4 DEF HandWriteback, NoNewClaim, ReportersKept
    <2>6. pg' = pg
      BY <1>3 DEF HandWriteback
    <2>7. IdsOK'
      BY <1>k, <2>6
    <2> QED
      BY <1>b, <2>5, <2>7, ClaimsKept, ReportersCarryOver
  <1> QED
    BY <1>1, <1>2, <1>3 DEF CallbackStep, HandStep

-----------------------------------------------------------------------------
(* Pyro, the clock and the aborts claim nothing.                             *)

(* Every step of Pyro and of the clock does.                                 *)
LEMMA EnvironmentClaims ==
  ASSUME TypeInv, TypeInv', SuccessInv, Environment
  PROVE  SuccessInv'
  <1> USE DEF SuccessInv
  <1>1. PICK r \in Rows : Settle(r) \/ Ripen(r) \/ Lapse(r) \/ LinkBcd(r)
    BY DEF Environment
  <1>2. BookGrows
    <2>1. CASE Settle(r)
      BY <2>1, BookSettled
    <2>2. CASE Ripen(r) \/ Lapse(r) \/ LinkBcd(r)
      BY <2>2, BookKept DEF Ripen, Lapse, LinkBcd
    <2> QED
      BY <1>1, <2>1, <2>2
  <1>3. \A q \in Rows : /\ pg'[q].trans = pg[q].trans /\ pg'[q].flag = pg[q].flag
                        /\ pg'[q].final = pg[q].final
    <2>1. pg \in [Rows -> Row]
      BY DEF TypeInv, StoreOK, SharedTypeOK
    <2>2. CASE Settle(r) \/ LinkBcd(r)
      BY <2>2 DEF Settle, LinkBcd
    <2>3. ASSUME NEW age, pg' = [pg EXCEPT ![r].age = age]
          PROVE  \A q \in Rows : /\ pg'[q].trans = pg[q].trans /\ pg'[q].flag = pg[q].flag
                                 /\ pg'[q].final = pg[q].final
      <3>1. pg' = [pg EXCEPT ![r] = [pg[r] EXCEPT !.age = age]]
        BY <2>1, <2>3
      <3> QED
        BY <2>1, <3>1 DEF Row
    <2>4. CASE Ripen(r) \/ Lapse(r)
      BY <2>3, <2>4 DEF Ripen, Lapse
    <2> QED
      BY <1>1, <2>2, <2>4
  <1>4. \A q \in Rows : bcd'[q] = "P" => bcd[q] = "P"
    <2>1. bcd \in [Rows -> BcdStatuses]
      BY DEF TypeInv, StoreOK, SharedTypeOK
    <2> QED
      BY <1>1, <2>1 DEF Settle, Ripen, Lapse, LinkBcd
  <1>5. NoNewClaim /\ IdsKept /\ ReportersKept
    BY <1>3, <1>4 DEF Environment, NoNewClaim, IdsKept, RecordedIdsKept, ReportersKept
  <1> QED
    BY <1>2, <1>5, ClaimsKept, IdsCarryOver, ReportersCarryOver

(* A job or handler cut short forgets what it was about to report.           *)
LEMMA AbortClaims ==
  ASSUME TypeInv, TypeInv', SuccessInv, Abort
  PROVE  SuccessInv'
  <1> USE DEF SuccessInv
  <1>1. /\ pg' = pg /\ bcd' = bcd /\ ledger' = ledger
        /\ \A d \in Dispatchers : disp'[d] = disp[d] \/ disp'[d] = DispIdle
        /\ \A c \in Checkers : chk'[c] = chk[c] \/ chk'[c] = ChkIdle
        /\ \A h \in Handlers : hand'[h] = hand[h] \/ hand'[h] = HandIdle
    BY DEF Abort, DispAbort, ChkAbort, HandAbort, TypeInv, DispOK, DispTypeOK,
           ChkOK, ChkTypeOK, HandOK, HandTypeOK
  <1>2. BookGrows /\ NoNewClaim
    BY <1>1, BookKept DEF NoNewClaim
  <1>3. IdsKept
    BY <1>1 DEF IdsKept, RecordedIdsKept, DispIdle, ChkIdle
  <1>4. ReportersKept
    BY <1>1 DEF ReportersKept, ChkIdle, HandIdle
  <1> QED
    BY <1>2, <1>3, <1>4, ClaimsKept, IdsCarryOver, ReportersCarryOver

(* Nothing is reported at first.                                             *)
LEMMA InitClaims == Init => SuccessInv
  <1> SUFFICES ASSUME Init PROVE SuccessInv
    OBVIOUS
  <1>1. NoPhantomSuccess
    BY DEF Init, SharedInit, NewRow, NoPhantomSuccess
  <1>2. IdsOK
    BY DEF Init, SharedInit, DispInit, ChkInit, NewRow, DispIdle, ChkIdle, IdsOK
  <1>3. ReportersOK
    BY DEF Init, ChkInit, HandInit, ChkIdle, HandIdle, ReportersOK
  <1> QED
    BY <1>1, <1>2, <1>3 DEF SuccessInv

(* Every step keeps the invariant.                                           *)
LEMMA NextClaims == TypeInv /\ TypeInv' /\ SuccessInv /\ [Next]_vars => SuccessInv'
  <1> SUFFICES ASSUME TypeInv, TypeInv', SuccessInv, [Next]_vars PROVE SuccessInv'
    OBVIOUS
  <1>1. CASE Next
    BY <1>1, EnvironmentClaims, ProcessorClaims, CheckerClaims, CallbackClaims, AbortClaims
       DEF Next
  <1>2. CASE UNCHANGED vars
    BY <1>2 DEF vars, shared, SuccessInv, NoPhantomSuccess, IdsOK, ReportersOK, Succeeded
  <1> QED
    BY <1>1, <1>2

(* A row at Y, a final_status SUCCESS and a BCD record at P each stand for a *)
(* transaction Pyro carried out: no overlap of runs, lost answer, repeated   *)
(* callback or crash makes the service report a recharge that did not happen. *)
THEOREM NoPhantomSuccessHolds == Spec => []NoPhantomSuccess
  <1>1. SuccessInv => NoPhantomSuccess
    BY DEF SuccessInv
  <1>2. Init => TypeInv /\ SuccessInv
    BY InitTyped, InitClaims
  <1>3. TypeInv /\ SuccessInv /\ [Next]_vars => TypeInv' /\ SuccessInv'
    BY NextTyped, NextClaims
  <1> QED
    BY <1>1, <1>2, <1>3, PTL DEF Spec
=============================================================================
