---------------------------- MODULE VerdictProofs ----------------------------
(* When every status check tells something of the transaction it asks about, *)
(* the rows follow the state machine of the schema, Y and F are final, F in  *)
(* BCD means given up, and, with no refusal that is always retried, E means  *)
(* retried; answers may get lost and runs be cut short all the same.         *)
EXTENDS SuccessProofs, DocClaims

(* Every status check tells something of the transaction it asks about, and  *)
(* only the answer to a POST may come without an id.  Such a row cannot be   *)
(* checked, so then the checker must not overlap itself either.              *)
ChecksTell == CheckErrors = {} /\ OneProcessor /\ (IdMayBeMissing => OneRunEach)

(* Pyro has settled the recorded transaction of row r.                       *)
Told(r, o) == pg[r].trans # 0 /\ ledger[r][pg[r].trans] = o

(* A row is queued without a transaction, and a verdict is that of the       *)
(* recorded transaction, if there is one.                                    *)
FlagTrue(r) ==
  /\ Open(r) => pg[r].trans = 0
  /\ pg[r].flag = "Y" => Told(r, "success")
  /\ pg[r].flag = "F" => pg[r].trans = 0 \/ Told(r, "failed")
  /\ pg[r].flag = "P" => pg[r].trans # 0 \/ IdMayBeMissing

DispTrue(d) ==
  /\ \A r \in Rows : Holds(d, r) => Open(r)
  /\ disp[d].pc = "record" /\ disp[d].code = REGISTERED => disp[d].trans # 0 \/ IdMayBeMissing

(* What a checker knows of a row it has fetched.                             *)
Checkable(r, k) == ~Open(r) /\ pg[r].trans = k /\ (k = 0 => pg[r].flag = "P")

ChkTrue(c) ==
  /\ \A s \in chk[c].todo : Checkable(s.row, s.trans)
  /\ chk[c].pc \in {"noresponse", "query", "record"} => Checkable(chk[c].row, chk[c].trans)
  /\ chk[c].pc = "record" =>
       \/ chk[c].code = SUCCESS /\ Told(chk[c].row, "success")
       \/ chk[c].code = TXN_FAILED /\ Told(chk[c].row, "failed")
       \/ chk[c].code = NOT_FOUND
       \/ chk[c].code = NO_ANSWER /\ chk[c].trans = 0

HandTrue(h) ==
  hand[h].pc = "record" =>
    /\ ~Open(hand[h].row)
    /\ Told(hand[h].row, IF hand[h].code = SUCCESS THEN "success" ELSE "failed")

VerdictInv ==
  /\ \A r \in Rows : FlagTrue(r)
  /\ \A d \in Dispatchers : DispTrue(d)
  /\ \A c \in Checkers : ChkTrue(c)
  /\ \A h \in Handlers : HandTrue(h)

(* What a step may do to a row that has left the queue.                      *)
Stays(r) == pg'[r].flag = pg[r].flag /\ pg'[r].trans = pg[r].trans

Confirmed(r) ==
  /\ ~Open(r) /\ pg'[r].trans = pg[r].trans
  /\ \/ pg'[r].flag = "Y" /\ Told(r, "success")
     \/ pg'[r].flag = "F" /\ Told(r, "failed")

VerdictStep(r) == Stays(r) \/ Confirmed(r)

VerdictsKept == \A r \in Rows : pg[r].flag \in Terminal => pg'[r].flag = pg[r].flag

(* Pyro does not change its mind about a transaction.                        *)
LEMMA TellsOn ==
  ASSUME TypeInv, IdsOK, BookGrows, NEW r \in Rows, pg'[r].trans = pg[r].trans,
         NEW o \in {"success", "failed"}, Told(r, o)
  PROVE  Told(r, o)'
  <1>1. pg[r].trans \in Nat /\ pg[r].trans # 0 /\ pg[r].trans <= Len(ledger[r])
    BY DEF TypeInv, StoreOK, SharedTypeOK, Row, IdsOK, Told
  <1>2. ledger[r] \in Seq(Outcomes)
    BY DEF TypeInv, StoreOK, SharedTypeOK
  <1>3. pg[r].trans \in DOMAIN ledger[r] /\ ledger[r][pg[r].trans] # "pending"
    BY <1>1, <1>2 DEF Told
  <1> QED
    BY <1>3 DEF BookGrows, Told

(* What is known of a row goes on being so.                                  *)
LEMMA RowTellsOn ==
  ASSUME TypeInv, IdsOK, BookGrows, NEW r \in Rows, FlagTrue(r), VerdictStep(r)
  PROVE  /\ FlagTrue(r)'
         /\ Open(r)' <=> Open(r)
         /\ \A k : Checkable(r, k) => Checkable(r, k)'
         /\ Told(r, "success") => Told(r, "success")'
         /\ Told(r, "failed") => Told(r, "failed")'
         /\ pg[r].flag \in Terminal => pg'[r].flag = pg[r].flag
  <1>1. pg'[r].trans = pg[r].trans
    BY DEF VerdictStep, Stays, Confirmed
  <1>2. /\ Told(r, "success") => Told(r, "success")'
        /\ Told(r, "failed") => Told(r, "failed")'
    BY <1>1, TellsOn
  <1>3. CASE Stays(r)
    BY <1>2, <1>3 DEF Stays, FlagTrue, Checkable, Open
  <1>4. CASE Confirmed(r)
    BY <1>2, <1>4 DEF Confirmed, FlagTrue, Checkable, Open, Told, Terminal
  <1> QED
    BY <1>2, <1>3, <1>4 DEF VerdictStep

(* A step that does no more than that to the rows out of the queue is none   *)
(* of the business of the checkers and handlers that did not take it.        *)
LEMMA OthersTellOn ==
  ASSUME TypeInv, IdsOK, VerdictInv, BookGrows, \A r \in Rows : Open(r) \/ VerdictStep(r)
  PROVE  /\ \A c \in Checkers : chk'[c] = chk[c] => ChkTrue(c)'
         /\ \A h \in Handlers : hand'[h] = hand[h] => HandTrue(h)'
         /\ \A r \in Rows : VerdictStep(r) => FlagTrue(r)' /\ (Open(r)' <=> Open(r))
         /\ VerdictsKept
  <1>0. \A r \in Rows : FlagTrue(r)
    BY DEF VerdictInv
  <1>1. \A r \in Rows : ~Open(r) =>
          /\ ~Open(r)'
          /\ \A k : Checkable(r, k) => Checkable(r, k)'
          /\ Told(r, "success") => Told(r, "success")'
          /\ Told(r, "failed") => Told(r, "failed")'
          /\ pg[r].flag \in Terminal => pg'[r].flag = pg[r].flag
    BY <1>0, RowTellsOn
  <1>2. ASSUME NEW c \in Checkers, chk'[c] = chk[c]
        PROVE  ChkTrue(c)'
    <2>1. /\ \A s \in chk[c].todo : s.row \in Rows
          /\ chk[c].pc \in {"noresponse", "query", "record"} => chk[c].row \in Rows
      BY DEF TypeInv, ChkOK, ChkTypeOK, ChkState, Seen
    <2>2. ChkTrue(c)
      BY DEF VerdictInv
    <2>3. \A r \in Rows : \A k : Checkable(r, k) => Checkable(r, k)'
      BY <1>1 DEF Checkable
    <2> QED
      BY <1>1, <1>2, <2>1, <2>2, <2>3 DEF ChkTrue, Checkable
  <1>3. ASSUME NEW h \in Handlers, hand'[h] = hand[h]
        PROVE  HandTrue(h)'
    <2>1. hand[h].pc = "record" => hand[h].row \in Rows
      BY DEF TypeInv, HandOK
    <2>2. HandTrue(h)
      BY DEF VerdictInv
    <2> QED
      BY <1>1, <1>3, <2>1, <2>2 DEF HandTrue
  <1>4. \A r \in Rows : VerdictStep(r) => FlagTrue(r)' /\ (Open(r)' <=> Open(r))
    BY <1>0, RowTellsOn
  <1>5. VerdictsKept
    BY <1>1 DEF VerdictsKept, Open, Terminal
  <1> QED
    BY <1>2, <1>3, <1>4, <1>5

(* What the processor does to its row leaves the queue one way or the other. *)
LEMMA ProcessorTells ==
  ASSUME ChecksTell, TypeInv, BatchOK, IdsOK, VerdictInv, NEW d \in Dispatchers, ProcessorStep(d)
  PROVE  VerdictInv' /\ VerdictsKept
  <1>0. /\ disp \in [Dispatchers -> DispState] /\ disp[d] \in DispState
        /\ pg \in [Rows -> Row] /\ (\A r \in Rows : pg[r] \in Row)
        /\ ledger \in [Rows -> Seq(Outcomes)]
        /\ disp[d].pc \in {"record", "writeback"} => disp[d].row \in Rows
        /\ \A s \in disp[d].todo : s.row \in Rows
        /\ \A e \in Dispatchers : e = d
        /\ DispTrue(d) /\ (\A r \in Rows : FlagTrue(r))
    BY DEF TypeInv, DispOK, DispTypeOK, DispState, Snapshot, StoreOK, SharedTypeOK,
           ChecksTell, OneProcessor, VerdictInv
  <1>1. chk' = chk /\ hand' = hand
    BY DEF ProcessorStep
  <1>2. BookGrows
    <2>1. CASE RechargeAccepted(d)
      <3>1. PICK s \in disp[d].todo :
              ledger' = [ledger EXCEPT ![s.row] = Append(ledger[s.row], "pending")]
        BY <2>1 DEF RechargeAccepted
      <3> QED
        BY <1>0, <3>1, BookAppended
    <2>2. CASE ledger' = ledger
      BY <2>2, BookKept
    <2> QED
      BY <2>1, <2>2 DEF ProcessorStep, DispStep, FetchPending, DeferBatch, DecryptFails,
         SkipExhaustedDealer, RechargeRefused, RecordPushed, RecordFailed, RecordRetry,
         RecordRetryRejected, DispWriteback, shared
  <1>k. ASSUME pg' = pg, DispTrue(d)'
        PROVE  VerdictInv' /\ VerdictsKept
    <2>1. \A r \in Rows : VerdictStep(r)
      BY <1>k DEF VerdictStep, Stays
    <2> QED
      BY <1>0, <1>1, <1>2, <1>k, <2>1, OthersTellOn DEF VerdictInv
  <1>m. ASSUME NEW q \in Rows, Open(q), \A r \in Rows : r # q => pg'[r] = pg[r],
               FlagTrue(q)', DispTrue(d)'
        PROVE  VerdictInv' /\ VerdictsKept
    <2>1. \A r \in Rows : r # q => VerdictStep(r)
      BY <1>m DEF VerdictStep, Stays
    <2>2. \A r \in Rows : Open(r) \/ VerdictStep(r)
      BY <1>m, <2>1
    <2>3. \A r \in Rows : FlagTrue(r)'
      BY <1>2, <1>m, <2>1, <2>2, OthersTellOn
    <2> QED
      BY <1>0, <1>1, <1>2, <1>m, <2>2, <2>3, OthersTellOn DEF VerdictInv
  <1>l. ASSUME NEW todo \in SUBSET disp[d].todo, NEW spent, Loop(d, todo, spent)
        PROVE  /\ disp'[d].todo = todo /\ disp'[d].pc # "record"
               /\ \A r \in Rows : Holds(d, r)' => \E s \in todo : s.row = r
    <2>1. disp'[d] = IF todo = {} THEN DispIdle
                     ELSE [DispIdle EXCEPT !.pc = "loop", !.todo = todo, !.spent = spent]
      BY <1>0, <1>l DEF Loop
    <2>2. disp'[d].todo = todo /\ disp'[d].pc # "record"
      BY <2>1 DEF DispIdle
    <2> QED
      BY <2>2 DEF Holds
  <1>v. ASSUME pg' = pg, NEW todo \in SUBSET disp[d].todo, NEW spent, Loop(d, todo, spent)
        PROVE  VerdictInv' /\ VerdictsKept
    <2>1. DispTrue(d)'
      BY <1>0, <1>l, <1>v DEF DispTrue, Holds, Open
    <2> QED
      BY <1>k, <1>v, <2>1
  <1>3. CASE FetchPending(d)
    <2>1. PICK B \in SUBSET Rows :
            /\ IsBatch(B)
            /\ disp' = [disp EXCEPT ![d] = [DispIdle EXCEPT !.pc = "fetched",
                 !.todo = {[row |-> r, retry |-> pg[r].retry] : r \in B}]]
      BY <1>3 DEF FetchPending
    <2>2. /\ disp'[d].todo = {[row |-> r, retry |-> pg[r].retry] : r \in B}
          /\ disp'[d].pc = "fetched"
      BY <1>0, <2>1 DEF DispIdle
    <2>3. pg' = pg
      BY <1>3 DEF FetchPending, shared
    <2>4. \A r \in B : Open(r)
      BY <2>1 DEF IsBatch, Pending, Open
    <2>5. \A r \in Rows : Holds(d, r)' => r \in B
      BY <2>2 DEF Holds
    <2>6. DispTrue(d)'
      BY <2>2, <2>3, <2>4, <2>5 DEF DispTrue, Open
    <2> QED
      BY <1>k, <2>3, <2>6
  <1>4. CASE DeferBatch(d) \/ DecryptFails(d) \/ SkipExhaustedDealer(d) \/ RecordRetryRejected(d)
             \/ DispWriteback(d)
    <2>1. pg' = pg /\ \E todo \in SUBSET disp[d].todo : \E spent : Loop(d, todo, spent)
      BY <1>4 DEF DeferBatch, DecryptFails, SkipExhaustedDealer, RecordRetryRejected, DispWriteback, shared
    <2> QED
      BY <1>v, <2>1
  <1>5. CASE RechargeAccepted(d) \/ RechargeRefused(d)
    <2>1. PICK s \in disp[d].todo : \E code, trans :
            /\ InHand(d, s, code, trans)
            /\ code = REGISTERED => trans # 0 \/ IdMayBeMissing
      <3>1. CASE RechargeAccepted(d)
        <4>1. PICK s \in disp[d].todo, code \in AcceptCodes, named \in {TRUE, ~IdMayBeMissing} :
                s.row \in Rows /\ InHand(d, s, code, IF named THEN Len(ledger[s.row]) + 1 ELSE 0)
          BY <1>0, <3>1 DEF RechargeAccepted
        <4>2. Len(ledger[s.row]) \in Nat
          BY <1>0, <4>1
        <4>3. (IF named THEN Len(ledger[s.row]) + 1 ELSE 0) # 0 \/ IdMayBeMissing
          <5>1. CASE named
            BY <4>2, <5>1
          <5>2. CASE ~named
            BY <5>2, ProcessorAssumption
          <5> QED
            BY <5>1, <5>2
        <4> QED
          BY <4>1, <4>3
      <3>2. CASE RechargeRefused(d)
        BY <3>2, ProcessorAssumption DEF RechargeRefused
      <3> QED
        BY <1>5, <3>1, <3>2
    <2>2. PICK code, trans : /\ InHand(d, s, code, trans)
                             /\ code = REGISTERED => trans # 0 \/ IdMayBeMissing
      BY <2>1
    <2>3. /\ disp'[d].todo = disp[d].todo \ {s} /\ disp'[d].row = s.row
          /\ disp'[d].code = code /\ disp'[d].trans = trans
      BY <1>0, <2>2 DEF InHand, DispState
    <2>4. pg' = pg
      BY <1>5 DEF RechargeAccepted, RechargeRefused, shared
    <2>5. \A r \in Rows : Holds(d, r)' => Holds(d, r)
      BY <2>3 DEF Holds
    <2>6. DispTrue(d)'
      BY <1>0, <2>2, <2>3, <2>4, <2>5 DEF DispTrue, Open
    <2> QED
      BY <1>k, <2>4, <2>6
  <1>6. CASE RecordPushed(d) \/ RecordFailed(d)
    <2>q. PICK q \in Rows : q = disp[d].row
      BY <1>0, <1>6 DEF RecordPushed, RecordFailed
    <2>1. /\ disp[d].pc = "record" /\ disp[d].row = q /\ disp[d].trans \in Nat
          /\ Holds(d, q) /\ Open(q)
      BY <1>0, <1>6, <2>q DEF RecordPushed, RecordFailed, DispState, DispTrue, Holds
    <2>2. /\ disp'[d].todo = disp[d].todo /\ disp'[d].pc = "writeback"
      BY <1>0, <1>6 DEF RecordPushed, RecordFailed, ToWriteback, DispState
    <2>3. /\ \A r \in Rows : r # q => pg'[r] = pg[r]
          /\ \/ /\ pg'[q].flag = "P" /\ pg'[q].trans = disp[d].trans
                /\ disp[d].code = REGISTERED
             \/ pg'[q].flag = "F" /\ pg'[q].trans = pg[q].trans
      BY <1>0, <1>6, <2>1, RowEffects DEF RecordPushed, RecordFailed
    <2>4. FlagTrue(q)'
      BY <1>0, <2>1, <2>3 DEF FlagTrue, DispTrue, Open
    <2>5. \A r \in Rows : Holds(d, r)' => Holds(d, r) /\ r # q
      BY <2>1, <2>2 DEF Holds, BatchOK
    <2>6. DispTrue(d)'
      BY <1>0, <2>2, <2>3, <2>5 DEF DispTrue, Open
    <2> QED
      BY <1>m, <2>1, <2>3, <2>4, <2>6
  <1>7. CASE RecordRetry(d)
    <2>q. PICK q \in Rows : q = disp[d].row
      BY <1>0, <1>7 DEF RecordRetry, Retrying
    <2>1. /\ disp[d].pc = "record" /\ disp[d].row = q
          /\ Holds(d, q) /\ Open(q)
      BY <1>0, <1>7, <2>q DEF RecordRetry, Retrying, DispTrue, Holds
    <2>2. PICK todo \in SUBSET disp[d].todo : \E spent : Loop(d, todo, spent)
      BY <1>7 DEF RecordRetry
    <2>3. /\ disp'[d].todo = todo /\ disp'[d].pc # "record"
          /\ \A r \in Rows : Holds(d, r)' => \E s \in todo : s.row = r
      BY <1>l, <2>2
    <2>4. /\ \A r \in Rows : r # q => pg'[r] = pg[r]
          /\ pg'[q].flag = "E" /\ pg'[q].trans = pg[q].trans
      BY <1>0, <1>7, <2>1, RowEffects, 0 \in Nat DEF RecordRetry
    <2>5. FlagTrue(q)'
      BY <1>0, <2>1, <2>4 DEF FlagTrue, Open
    <2>6. \A r \in Rows : Holds(d, r)' => Holds(d, r) /\ r # q
      BY <2>1, <2>3 DEF Holds, BatchOK
    <2>7. DispTrue(d)'
      BY <1>0, <2>3, <2>4, <2>6 DEF DispTrue, Open
    <2> QED
      BY <1>m, <2>1, <2>4, <2>5, <2>7
  <1> QED
    BY <1>3, <1>4, <1>5, <1>6, <1>7 DEF ProcessorStep, DispStep

(* A checker puts a row back in the queue only for want of an id, and then   *)
(* no other run or handler can have the row in hand.                         *)
LEMMA CheckerTells ==
  ASSUME ChecksTell, TypeInv, BatchOK, IdsOK, VerdictInv, NEW c \in Checkers, CheckerStep(c)
  PROVE  VerdictInv' /\ VerdictsKept
  <1>0. /\ chk \in [Checkers -> ChkState] /\ chk[c] \in ChkState
        /\ pg \in [Rows -> Row] /\ (\A r \in Rows : pg[r] \in Row)
        /\ chk[c].pc \notin {"idle", "loop"} => chk[c].row \in Rows
        /\ \A s \in chk[c].todo : s.row \in Rows
        /\ ChkTrue(c) /\ (\A r \in Rows : FlagTrue(r))
        /\ CheckErrors = {}
    BY DEF TypeInv, ChkOK, ChkTypeOK, ChkState, Seen, StoreOK, SharedTypeOK, ChecksTell,
           VerdictInv
  <1>1. disp' = disp /\ hand' = hand /\ \A e \in Checkers : e # c => chk'[e] = chk[e]
    BY OtherChecksWait DEF CheckerStep
  <1>2. BookGrows
    BY BookKept DEF CheckerStep, ChkStep, FetchDue, CountAttempt, WriteNoResponse,
                    QueryStatus, RecordCheckSuccess, RecordCheckFailed, RecordNotFound,
                    RecordUnknown, RecordUnknownRejected, ChkWriteback, shared
  <1>v. ASSUME \A r \in Rows : VerdictStep(r), ChkTrue(c)'
        PROVE  VerdictInv' /\ VerdictsKept
    <2>1. /\ \A r \in Rows : FlagTrue(r)' /\ (Open(r)' <=> Open(r))
          /\ \A h \in Handlers : HandTrue(h)'
          /\ \A e \in Checkers : ChkTrue(e)'
          /\ VerdictsKept
      BY <1>1, <1>2, <1>v, OthersTellOn
    <2>2. \A d \in Dispatchers : DispTrue(d)'
      BY <1>1, <2>1 DEF VerdictInv, DispTrue, Holds
    <2> QED
      BY <2>1, <2>2 DEF VerdictInv
  <1>k. ASSUME \A r \in Rows : Stays(r)
        PROVE  /\ \A r \in Rows : VerdictStep(r)
               /\ \A r \in Rows : \A k : Checkable(r, k) => Checkable(r, k)'
    BY <1>0, <1>2, <1>k, RowTellsOn DEF VerdictStep
  <1>l. ASSUME NEW todo \in SUBSET chk[c].todo, ChkLoop(c, todo)
        PROVE  chk'[c].todo = todo /\ chk'[c].pc \in {"idle", "loop"}
    <2>1. chk'[c] = IF todo = {} THEN ChkIdle
                    ELSE [ChkIdle EXCEPT !.pc = "loop", !.todo = todo]
      BY <1>0, <1>l DEF ChkLoop
    <2> QED
      BY <2>1 DEF ChkIdle
  <1>s. ASSUME \A r \in Rows : Stays(r), chk'[c].todo \subseteq chk[c].todo,
               chk'[c].pc \in {"noresponse", "query", "record"} =>
                 /\ chk[c].pc \in {"noresponse", "query", "record"} /\ chk'[c].pc # "record"
                 /\ chk'[c].row = chk[c].row /\ chk'[c].trans = chk[c].trans
        PROVE  VerdictInv' /\ VerdictsKept
    <2>1. ChkTrue(c)'
      BY <1>0, <1>k, <1>s DEF ChkTrue
    <2> QED
      BY <1>k, <1>s, <1>v, <2>1
  <1>3. CASE FetchDue(c)
    <2> DEFINE D == {q \in Rows : Due(pg[q])}
               T == {[row |-> r, trans |-> pg[r].trans, checked |-> pg[r].checked] : r \in D}
    <2>1. chk'[c].todo = T /\ chk'[c].pc = "loop"
      BY <1>0, <1>3 DEF FetchDue, ChkIdle
    <2>2. \A r \in Rows : Stays(r)
      BY <1>3 DEF FetchDue, shared, Stays
    <2>3. \A r \in D : r \in Rows /\ Checkable(r, pg[r].trans)
      BY DEF Due, Checkable, Open
    <2> HIDE DEF D
    <2>4. \A s \in T : s.row \in D /\ s.trans = pg[s.row].trans
      OBVIOUS
    <2> HIDE DEF T
    <2>5. \A s \in T : s.row \in Rows /\ Checkable(s.row, s.trans)
      BY <2>3, <2>4
    <2>6. ChkTrue(c)'
      BY <1>k, <2>1, <2>2, <2>5 DEF ChkTrue
    <2> QED
      BY <1>k, <1>v, <2>2, <2>6
  <1>4. CASE CountAttempt(c)
    <2>1. PICK s \in chk[c].todo :
            /\ pg' = [pg EXCEPT ![s.row] = UpdateStatusCheckAttempt(pg[s.row])]
            /\ chk' = [chk EXCEPT ![c] =
                 [chk[c] EXCEPT !.pc = IF s.checked THEN "query" ELSE "noresponse",
                    !.todo = chk[c].todo \ {s}, !.row = s.row, !.trans = s.trans]]
      BY <1>4 DEF CountAttempt
    <2>2. s.row \in Rows /\ Checkable(s.row, s.trans)
      BY <1>0 DEF ChkTrue
    <2>3. /\ chk'[c].todo = chk[c].todo \ {s} /\ chk'[c].row = s.row
          /\ chk'[c].trans = s.trans /\ chk'[c].pc \in {"query", "noresponse"}
      BY <1>0, <2>1 DEF ChkState
    <2>4. \A r \in Rows : Stays(r)
      BY <1>0, <2>1, <2>2, RowEffects, 0 \in Nat DEF Stays
    <2>5. ChkTrue(c)'
      BY <1>0, <1>k, <2>2, <2>3, <2>4 DEF ChkTrue
    <2> QED
      BY <1>k, <1>v, <2>4, <2>5
  <1>5. CASE WriteNoResponse(c)
    <2>1. /\ chk'[c].pc = "query" /\ chk'[c].row = chk[c].row /\ chk[c].pc = "noresponse"
          /\ chk'[c].trans = chk[c].trans /\ chk'[c].todo = chk[c].todo
      BY <1>0, <1>5 DEF WriteNoResponse, ChkState
    <2>2. \A r \in Rows : Stays(r)
      BY <1>5 DEF WriteNoResponse, Stays
    <2> QED
      BY <1>s, <2>1, <2>2
  <1>6. CASE QueryStatus(c)
    <2>1. PICK code \in Answers(chk[c].row, chk[c].trans) :
            chk' = [chk EXCEPT ![c].pc = "record", ![c].code = code]
      BY <1>6 DEF QueryStatus
    <2>2. /\ chk'[c].pc = "record" /\ chk'[c].row = chk[c].row /\ chk'[c].code = code
          /\ chk'[c].trans = chk[c].trans /\ chk'[c].todo = chk[c].todo
      BY <1>0, <2>1 DEF ChkState
    <2>3. PICK q \in Rows : q = chk[c].row
      BY <1>0, <1>6 DEF QueryStatus
    <2>4. chk[c].pc = "query" /\ Checkable(q, chk[c].trans)
      BY <1>0, <1>6, <2>3 DEF QueryStatus, ChkTrue
    <2>5. \/ code = SUCCESS /\ Told(q, "success")
          \/ code = TXN_FAILED /\ Told(q, "failed")
          \/ code = NOT_FOUND
          \/ code = NO_ANSWER /\ chk[c].trans = 0
      BY <1>0, <2>1, <2>3, <2>4 DEF Answers, Checkable, Told
    <2>6. pg' = pg /\ ledger' = ledger
      BY <1>6 DEF QueryStatus, shared
    <2>7. \A r \in Rows : Stays(r)
      BY <2>6 DEF Stays
    <2>8. Told(q, "success") => Told(q, "success")'
      BY <2>6 DEF Told
    <2>9. Told(q, "failed") => Told(q, "failed")'
      BY <2>6 DEF Told
    <2>10. ChkTrue(c)'
      BY <1>0, <1>k, <2>2, <2>3, <2>4, <2>5, <2>7, <2>8, <2>9 DEF ChkTrue
    <2> QED
      BY <1>k, <1>v, <2>7, <2>10
  <1>7. CASE RecordCheckSuccess(c) \/ RecordCheckFailed(c)
    <2>1. PICK q \in Rows : q = chk[c].row
      BY <1>0, <1>7 DEF RecordCheckSuccess, RecordCheckFailed
    <2>2. /\ chk'[c].todo = chk[c].todo /\ chk'[c].pc = "writeback"
          /\ chk[c].pc = "record" /\ chk[c].code \in {SUCCESS, TXN_FAILED}
      BY <1>0, <1>7 DEF RecordCheckSuccess, RecordCheckFailed, ChkToWriteback, ChkState
    <2>3. ~Open(q)
      BY <1>0, <2>1, <2>2 DEF ChkTrue, Checkable
    <2>4. \/ chk[c].code = SUCCESS /\ Told(q, "success")
          \/ chk[c].code = TXN_FAILED /\ Told(q, "failed")
      BY <1>0, <2>1, <2>2 DEF ChkTrue, SUCCESS, TXN_FAILED, NOT_FOUND, NO_ANSWER
    <2>5. /\ \A r \in Rows : r # q => pg'[r] = pg[r]
          /\ pg'[q].trans = pg[q].trans
          /\ pg'[q].flag = IF chk[c].code = SUCCESS THEN "Y" ELSE "F"
      BY <1>0, <1>7, <2>1, RowEffects, 0 \in Nat
         DEF RecordCheckSuccess, RecordCheckFailed, SUCCESS, TXN_FAILED
    <2>6. Confirmed(q)
      BY <2>3, <2>4, <2>5 DEF Confirmed, SUCCESS, TXN_FAILED
    <2>7. \A r \in Rows : VerdictStep(r)
      BY <2>5, <2>6 DEF VerdictStep, Stays
    <2>8. \A r \in Rows : \A k : Checkable(r, k) => Checkable(r, k)'
      BY <1>0, <1>2, <2>7, RowTellsOn
    <2>9. ChkTrue(c)'
      BY <1>0, <2>2, <2>8 DEF ChkTrue
    <2> QED
      BY <1>v, <2>7, <2>9
  <1>8. CASE RecordNotFound(c)
    <2>1. chk[c].row \in Rows /\ ChkLoop(c, chk[c].todo)
      BY <1>0, <1>8 DEF RecordNotFound
    <2>2. \A r \in Rows : Stays(r)
      BY <1>0, <1>8, <2>1, RowEffects, 0 \in Nat DEF RecordNotFound, Stays
    <2> QED
      BY <1>l, <1>s, <2>1, <2>2
  <1>9. CASE RecordUnknownRejected(c) \/ ChkWriteback(c)
    <2>1. PICK todo \in SUBSET chk[c].todo : ChkLoop(c, todo)
      BY <1>9 DEF RecordUnknownRejected, ChkWriteback
    <2>2. \A r \in Rows : Stays(r)
      BY <1>9 DEF RecordUnknownRejected, ChkWriteback, shared, Stays
    <2> QED
      BY <1>l, <1>s, <2>1, <2>2
  <1>10. CASE RecordUnknown(c)
    <2>1. PICK q \in Rows : q = chk[c].row
      BY <1>0, <1>10 DEF RecordUnknown, Requeueing
    <2>2. /\ chk'[c].todo = chk[c].todo /\ chk'[c].pc = "writeback" /\ chk[c].pc = "record"
      BY <1>0, <1>10 DEF RecordUnknown, Requeueing, ChkToWriteback, ChkState
    <2>3. chk[c].trans = 0 /\ Checkable(q, 0)
      BY <1>0, <1>10, <2>1 DEF RecordUnknown, Requeueing, ChkTrue
    <2>4. pg[q].flag = "P" /\ pg[q].trans = 0 /\ IdMayBeMissing
      BY <1>0, <2>3 DEF Checkable, FlagTrue
    <2>5. /\ \A r \in Rows : r # q => pg'[r] = pg[r]
          /\ pg'[q].flag = "E" /\ pg'[q].trans = 0
      BY <1>0, <1>10, <2>1, <2>4, RowEffects, 0 \in Nat DEF RecordUnknown
    <2>6. \A e \in Checkers : e = c
      BY <2>4 DEF ChecksTell, OneRunEach
    <2>7. \A r \in Rows : r # q => VerdictStep(r)
      BY <2>5 DEF VerdictStep, Stays
    <2>8. \A r \in Rows : r # q =>
            /\ FlagTrue(r)' /\ (Open(r)' <=> Open(r))
            /\ \A k : Checkable(r, k) => Checkable(r, k)'
            /\ Told(r, "success") => Told(r, "success")'
            /\ Told(r, "failed") => Told(r, "failed")'
      BY <1>0, <1>2, <2>7, RowTellsOn
    <2>9. FlagTrue(q)'
      BY <2>5 DEF FlagTrue, Open
    <2>10. ChkTrue(c)'
      <3>1. \A s \in chk[c].todo : s.row # q
        BY <2>1, <2>2 DEF BatchOK
      <3> QED
        BY <1>0, <2>2, <2>8, <3>1 DEF ChkTrue
    <2>11. ASSUME NEW h \in Handlers
           PROVE  HandTrue(h)'
      <3>1. HandTrue(h) /\ (hand[h].pc = "record" => hand[h].row \in Rows)
        BY DEF VerdictInv, TypeInv, HandOK
      <3>2. hand[h].pc = "record" => hand[h].row # q
        BY <2>4, <3>1 DEF HandTrue, Told
      <3> QED
        BY <1>1, <2>8, <3>1, <3>2 DEF HandTrue
    <2>12. ASSUME NEW d \in Dispatchers
           PROVE  DispTrue(d)'
      <3>1. DispTrue(d)
        BY DEF VerdictInv
      <3>2. \A r \in Rows : Holds(d, r)' <=> Holds(d, r)
        BY <1>1 DEF Holds
      <3>3. \A r \in Rows : Open(r) => Open(r)'
        BY <2>5, <2>8 DEF Open
      <3> QED
        BY <1>1, <3>1, <3>2, <3>3 DEF DispTrue
    <2>13. VerdictsKept
      BY <2>4, <2>5 DEF VerdictsKept, Terminal
    <2> QED
      BY <2>6, <2>8, <2>9, <2>10, <2>11, <2>12, <2>13 DEF VerdictInv
  <1> QED
    BY <1>3, <1>4, <1>5, <1>6, <1>7, <1>8, <1>9, <1>10 DEF CheckerStep, ChkStep

(* The callback writes what Pyro says of the recorded transaction.           *)
LEMMA CallbackTells ==
  ASSUME TypeInv, IdsOK, VerdictInv, NEW h \in Handlers, CallbackStep(h)
  PROVE  VerdictInv' /\ VerdictsKept
  <1>0. /\ hand \in [Handlers -> HandState] /\ hand[h] \in HandState
        /\ pg \in [Rows -> Row] /\ (\A r \in Rows : pg[r] \in Row)
        /\ hand[h].pc # "idle" => hand[h].row \in Rows
        /\ HandTrue(h) /\ (\A r \in Rows : FlagTrue(r))
    BY DEF TypeInv, HandOK, HandTypeOK, StoreOK, SharedTypeOK, VerdictInv
  <1>1. /\ disp' = disp /\ chk' = chk
        /\ \A g \in Handlers : g # h => hand'[g] = hand[g]
    BY <1>0 DEF CallbackStep, HandStep, Receive, RecordCallback, HandWriteback
  <1>2. BookGrows
    BY BookKept DEF CallbackStep, HandStep, Receive, RecordCallback, HandWriteback, shared
  <1>v. ASSUME \A r \in Rows : VerdictStep(r), HandTrue(h)'
        PROVE  VerdictInv' /\ VerdictsKept
    <2>1. /\ \A r \in Rows : FlagTrue(r)' /\ (Open(r)' <=> Open(r))
          /\ \A c \in Checkers : ChkTrue(c)'
          /\ \A g \in Handlers : HandTrue(g)'
          /\ VerdictsKept
      BY <1>1, <1>2, <1>v, OthersTellOn
    <2>2. \A d \in Dispatchers : DispTrue(d)'
      BY <1>1, <2>1 DEF VerdictInv, DispTrue, Holds
    <2> QED
      BY <2>1, <2>2 DEF VerdictInv
  <1>3. CASE Receive(h)
    <2>1. PICK r \in Rows, code \in Int :
            /\ pg[r].trans \in DOMAIN ledger[r] /\ pg[r].flag \notin Terminal
            /\ ledger[r][pg[r].trans] = IF code = SUCCESS THEN "success" ELSE "failed"
            /\ hand'[h] = [pc |-> "record", row |-> r, code |-> code]
      <3>1. PICK r \in Rows :
              /\ pg[r].trans \in DOMAIN ledger[r] /\ pg[r].flag \notin Terminal
              /\ \/ /\ ledger[r][pg[r].trans] = "success"
                    /\ hand' = [hand EXCEPT ![h] = [pc |-> "record", row |-> r, code |-> SUCCESS]]
                 \/ /\ ledger[r][pg[r].trans] = "failed"
                    /\ \E code \in FailureCodes :
                         hand' = [hand EXCEPT ![h] = [pc |-> "record", row |-> r, code |-> code]]
        BY <1>3 DEF Receive
      <3>2. CASE ledger[r][pg[r].trans] = "success"
        BY <1>0, <3>1, <3>2 DEF SUCCESS
      <3>3. CASE ledger[r][pg[r].trans] = "failed"
        BY <1>0, <3>1, <3>3, CallbackAssumption
      <3> QED
        BY <3>1, <3>2, <3>3
    <2>2. pg[r].trans # 0
      BY <2>1 DEF TypeInv, StoreOK, SharedTypeOK
    <2>3. ~Open(r)
      BY <1>0, <2>2 DEF FlagTrue
    <2>4. pg' = pg /\ ledger' = ledger
      BY <1>3 DEF Receive, shared
    <2>5. HandTrue(h)'
      BY <2>1, <2>2, <2>3, <2>4 DEF HandTrue, Told, Open
    <2> QED
      BY <1>v, <2>4, <2>5 DEF VerdictStep, Stays
  <1>4. CASE RecordCallback(h)
    <2>1. PICK q \in Rows : q = hand[h].row
      BY <1>0, <1>4 DEF RecordCallback
    <2>2. /\ \A r \in Rows : r # q => pg'[r] = pg[r]
          /\ pg'[q].trans = pg[q].trans
          /\ pg'[q].flag = IF hand[h].code = SUCCESS THEN "Y" ELSE "F"
      BY <1>0, <1>4, <2>1, RowEffects, 0 \in Nat DEF RecordCallback
    <2>3. \A r \in Rows : VerdictStep(r)
      BY <1>0, <1>4, <2>1, <2>2
         DEF RecordCallback, HandTrue, VerdictStep, Stays, Confirmed
    <2>4. HandTrue(h)'
      BY <1>0, <1>4 DEF RecordCallback, HandTrue, HandState
    <2> QED
      BY <1>v, <2>3, <2>4
  <1>5. CASE HandWriteback(h)
    <2>1. HandTrue(h)'
      BY <1>0, <1>5 DEF HandWriteback, HandTrue, HandIdle
    <2> QED
      BY <1>5, <1>v, <2>1 DEF HandWriteback, VerdictStep, Stays
  <1> QED
    BY <1>3, <1>4, <1>5 DEF CallbackStep, HandStep

(* Pyro settles what is pending and time passes: no verdict is touched.      *)
LEMMA EnvironmentTells ==
  ASSUME TypeInv, IdsOK, VerdictInv, Environment
  PROVE  VerdictInv' /\ VerdictsKept
  <1>1. PICK r \in Rows : Settle(r) \/ Ripen(r) \/ Lapse(r) \/ LinkBcd(r)
    BY DEF Environment
  <1>2. BookGrows
    <2>1. CASE Settle(r)
      BY <2>1, BookSettled
    <2>2. CASE Ripen(r) \/ Lapse(r) \/ LinkBcd(r)
      BY <2>2, BookKept DEF Ripen, Lapse, LinkBcd
    <2> QED
      BY <1>1, <2>1, <2>2
  <1>3. \A q \in Rows : Stays(q)
    <2>1. pg \in [Rows -> Row]
      BY DEF TypeInv, StoreOK, SharedTypeOK
    <2>2. CASE Settle(r) \/ LinkBcd(r)
      BY <2>2 DEF Settle, LinkBcd, Stays
    <2>3. ASSUME NEW age, pg' = [pg EXCEPT ![r].age = age]
          PROVE  \A q \in Rows : Stays(q)
      <3>1. pg' = [pg EXCEPT ![r] = [pg[r] EXCEPT !.age = age]]
        BY <2>1, <2>3
      <3> QED
        BY <2>1, <3>1 DEF Row, Stays
    <2>4. CASE Ripen(r) \/ Lapse(r)
      BY <2>3, <2>4 DEF Ripen, Lapse
    <2> QED
      BY <1>1, <2>2, <2>4
  <1>4. \A q \in Rows : VerdictStep(q)
    BY <1>3 DEF VerdictStep
  <1>5. UNCHANGED <<disp, chk, hand>>
    BY DEF Environment
  <1>6. /\ \A q \in Rows : FlagTrue(q)' /\ (Open(q)' <=> Open(q))
        /\ \A c \in Checkers : ChkTrue(c)'
        /\ \A h \in Handlers : HandTrue(h)'
        /\ VerdictsKept
    BY <1>2, <1>4, <1>5, OthersTellOn
  <1>7. \A d \in Dispatchers : DispTrue(d)'
    BY <1>5, <1>6 DEF VerdictInv, DispTrue, Holds
  <1> QED
    BY <1>6, <1>7 DEF VerdictInv

(* A job or handler cut short leaves the rows as they are.                   *)
LEMMA AbortTells ==
  ASSUME TypeInv, VerdictInv, Abort
  PROVE  VerdictInv' /\ VerdictsKept
  <1>1. /\ pg' = pg /\ ledger' = ledger
        /\ \A d \in Dispatchers : disp'[d] = disp[d] \/ disp'[d] = DispIdle
        /\ \A c \in Checkers : chk'[c] = chk[c] \/ chk'[c] = ChkIdle
        /\ \A h \in Handlers : hand'[h] = hand[h] \/ hand'[h] = HandIdle
    BY DEF Abort, DispAbort, ChkAbort, HandAbort, TypeInv, DispOK, DispTypeOK,
           ChkOK, ChkTypeOK, HandOK, HandTypeOK
  <1>2. \A r \in Rows : FlagTrue(r)' /\ (Open(r)' <=> Open(r))
    BY <1>1 DEF VerdictInv, FlagTrue, Told, Open
  <1>3. ASSUME NEW d \in Dispatchers PROVE DispTrue(d)'
    <2>1. CASE disp'[d] = disp[d]
      BY <1>2, <2>1 DEF VerdictInv, DispTrue, Holds
    <2>2. CASE disp'[d] = DispIdle
      BY <2>2 DEF DispIdle, DispTrue, Holds
    <2> QED
      BY <1>1, <2>1, <2>2
  <1>4. ASSUME NEW c \in Checkers PROVE ChkTrue(c)'
    <2>1. CASE chk'[c] = chk[c]
      BY <1>1, <2>1 DEF VerdictInv, ChkTrue, Checkable, Open, Told
    <2>2. CASE chk'[c] = ChkIdle
      BY <2>2 DEF ChkIdle, ChkTrue
    <2> QED
      BY <1>1, <2>1, <2>2
  <1>5. ASSUME NEW h \in Handlers PROVE HandTrue(h)'
    <2>1. CASE hand'[h] = hand[h]
      BY <1>1, <2>1 DEF VerdictInv, HandTrue, Open, Told
    <2>2. CASE hand'[h] = HandIdle
      BY <2>2 DEF HandIdle, HandTrue
    <2> QED
      BY <1>1, <2>1, <2>2
  <1> QED
    BY <1>1, <1>2, <1>3, <1>4, <1>5 DEF VerdictInv, VerdictsKept

(* There is no verdict and nobody at work at first.                          *)
LEMMA InitTells == Init => VerdictInv
  <1> SUFFICES ASSUME Init PROVE VerdictInv
    OBVIOUS
  <1>1. \A r \in Rows : FlagTrue(r)
    BY DEF Init, SharedInit, NewRow, FlagTrue, Open
  <1>2. \A d \in Dispatchers : DispTrue(d)
    BY DEF Init, DispInit, DispIdle, DispTrue, Holds
  <1>3. (\A c \in Checkers : ChkTrue(c)) /\ (\A h \in Handlers : HandTrue(h))
    BY DEF Init, ChkInit, ChkIdle, ChkTrue, HandInit, HandIdle, HandTrue
  <1> QED
    BY <1>1, <1>2, <1>3 DEF VerdictInv

FinalInv == TypeInv /\ BatchOK /\ SuccessInv /\ VerdictInv

LEMMA InitFinal == Init => FinalInv
  BY InitTyped, InitOwns, InitClaims, InitTells DEF FinalInv, OwnerInv

(* Every step keeps the invariant, and the verdicts.                         *)
LEMMA NextFinal ==
  ASSUME ChecksTell, FinalInv, [Next]_vars
  PROVE  FinalInv' /\ VerdictsKept
  <1>1. TypeInv' /\ BatchOK' /\ SuccessInv'
    BY NextTyped, NextBatches, NextClaims DEF FinalInv
  <1>2. TypeInv /\ BatchOK /\ IdsOK /\ VerdictInv
    BY DEF FinalInv, SuccessInv
  <1>3. CASE Next
    <2>1. VerdictInv' /\ VerdictsKept
      BY <1>2, <1>3, EnvironmentTells, ProcessorTells, CheckerTells, CallbackTells, AbortTells
         DEF Next
    <2> QED
      BY <1>1, <2>1 DEF FinalInv
  <1>4. CASE UNCHANGED vars
    <2>1. UNCHANGED <<pg, ledger, disp, chk, hand>>
      BY <1>4 DEF vars, shared
    <2>2. VerdictInv'
      BY <1>2, <2>1 DEF VerdictInv, FlagTrue, DispTrue, ChkTrue, HandTrue, Checkable, Holds,
                        Open, Told
    <2> QED
      BY <1>1, <2>1, <2>2 DEF FinalInv, VerdictsKept
  <1> QED
    BY <1>3, <1>4

(* Y and F are final: although neither the callback nor the status check     *)
(* looks at the flag it overwrites, whichever comes second writes what is    *)
(* there.  The run "terminal" shows what a check that tells nothing does.    *)
THEOREM TerminalIsFinalHolds == ChecksTell => (Spec => TerminalIsFinal)
  <1> SUFFICES ASSUME ChecksTell PROVE Spec => TerminalIsFinal
    OBVIOUS
  <1>1. FinalInv /\ [Next]_vars => FinalInv'
    BY NextFinal
  <1>2. FinalInv /\ [Next]_vars =>
          [\A r \in Rows : pg[r].flag \in Terminal => pg'[r].flag = pg[r].flag]_vars
    BY NextFinal DEF VerdictsKept
  <1> QED
    BY <1>1, <1>2, InitFinal, PTL DEF Spec, TerminalIsFinal

-----------------------------------------------------------------------------
(* The rows follow the state machine of the schema.                          *)

(* What a run of the processor has fetched is still pending when it comes to *)
(* write it: it is queued (DispTrue), and no retry has been counted since.   *)
HeldInv == \A d \in Dispatchers, r \in Rows : Holds(d, r) => pg[r].retry <= MaxRetries

Rests(r)    == pg'[r].flag = pg[r].flag /\ pg'[r].retry = pg[r].retry
GoesTo(r, F) == pg'[r].flag \in F /\ pg'[r].retry = pg[r].retry

(* A move of the state machine, on the row as the step finds it.             *)
Moves(r) ==
  \/ Pending(pg[r]) /\ GoesTo(r, {"P", "F"})
  \/ pg[r].flag = "P" /\ GoesTo(r, {"Y", "F"})
  \/ /\ Pending(pg[r]) \/ pg[r].flag = "P"
     /\ pg'[r].flag = "E" /\ pg'[r].retry = pg[r].retry + 1

OneMoves ==
  \/ \A r \in Rows : Rests(r)
  \/ \E q \in Rows : (Rests(q) \/ Moves(q)) /\ \A r \in Rows : r # q => Rests(r)

(* Seen through the mapping, that is a step of PushFlag or a stutter.        *)
LEMMA MoveFollows ==
  ASSUME OneMoves
  PROVE  [PushFlow!Next]_(PushFlow!pushVars)
  <1> DEFINE f == [r \in Rows |-> pg[r].flag]
             n == [r \in Rows |-> pg[r].retry]
             g == [r \in Rows |-> pg'[r].flag]
             m == [r \in Rows |-> pg'[r].retry]
  <1>1. CASE \A r \in Rows : Rests(r)
    BY <1>1 DEF Rests, PushFlow!pushVars
  <1>2. ASSUME NEW q \in Rows, Moves(q), \A r \in Rows : r # q => Rests(r)
        PROVE  PushFlow!Next
    <2>1. g = [f EXCEPT ![q] = pg'[q].flag]
      BY <1>2 DEF Rests
    <2>2. pg'[q].retry = pg[q].retry => m = n
      BY <1>2 DEF Rests
    <2>3. pg'[q].retry = pg[q].retry + 1 => m = [n EXCEPT ![q] = n[q] + 1]
      BY <1>2 DEF Rests
    <2>4. f[q] = pg[q].flag /\ n[q] = pg[q].retry
      OBVIOUS
    <2>5. Pending(pg[q]) => PushFlow!Queued(q)
      BY <2>4 DEF Pending, PushFlow!Queued
    <2>6. CASE Pending(pg[q]) /\ GoesTo(q, {"P", "F"})
      <3>1. PushFlow!Push(q) \/ PushFlow!GiveUp(q)
        BY <2>1, <2>2, <2>5, <2>6 DEF GoesTo, PushFlow!Push, PushFlow!GiveUp, PushFlow!Becomes
      <3> QED
        BY <3>1 DEF PushFlow!Next
    <2>7. CASE pg[q].flag = "P" /\ GoesTo(q, {"Y", "F"})
      <3>1. PushFlow!Confirm(q) \/ PushFlow!Deny(q)
        BY <2>1, <2>2, <2>4, <2>7 DEF GoesTo, PushFlow!Confirm, PushFlow!Deny, PushFlow!Becomes
      <3> QED
        BY <3>1 DEF PushFlow!Next
    <2>8. CASE /\ Pending(pg[q]) \/ pg[q].flag = "P"
               /\ pg'[q].flag = "E" /\ pg'[q].retry = pg[q].retry + 1
      <3>1. PushFlow!Retry(q)
        BY <2>1, <2>3, <2>4, <2>5, <2>8 DEF PushFlow!Retry
      <3> QED
        BY <3>1 DEF PushFlow!Next
    <2> QED
      BY <1>2, <2>6, <2>7, <2>8 DEF Moves
  <1> QED
    BY <1>1, <1>2 DEF OneMoves

(* The processor moves the row in hand, which is as it was fetched.          *)
LEMMA ProcessorFollows ==
  ASSUME OneProcessor, TypeInv, BatchOK, VerdictInv, HeldInv,
         NEW d \in Dispatchers, ProcessorStep(d)
  PROVE  OneMoves /\ HeldInv'
  <1>0. /\ disp \in [Dispatchers -> DispState] /\ disp[d] \in DispState
        /\ pg \in [Rows -> Row] /\ (\A r \in Rows : pg[r] \in Row)
        /\ disp[d].pc \in {"record", "writeback"} => disp[d].row \in Rows
        /\ \A e \in Dispatchers : e = d
    BY DEF TypeInv, DispOK, DispTypeOK, StoreOK, SharedTypeOK, OneProcessor
  <1>k. ASSUME pg' = pg, \A r \in Rows : Holds(d, r)' => Pending(pg[r]) \/ Holds(d, r)
        PROVE  OneMoves /\ HeldInv'
    BY <1>0, <1>k DEF OneMoves, Rests, HeldInv, Pending
  <1>l. ASSUME NEW todo \in SUBSET disp[d].todo, NEW spent, Loop(d, todo, spent)
        PROVE  /\ disp'[d].todo \subseteq disp[d].todo
               /\ disp'[d].pc # "record"
    <2>1. disp'[d] = IF todo = {} THEN DispIdle
                     ELSE [DispIdle EXCEPT !.pc = "loop", !.todo = todo, !.spent = spent]
      BY <1>0, <1>l DEF Loop
    <2> QED
      BY <2>1 DEF DispIdle
  <1>r. ASSUME disp[d].pc = "record", NEW q \in Rows, q = disp[d].row, Moves(q),
               \A r \in Rows : r # q => pg'[r] = pg[r],
               disp'[d].todo \subseteq disp[d].todo, disp'[d].pc # "record"
        PROVE  OneMoves /\ HeldInv'
    <2>1. \A r \in Rows : Holds(d, r)' => Holds(d, r) /\ r # q
      BY <1>r DEF Holds, BatchOK
    <2>2. HeldInv'
      BY <1>0, <1>r, <2>1 DEF HeldInv
    <2> QED
      BY <1>r, <2>2 DEF OneMoves, Rests
  <1>p. ASSUME disp[d].pc = "record", NEW q \in Rows, q = disp[d].row
        PROVE  Pending(pg[q])
    <2>1. Holds(d, q)
      BY <1>p DEF Holds
    <2> QED
      BY <2>1 DEF VerdictInv, DispTrue, HeldInv, Open, Pending
  <1>1. CASE FetchPending(d)
    <2>1. PICK B \in SUBSET Rows :
            /\ IsBatch(B)
            /\ disp' = [disp EXCEPT ![d] = [DispIdle EXCEPT !.pc = "fetched",
                          !.todo = {[row |-> r, retry |-> pg[r].retry] : r \in B}]]
      BY <1>1 DEF FetchPending
    <2>2. /\ disp'[d].todo = {[row |-> r, retry |-> pg[r].retry] : r \in B}
          /\ disp'[d].pc = "fetched"
      BY <1>0, <2>1 DEF DispIdle
    <2>3. \A r \in Rows : Holds(d, r)' => r \in B
      BY <2>2 DEF Holds
    <2>4. \A r \in B : Pending(pg[r])
      BY <2>1 DEF IsBatch
    <2> QED
      BY <1>1, <1>k, <2>3, <2>4 DEF FetchPending, shared
  <1>2. CASE DeferBatch(d) \/ DecryptFails(d) \/ SkipExhaustedDealer(d) \/ RecordRetryRejected(d)
             \/ DispWriteback(d)
    <2>1. \E todo \in SUBSET disp[d].todo : \E spent : Loop(d, todo, spent)
      BY <1>2 DEF DeferBatch, DecryptFails, SkipExhaustedDealer, RecordRetryRejected, DispWriteback
    <2>2. \A r \in Rows : Holds(d, r)' => Holds(d, r)
      BY <1>l, <2>1 DEF Holds
    <2> QED
      BY <1>2, <1>k, <2>2
         DEF DeferBatch, DecryptFails, SkipExhaustedDealer, RecordRetryRejected, DispWriteback, shared
  <1>3. CASE RechargeAccepted(d) \/ RechargeRefused(d)
    <2>1. PICK s \in disp[d].todo : \E code, trans : InHand(d, s, code, trans)
      BY <1>3 DEF RechargeAccepted, RechargeRefused
    <2>2. disp'[d].todo = disp[d].todo \ {s} /\ disp'[d].row = s.row
      BY <1>0, <2>1 DEF InHand, DispState
    <2>3. \A r \in Rows : Holds(d, r)' => Holds(d, r)
      BY <2>2 DEF Holds
    <2> QED
      BY <1>3, <1>k, <2>3 DEF RechargeAccepted, RechargeRefused, shared
  <1>4. CASE RecordPushed(d) \/ RecordFailed(d)
    <2>1. PICK q \in Rows : q = disp[d].row
      BY <1>0, <1>4 DEF RecordPushed, RecordFailed
    <2>2. /\ disp'[d].todo = disp[d].todo /\ disp'[d].pc = "writeback"
          /\ disp[d].trans \in Nat /\ disp[d].pc = "record"
      BY <1>0, <1>4 DEF RecordPushed, RecordFailed, ToWriteback, DispState
    <2>3. /\ \A r \in Rows : r # q => pg'[r] = pg[r]
          /\ GoesTo(q, {"P", "F"})
      BY <1>0, <1>4, <2>1, <2>2, MarkEffects, 0 \in Nat DEF RecordPushed, RecordFailed, GoesTo
    <2>4. Moves(q)
      BY <1>p, <2>1, <2>2, <2>3 DEF Moves
    <2> QED
      BY <1>r, <2>1, <2>2, <2>3, <2>4
  <1>5. CASE RecordRetry(d)
    <2>1. PICK q \in Rows : q = disp[d].row
      BY <1>0, <1>5 DEF RecordRetry, Retrying
    <2>2. disp[d].pc = "record"
      BY <1>5 DEF RecordRetry, Retrying
    <2>3. \E todo \in SUBSET disp[d].todo : \E spent : Loop(d, todo, spent)
      BY <1>5 DEF RecordRetry
    <2>4. /\ \A r \in Rows : r # q => pg'[r] = pg[r]
          /\ pg'[q].flag = "E" /\ pg'[q].retry = pg[q].retry + 1
      BY <1>0, <1>5, <2>1, MarkEffects, 0 \in Nat DEF RecordRetry
    <2>5. Moves(q)
      BY <1>p, <2>1, <2>2, <2>4 DEF Moves
    <2>6. disp'[d].todo \subseteq disp[d].todo /\ disp'[d].pc # "record"
      BY <1>l, <2>3
    <2> QED
      BY <1>r, <2>1, <2>2, <2>4, <2>5, <2>6
  <1> QED
    BY <1>1, <1>2, <1>3, <1>4, <1>5 DEF ProcessorStep, DispStep

(* Whoever has heard the outcome of the recorded transaction writes the      *)
(* verdict to a row at P, or writes the verdict that is there.               *)
LEMMA OutcomeFollows ==
  ASSUME VerdictInv, NEW q \in Rows, ~Open(q), pg \in [Rows -> Row],
         NEW o \in {"success", "failed"}, Told(q, o),
         pg' = [pg EXCEPT ![q] = IF o = "success" THEN MarkAsSuccess(pg[q])
                                                  ELSE MarkAsFailed(pg[q])]
  PROVE  OneMoves
  <1>1. /\ \A r \in Rows : r # q => Rests(r)
        /\ pg'[q].flag = IF o = "success" THEN "Y" ELSE "F"
        /\ pg'[q].retry = pg[q].retry
    BY MarkEffects, 0 \in Nat DEF Rests
  <1>2. pg[q].flag \in {"P", "Y", "F"}
    BY DEF Open, Row, Flags
  <1>3. FlagTrue(q)
    BY DEF VerdictInv
  <1>4. Rests(q) \/ Moves(q)
    BY <1>1, <1>2, <1>3 DEF FlagTrue, Told, Rests, Moves, GoesTo
  <1> QED
    BY <1>1, <1>4 DEF OneMoves

(* A checker moves a row that is at P: to its verdict or, for want of an id, *)
(* back to the queue.                                                        *)
LEMMA CheckerFollows ==
  ASSUME TypeInv, VerdictInv, NEW c \in Checkers, CheckerStep(c)
  PROVE  OneMoves /\ \A r \in Rows : Open(r) => Rests(r)
  <1>0. /\ chk[c] \in ChkState /\ ChkTrue(c)
        /\ pg \in [Rows -> Row] /\ (\A r \in Rows : pg[r] \in Row)
        /\ chk[c].pc \notin {"idle", "loop"} => chk[c].row \in Rows
        /\ \A s \in chk[c].todo : s.row \in Rows
    BY DEF TypeInv, ChkOK, ChkTypeOK, ChkState, Seen, StoreOK, SharedTypeOK, VerdictInv
  <1>1. CASE pg' = pg
    BY <1>1 DEF OneMoves, Rests
  <1>2. CASE CountAttempt(c) \/ RecordNotFound(c)
    <2>1. PICK q \in Rows : pg' = [pg EXCEPT ![q] = UpdateStatusCheckAttempt(pg[q])]
      BY <1>0, <1>2 DEF CountAttempt, RecordNotFound
    <2> QED
      BY <1>0, <2>1, MarkEffects, 0 \in Nat DEF OneMoves, Rests
  <1>3. CASE RecordCheckSuccess(c) \/ RecordCheckFailed(c)
    <2>1. PICK q \in Rows : q = chk[c].row
      BY <1>0, <1>3 DEF RecordCheckSuccess, RecordCheckFailed
    <2>2. ~Open(q)
      BY <1>0, <1>3, <2>1 DEF RecordCheckSuccess, RecordCheckFailed, ChkTrue, Checkable
    <2>3. PICK o \in {"success", "failed"} :
            /\ Told(q, o)
            /\ pg' = [pg EXCEPT ![q] = IF o = "success" THEN MarkAsSuccess(pg[q])
                                                        ELSE MarkAsFailed(pg[q])]
      BY <1>0, <1>3, <2>1 DEF RecordCheckSuccess, RecordCheckFailed, ChkTrue, SUCCESS,
                              TXN_FAILED, NOT_FOUND, NO_ANSWER
    <2>4. \A r \in Rows : Open(r) => Rests(r)
      BY <1>0, <2>2, <2>3 DEF Rests
    <2> QED
      BY <1>0, <2>2, <2>3, <2>4, OutcomeFollows
  <1>4. CASE RecordUnknown(c)
    <2>1. PICK q \in Rows : q = chk[c].row
      BY <1>0, <1>4 DEF RecordUnknown, Requeueing
    <2>2. Checkable(q, chk[c].trans) /\ chk[c].trans = 0
      BY <1>0, <1>4, <2>1 DEF RecordUnknown, Requeueing, ChkTrue
    <2>3. pg[q].flag = "P"
      BY <2>2 DEF Checkable
    <2>4. /\ \A r \in Rows : r # q => pg'[r] = pg[r]
          /\ pg'[q].flag = "E" /\ pg'[q].retry = pg[q].retry + 1
      BY <1>0, <1>4, <2>1, MarkEffects, 0 \in Nat DEF RecordUnknown
    <2> QED
      BY <2>3, <2>4 DEF OneMoves, Moves, Rests, Open
  <1> QED
    BY <1>1, <1>2, <1>3, <1>4
       DEF CheckerStep, ChkStep, FetchDue, WriteNoResponse, QueryStatus, RecordUnknownRejected,
           ChkWriteback, shared

LEMMA CallbackFollows ==
  ASSUME TypeInv, VerdictInv, NEW h \in Handlers, CallbackStep(h)
  PROVE  OneMoves /\ \A r \in Rows : Open(r) => Rests(r)
  <1>0. /\ pg \in [Rows -> Row] /\ HandTrue(h)
        /\ hand[h].pc # "idle" => hand[h].row \in Rows
    BY DEF TypeInv, HandOK, StoreOK, SharedTypeOK, VerdictInv
  <1>1. CASE pg' = pg
    BY <1>1 DEF OneMoves, Rests
  <1>2. CASE RecordCallback(h)
    <2>1. PICK q \in Rows : q = hand[h].row
      BY <1>0, <1>2 DEF RecordCallback
    <2>2. ~Open(q)
      BY <1>0, <1>2, <2>1 DEF RecordCallback, HandTrue
    <2>3. PICK o \in {"success", "failed"} :
            /\ Told(q, o)
            /\ pg' = [pg EXCEPT ![q] = IF o = "success" THEN MarkAsSuccess(pg[q])
                                                        ELSE MarkAsFailed(pg[q])]
      BY <1>0, <1>2, <2>1 DEF RecordCallback, HandTrue
    <2>4. \A r \in Rows : Open(r) => Rests(r)
      BY <1>0, <2>2, <2>3 DEF Rests
    <2> QED
      BY <1>0, <2>2, <2>3, <2>4, OutcomeFollows
  <1> QED
    BY <1>1, <1>2 DEF CallbackStep, HandStep, Receive, HandWriteback, shared

LEMMA EnvironmentFollows ==
  ASSUME TypeInv, Environment
  PROVE  \A r \in Rows : Rests(r)
  <1>1. PICK r \in Rows : Settle(r) \/ Ripen(r) \/ Lapse(r) \/ LinkBcd(r)
    BY DEF Environment
  <1>2. pg \in [Rows -> Row]
    BY DEF TypeInv, StoreOK, SharedTypeOK
  <1>3. CASE Settle(r) \/ LinkBcd(r)
    BY <1>3 DEF Settle, LinkBcd, Rests
  <1>4. ASSUME NEW age, pg' = [pg EXCEPT ![r].age = age]
        PROVE  \A q \in Rows : Rests(q)
    <2>1. pg' = [pg EXCEPT ![r] = [pg[r] EXCEPT !.age = age]]
      BY <1>2, <1>4
    <2> QED
      BY <1>2, <2>1 DEF Row, Rests
  <1>5. CASE Ripen(r) \/ Lapse(r)
    BY <1>4, <1>5 DEF Ripen, Lapse
  <1> QED
    BY <1>1, <1>3, <1>5

LEMMA NextFollows ==
  ASSUME ChecksTell, FinalInv, HeldInv, [Next]_vars
  PROVE  OneMoves /\ HeldInv'
  <1>0. TypeInv /\ BatchOK /\ VerdictInv /\ OneProcessor
    BY DEF FinalInv, ChecksTell
  <1>1. ASSUME disp' = disp, \A r \in Rows : Open(r) => Rests(r)
        PROVE  HeldInv'
    <2>1. \A d \in Dispatchers, r \in Rows : Holds(d, r)' => Holds(d, r) /\ Open(r)
      BY <1>0, <1>1 DEF Holds, VerdictInv, DispTrue
    <2> QED
      BY <1>1, <2>1 DEF HeldInv, Rests
  <1>2. CASE Environment
    BY <1>0, <1>1, <1>2, EnvironmentFollows DEF Environment, OneMoves
  <1>3. ASSUME NEW d \in Dispatchers, ProcessorStep(d) PROVE OneMoves /\ HeldInv'
    BY <1>0, <1>3, ProcessorFollows
  <1>4. ASSUME NEW c \in Checkers, CheckerStep(c) PROVE OneMoves /\ HeldInv'
    BY <1>0, <1>1, <1>4, CheckerFollows DEF CheckerStep
  <1>5. ASSUME NEW h \in Handlers, CallbackStep(h) PROVE OneMoves /\ HeldInv'
    BY <1>0, <1>1, <1>5, CallbackFollows DEF CallbackStep
  <1>6. CASE Abort
    <2>1. /\ pg' = pg
          /\ \A d \in Dispatchers : disp'[d] = disp[d] \/ disp'[d] = DispIdle
      BY <1>0, <1>6 DEF Abort, DispAbort, ChkAbort, HandAbort, TypeInv, DispOK, DispTypeOK
    <2>2. \A d \in Dispatchers, r \in Rows : Holds(d, r)' => Holds(d, r)
      BY <2>1 DEF Holds, DispIdle
    <2> QED
      BY <2>1, <2>2 DEF OneMoves, Rests, HeldInv
  <1>7. CASE UNCHANGED vars
    BY <1>1, <1>7 DEF vars, shared, OneMoves, Rests
  <1> QED
    BY <1>2, <1>3, <1>4, <1>5, <1>6, <1>7 DEF Next

(* push_flag and retry_count move as create_tables.sql draws it, one move at *)
(* a time and each allowed by the row as it is when it is written, although  *)
(* no UPDATE looks at the row and the processor works on copies: refusals,   *)
(* lost answers, aborts and overlapping status checks change nothing.        *)
THEOREM FollowsStateMachineHolds == ChecksTell => (Spec => FollowsStateMachine)
  <1> SUFFICES ASSUME ChecksTell PROVE Spec => FollowsStateMachine
    OBVIOUS
  <1>1. Init => FinalInv /\ HeldInv /\ PushFlow!Init
    <2> SUFFICES ASSUME Init PROVE FinalInv /\ HeldInv /\ PushFlow!Init
      OBVIOUS
    <2>1. \A d \in Dispatchers, r \in Rows : ~Holds(d, r)
      BY DEF Init, DispInit, DispIdle, Holds
    <2>2. \A r \in Rows : pg[r].flag = "N" /\ pg[r].retry = 0
      BY DEF Init, SharedInit, NewRow
    <2> QED
      BY <2>1, <2>2, InitFinal DEF HeldInv, PushFlow!Init
  <1>2. FinalInv /\ HeldInv /\ [Next]_vars => FinalInv' /\ HeldInv'
    BY NextFinal, NextFollows
  <1>3. FinalInv /\ HeldInv /\ [Next]_vars => [PushFlow!Next]_(PushFlow!pushVars)
    BY NextFollows, MoveFollows
  <1> QED
    BY <1>1, <1>2, <1>3, PTL DEF Spec, FollowsStateMachine, PushFlow!Spec

-----------------------------------------------------------------------------
(* F in BCD means given up, and E means retried, where in addition every     *)
(* accepted POST is answered with an id.                                     *)
IdsCome == ChecksTell /\ ~IdMayBeMissing

(* Then a status check never puts a row back in the queue.                   *)
LEMMA NothingRequeued ==
  ASSUME IdsCome, FinalInv, NEW c \in Checkers
  PROVE  ~Requeueing(c)
  <1> SUFFICES ASSUME Requeueing(c) PROVE FALSE
    OBVIOUS
  <1>1. PICK q \in Rows : q = chk[c].row
    BY DEF Requeueing, FinalInv, TypeInv, ChkOK
  <1>2. Checkable(q, chk[c].trans) /\ chk[c].trans = 0
    BY <1>1 DEF Requeueing, FinalInv, VerdictInv, ChkTrue
  <1>3. pg[q].flag = "P" /\ pg[q].trans = 0
    BY <1>2 DEF Checkable
  <1> QED
    BY <1>3 DEF FinalInv, VerdictInv, FlagTrue, IdsCome

(* Whoever is about to tell BCD of a failure has written the verdict F, and  *)
(* what BCD has been told stands.                                            *)
GivenUpInv ==
  /\ \A r \in Rows : bcd[r] \in {"F", "ID"} => pg[r].flag = "F"
  /\ \A d \in Dispatchers :
       disp[d].pc = "writeback" /\ disp[d].code # REGISTERED => pg[disp[d].row].flag = "F"
  /\ \A c \in Checkers :
       chk[c].pc = "writeback" /\ chk[c].code # SUCCESS => pg[chk[c].row].flag = "F"
  /\ \A h \in Handlers :
       hand[h].pc = "writeback" /\ hand[h].code # SUCCESS => pg[hand[h].row].flag = "F"

(* What a step has to show: a failure newly told, or about to be, is one.    *)
NewsTrue == \A r \in Rows : bcd'[r] \in {"F", "ID"} => bcd'[r] = bcd[r] \/ pg'[r].flag = "F"

DispNewsTrue(d) ==
  disp'[d].pc = "writeback" /\ disp'[d].code # REGISTERED =>
    disp'[d] = disp[d] \/ pg'[disp'[d].row].flag = "F"

ChkNewsTrue(c) ==
  chk'[c].pc = "writeback" /\ chk'[c].code # SUCCESS =>
    chk'[c] = chk[c] \/ pg'[chk'[c].row].flag = "F"

HandNewsTrue(h) ==
  hand'[h].pc = "writeback" /\ hand'[h].code # SUCCESS =>
    hand'[h] = hand[h] \/ pg'[hand'[h].row].flag = "F"

(* The rest follows from the verdicts being final.                           *)
LEMMA GivenUpKept ==
  ASSUME TypeInv, GivenUpInv, VerdictsKept, NewsTrue,
         \A d \in Dispatchers : DispNewsTrue(d),
         \A c \in Checkers : ChkNewsTrue(c),
         \A h \in Handlers : HandNewsTrue(h)
  PROVE  GivenUpInv'
  <1>1. \A r \in Rows : pg[r].flag = "F" => pg'[r].flag = "F"
    BY DEF VerdictsKept, Terminal
  <1>2. /\ \A d \in Dispatchers : disp[d].pc = "writeback" => disp[d].row \in Rows
        /\ \A c \in Checkers : chk[c].pc = "writeback" => chk[c].row \in Rows
        /\ \A h \in Handlers : hand[h].pc = "writeback" => hand[h].row \in Rows
    BY DEF TypeInv, DispOK, ChkOK, HandOK
  <1>3. \A r \in Rows : bcd'[r] \in {"F", "ID"} => pg'[r].flag = "F"
    BY <1>1 DEF NewsTrue, GivenUpInv
  <1>4. ASSUME NEW d \in Dispatchers, disp'[d].pc = "writeback", disp'[d].code # REGISTERED
        PROVE  pg'[disp'[d].row].flag = "F"
    BY <1>1, <1>2, <1>4 DEF DispNewsTrue, GivenUpInv
  <1>5. ASSUME NEW c \in Checkers, chk'[c].pc = "writeback", chk'[c].code # SUCCESS
        PROVE  pg'[chk'[c].row].flag = "F"
    BY <1>1, <1>2, <1>5 DEF ChkNewsTrue, GivenUpInv
  <1>6. ASSUME NEW h \in Handlers, hand'[h].pc = "writeback", hand'[h].code # SUCCESS
        PROVE  pg'[hand'[h].row].flag = "F"
    BY <1>1, <1>2, <1>6 DEF HandNewsTrue, GivenUpInv
  <1> QED
    BY <1>3, <1>4, <1>5, <1>6 DEF GivenUpInv

(* The processor writes F before it tells of a failure.                      *)
LEMMA ProcessorGivesUp ==
  ASSUME TypeInv, GivenUpInv, NEW d \in Dispatchers, ProcessorStep(d)
  PROVE  /\ NewsTrue
         /\ \A e \in Dispatchers : DispNewsTrue(e)
  <1>0. /\ disp \in [Dispatchers -> DispState] /\ disp[d] \in DispState
        /\ pg \in [Rows -> Row] /\ (\A r \in Rows : pg[r] \in Row)
        /\ bcd \in [Rows -> BcdStatuses]
        /\ disp[d].pc \in {"record", "writeback"} => disp[d].row \in Rows
    BY DEF TypeInv, DispOK, DispTypeOK, StoreOK, SharedTypeOK
  <1>1. \A e \in Dispatchers : e # d => disp'[e] = disp[e]
    BY OtherRunsWait
  <1>2. ASSUME bcd' = bcd, DispNewsTrue(d)
        PROVE  NewsTrue /\ \A e \in Dispatchers : DispNewsTrue(e)
    BY <1>1, <1>2 DEF NewsTrue, DispNewsTrue
  <1>l. ASSUME NEW todo, NEW spent, Loop(d, todo, spent)
        PROVE  disp'[d].pc # "writeback"
    BY <1>0, <1>l DEF Loop, DispIdle
  <1>3. CASE FetchPending(d)
    <2>1. disp'[d].pc = "fetched"
      BY <1>0, <1>3 DEF FetchPending, DispIdle
    <2> QED
      BY <1>2, <1>3, <2>1 DEF FetchPending, shared, DispNewsTrue
  <1>4. CASE DeferBatch(d) \/ DecryptFails(d) \/ SkipExhaustedDealer(d) \/ RecordRetryRejected(d)
    BY <1>2, <1>4, <1>l
       DEF DeferBatch, DecryptFails, SkipExhaustedDealer, RecordRetryRejected, shared, DispNewsTrue
  <1>5. CASE RechargeAccepted(d) \/ RechargeRefused(d)
    <2>1. \E s, code, trans : InHand(d, s, code, trans)
      BY <1>5 DEF RechargeAccepted, RechargeRefused
    <2>2. disp'[d].pc = "record"
      BY <1>0, <2>1 DEF InHand
    <2> QED
      BY <1>2, <1>5, <2>2 DEF RechargeAccepted, RechargeRefused, shared, DispNewsTrue
  <1>6. CASE RecordPushed(d)
    <2>1. disp'[d].code = REGISTERED
      BY <1>0, <1>6 DEF RecordPushed, ToWriteback, DispState
    <2> QED
      BY <1>2, <1>6, <2>1 DEF RecordPushed, DispNewsTrue
  <1>7. CASE RecordFailed(d)
    <2>1. PICK q \in Rows : q = disp[d].row
      BY <1>0, <1>7 DEF RecordFailed
    <2>2. disp'[d].row = q
      BY <1>0, <1>7, <2>1 DEF RecordFailed, ToWriteback, DispState
    <2>3. pg'[q].flag = "F"
      BY <1>0, <1>7, <2>1, RowEffects, 0 \in Nat DEF RecordFailed
    <2> QED
      BY <1>2, <1>7, <2>2, <2>3 DEF RecordFailed, DispNewsTrue
  <1>8. CASE RecordRetry(d)
    <2>1. PICK todo, spent : Loop(d, todo, spent)
      BY <1>8 DEF RecordRetry
    <2> QED
      BY <1>2, <1>8, <1>l, <2>1 DEF RecordRetry, DispNewsTrue
  <1>9. CASE DispWriteback(d)
    <2>1. \A e \in Dispatchers : DispNewsTrue(e)
      BY <1>1, <1>9, <1>l DEF DispWriteback, DispNewsTrue
    <2>2. PICK q \in Rows : q = disp[d].row
      BY <1>0, <1>9 DEF DispWriteback
    <2>3. \A r \in Rows : bcd'[r] # bcd[r] => r = q /\ bcd'[r] = BcdAfter(disp[d].code)
      BY <1>0, <1>9, <2>2 DEF DispWriteback, UpdateBcdStatus
    <2>4. disp[d].code = REGISTERED => BcdAfter(disp[d].code) = "W"
      BY DEF BcdAfter, REGISTERED, PERMANENT_FAILURE_CODES
    <2>5. disp[d].code # REGISTERED => pg'[q].flag = "F"
      BY <1>9, <2>2 DEF DispWriteback, GivenUpInv
    <2> QED
      BY <2>1, <2>3, <2>4, <2>5 DEF NewsTrue
  <1> QED
    BY <1>3, <1>4, <1>5, <1>6, <1>7, <1>8, <1>9 DEF ProcessorStep, DispStep

(* So does the status checker, which only gives up what Pyro says failed.    *)
LEMMA CheckerGivesUp ==
  ASSUME IdsCome, FinalInv, GivenUpInv, NEW c \in Checkers, CheckerStep(c)
  PROVE  /\ NewsTrue
         /\ \A e \in Checkers : ChkNewsTrue(e)
  <1>0. /\ chk \in [Checkers -> ChkState] /\ chk[c] \in ChkState
        /\ pg \in [Rows -> Row] /\ (\A r \in Rows : pg[r] \in Row)
        /\ bcd \in [Rows -> BcdStatuses]
        /\ chk[c].pc \notin {"idle", "loop"} => chk[c].row \in Rows
    BY DEF FinalInv, TypeInv, ChkOK, ChkTypeOK, StoreOK, SharedTypeOK
  <1>1. \A e \in Checkers : e # c => chk'[e] = chk[e]
    BY OtherChecksWait DEF FinalInv
  <1>2. ASSUME bcd' = bcd, ChkNewsTrue(c)
        PROVE  NewsTrue /\ \A e \in Checkers : ChkNewsTrue(e)
    BY <1>1, <1>2 DEF NewsTrue, ChkNewsTrue
  <1>l. ASSUME NEW todo, ChkLoop(c, todo)
        PROVE  ChkNewsTrue(c)
    BY <1>0, <1>l DEF ChkLoop, ChkIdle, ChkNewsTrue
  <1>3. CASE FetchDue(c)
    <2>1. chk'[c].pc = "loop"
      BY <1>0, <1>3 DEF FetchDue, ChkIdle
    <2> QED
      BY <1>2, <1>3, <2>1 DEF FetchDue, shared, ChkNewsTrue
  <1>4. CASE CountAttempt(c)
    <2>1. chk'[c].pc \in {"query", "noresponse"}
      BY <1>0, <1>4 DEF CountAttempt, ChkState
    <2> QED
      BY <1>2, <1>4, <2>1 DEF CountAttempt, ChkNewsTrue
  <1>5. CASE WriteNoResponse(c)
    <2>1. chk'[c].pc = "query"
      BY <1>0, <1>5 DEF WriteNoResponse, ChkState
    <2>2. \A e \in Checkers : ChkNewsTrue(e)
      BY <1>1, <2>1 DEF ChkNewsTrue
    <2>3. NewsTrue
      BY <1>0, <1>5 DEF WriteNoResponse, UpdateBcdStatus, NewsTrue
    <2> QED
      BY <2>2, <2>3
  <1>6. CASE QueryStatus(c)
    <2>1. chk'[c].pc = "record"
      BY <1>0, <1>6 DEF QueryStatus, ChkState
    <2> QED
      BY <1>2, <1>6, <2>1 DEF QueryStatus, shared, ChkNewsTrue
  <1>7. CASE RecordCheckSuccess(c) \/ RecordCheckFailed(c)
    <2>1. PICK q \in Rows : q = chk[c].row
      BY <1>0, <1>7 DEF RecordCheckSuccess, RecordCheckFailed
    <2>2. chk'[c].row = q /\ chk'[c].code = chk[c].code
      BY <1>0, <1>7, <2>1 DEF RecordCheckSuccess, RecordCheckFailed, ChkToWriteback, ChkState
    <2>3. chk[c].code = SUCCESS \/ pg'[q].flag = "F"
      BY <1>0, <1>7, <2>1, RowEffects, 0 \in Nat DEF RecordCheckSuccess, RecordCheckFailed
    <2> QED
      BY <1>2, <1>7, <2>2, <2>3 DEF RecordCheckSuccess, RecordCheckFailed, ChkNewsTrue
  <1>8. CASE RecordNotFound(c)
    BY <1>2, <1>8, <1>l DEF RecordNotFound
  <1>9. CASE RecordUnknown(c) \/ RecordUnknownRejected(c)
    BY <1>9, NothingRequeued DEF RecordUnknown, RecordUnknownRejected
  <1>10. CASE ChkWriteback(c)
    <2>1. \A e \in Checkers : ChkNewsTrue(e)
      BY <1>1, <1>10, <1>l DEF ChkWriteback, ChkNewsTrue
    <2>2. PICK q \in Rows : q = chk[c].row
      BY <1>0, <1>10 DEF ChkWriteback
    <2>3. \A r \in Rows : bcd'[r] # bcd[r] =>
            r = q /\ bcd'[r] = IF chk[c].code = SUCCESS THEN "P" ELSE "F"
      BY <1>0, <1>10, <2>2 DEF ChkWriteback, UpdateBcdStatus
    <2>4. chk[c].code # SUCCESS => pg'[q].flag = "F"
      BY <1>10, <2>2 DEF ChkWriteback, GivenUpInv
    <2> QED
      BY <2>1, <2>3, <2>4 DEF NewsTrue
  <1> QED
    BY <1>3, <1>4, <1>5, <1>6, <1>7, <1>8, <1>9, <1>10 DEF CheckerStep, ChkStep

(* And the callback endpoint.                                                *)
LEMMA CallbackGivesUp ==
  ASSUME TypeInv, GivenUpInv, NEW h \in Handlers, CallbackStep(h)
  PROVE  /\ NewsTrue
         /\ \A g \in Handlers : HandNewsTrue(g)
  <1>0. /\ hand \in [Handlers -> HandState] /\ hand[h] \in HandState
        /\ pg \in [Rows -> Row] /\ (\A r \in Rows : pg[r] \in Row)
        /\ bcd \in [Rows -> BcdStatuses]
        /\ hand[h].pc # "idle" => hand[h].row \in Rows
    BY DEF TypeInv, HandOK, HandTypeOK, StoreOK, SharedTypeOK
  <1>1. \A g \in Handlers : g # h => hand'[g] = hand[g]
    BY <1>0 DEF CallbackStep, HandStep, Receive, RecordCallback, HandWriteback
  <1>2. ASSUME bcd' = bcd, HandNewsTrue(h)
        PROVE  NewsTrue /\ \A g \in Handlers : HandNewsTrue(g)
    BY <1>1, <1>2 DEF NewsTrue, HandNewsTrue
  <1>3. CASE Receive(h)
    <2>1. hand'[h].pc = "record"
      BY <1>0, <1>3 DEF Receive
    <2> QED
      BY <1>2, <1>3, <2>1 DEF Receive, shared, HandNewsTrue
  <1>4. CASE RecordCallback(h)
    <2>1. PICK q \in Rows : q = hand[h].row
      BY <1>0, <1>4 DEF RecordCallback
    <2>2. hand'[h].row = q /\ hand'[h].code = hand[h].code
      BY <1>0, <1>4, <2>1 DEF RecordCallback, HandState
    <2>3. hand[h].code = SUCCESS \/ pg'[q].flag = "F"
      BY <1>0, <1>4, <2>1, RowEffects, 0 \in Nat DEF RecordCallback
    <2> QED
      BY <1>2, <1>4, <2>2, <2>3 DEF RecordCallback, HandNewsTrue
  <1>5. CASE HandWriteback(h)
    <2>1. hand'[h].pc = "idle"
      BY <1>0, <1>5 DEF HandWriteback, HandIdle
    <2>2. \A g \in Handlers : HandNewsTrue(g)
      BY <1>1, <2>1 DEF HandNewsTrue
    <2>3. PICK q \in Rows : q = hand[h].row
      BY <1>0, <1>5 DEF HandWriteback
    <2>4. \A r \in Rows : bcd'[r] # bcd[r] =>
            r = q /\ bcd'[r] = IF hand[h].code = SUCCESS THEN "P"
                               ELSE BcdStatusForPyroFailure(hand[h].code)
      BY <1>0, <1>5, <2>3 DEF HandWriteback, UpdateBcdStatus
    <2>5. hand[h].code # SUCCESS => pg'[q].flag = "F"
      BY <1>5, <2>3 DEF HandWriteback, GivenUpInv
    <2> QED
      BY <2>2, <2>4, <2>5 DEF NewsTrue
  <1> QED
    BY <1>3, <1>4, <1>5 DEF CallbackStep, HandStep

LEMMA InitGivesUp == Init => GivenUpInv
  BY DEF Init, SharedInit, DispInit, ChkInit, HandInit, DispIdle, ChkIdle, HandIdle, GivenUpInv

(* Every step keeps the failures told true.                                  *)
LEMMA NextGivesUp ==
  ASSUME IdsCome, FinalInv, GivenUpInv, [Next]_vars
  PROVE  GivenUpInv'
  <1>0. TypeInv /\ VerdictsKept
    BY NextFinal DEF IdsCome, FinalInv
  <1>i. ASSUME disp' = disp
        PROVE  \A d \in Dispatchers : DispNewsTrue(d)
    BY <1>i DEF DispNewsTrue
  <1>j. ASSUME chk' = chk
        PROVE  \A c \in Checkers : ChkNewsTrue(c)
    BY <1>j DEF ChkNewsTrue
  <1>k. ASSUME hand' = hand
        PROVE  \A h \in Handlers : HandNewsTrue(h)
    BY <1>k DEF HandNewsTrue
  <1>1. CASE Environment
    <2>1. NewsTrue
      <3>1. bcd \in [Rows -> BcdStatuses]
        BY <1>0 DEF TypeInv, StoreOK, SharedTypeOK
      <3> QED
        BY <1>1, <3>1 DEF Environment, Settle, Ripen, Lapse, LinkBcd, NewsTrue
    <2> QED
      BY <1>0, <1>1, <1>i, <1>j, <1>k, <2>1, GivenUpKept DEF Environment
  <1>2. ASSUME NEW d \in Dispatchers, ProcessorStep(d) PROVE GivenUpInv'
    BY <1>0, <1>2, <1>j, <1>k, ProcessorGivesUp, GivenUpKept DEF ProcessorStep
  <1>3. ASSUME NEW c \in Checkers, CheckerStep(c) PROVE GivenUpInv'
    BY <1>0, <1>3, <1>i, <1>k, CheckerGivesUp, GivenUpKept DEF CheckerStep
  <1>4. ASSUME NEW h \in Handlers, CallbackStep(h) PROVE GivenUpInv'
    BY <1>0, <1>4, <1>i, <1>j, CallbackGivesUp, GivenUpKept DEF CallbackStep
  <1>5. CASE Abort
    <2>1. /\ bcd' = bcd
          /\ \A d \in Dispatchers : disp'[d] = disp[d] \/ disp'[d] = DispIdle
          /\ \A c \in Checkers : chk'[c] = chk[c] \/ chk'[c] = ChkIdle
          /\ \A h \in Handlers : hand'[h] = hand[h] \/ hand'[h] = HandIdle
      BY <1>0, <1>5 DEF Abort, DispAbort, ChkAbort, HandAbort, TypeInv, DispOK, DispTypeOK,
                        ChkOK, ChkTypeOK, HandOK, HandTypeOK
    <2>2. /\ NewsTrue
          /\ \A d \in Dispatchers : DispNewsTrue(d)
          /\ \A c \in Checkers : ChkNewsTrue(c)
          /\ \A h \in Handlers : HandNewsTrue(h)
      BY <2>1 DEF NewsTrue, DispNewsTrue, ChkNewsTrue, HandNewsTrue, DispIdle, ChkIdle, HandIdle
    <2> QED
      BY <1>0, <2>2, GivenUpKept
  <1>6. CASE UNCHANGED vars
    BY <1>6 DEF vars, shared, GivenUpInv
  <1> QED
    BY <1>1, <1>2, <1>3, <1>4, <1>5, <1>6 DEF Next

(* F in BCD means that the service has given up, whatever is cut short or    *)
(* runs beside the checks: no writeback of a failure comes before the        *)
(* verdict, or after the row went on.  The run "given_up" shows what a check *)
(* that tells nothing does.                                                  *)
THEOREM FailedMeansGivenUpHolds == IdsCome => (Spec => []FailedMeansGivenUp)
  <1> SUFFICES ASSUME IdsCome PROVE Spec => []FailedMeansGivenUp
    OBVIOUS
  <1>1. GivenUpInv => FailedMeansGivenUp
    BY DEF GivenUpInv, FailedMeansGivenUp, Pending
  <1>2. Init => FinalInv /\ GivenUpInv
    BY InitFinal, InitGivesUp
  <1>3. FinalInv /\ GivenUpInv /\ [Next]_vars => FinalInv' /\ GivenUpInv'
    BY NextFinal, NextGivesUp DEF IdsCome
  <1> QED
    BY <1>1, <1>2, <1>3, PTL DEF Spec

(* E means retried, where moreover Pyro and the token manager never give the *)
(* answers that are retried whatever the attempt.                            *)
RetriesEnd == (AcceptCodes \cup RejectCodes) \cap AlwaysRetried = {}

(* A queued row has a retry left, and the attempt the processor compares     *)
(* with max_retries is not behind the count in the table.                    *)
QueueInv ==
  /\ \A r \in Rows : Open(r) => Pending(pg[r])
  /\ \A d \in Dispatchers :
       /\ \A s \in disp[d].todo : s.retry = pg[s.row].retry
       /\ disp[d].pc = "record" =>
            /\ disp[d].attempt = pg[disp[d].row].retry + 1
            /\ disp[d].code \notin AlwaysRetried

(* No retry counted, no row put in the queue.                                *)
QueueKept == \A r \in Rows : pg'[r].retry = pg[r].retry /\ (Open(r)' => Open(r))

RunKept(d) ==
  /\ disp'[d].todo \subseteq disp[d].todo
  /\ disp'[d].pc = "record" => disp'[d] = disp[d]

LEMMA QueueStays ==
  ASSUME TypeInv, QueueInv, QueueKept, \A d \in Dispatchers : RunKept(d)
  PROVE  QueueInv'
  <1>1. /\ \A d \in Dispatchers : \A s \in disp[d].todo : s.row \in Rows
        /\ \A d \in Dispatchers : disp[d].pc = "record" => disp[d].row \in Rows
    BY DEF TypeInv, DispOK, DispTypeOK, DispState, Snapshot
  <1>2. \A r \in Rows : Open(r)' => Pending(pg[r])'
    BY DEF QueueInv, QueueKept, Open, Pending
  <1>3. ASSUME NEW d \in Dispatchers
        PROVE  /\ \A s \in disp'[d].todo : s.retry = pg'[s.row].retry
               /\ disp'[d].pc = "record" =>
                    /\ disp'[d].attempt = pg'[disp'[d].row].retry + 1
                    /\ disp'[d].code \notin AlwaysRetried
    BY <1>1 DEF QueueInv, QueueKept, RunKept
  <1> QED
    BY <1>2, <1>3 DEF QueueInv

(* The processor marks E only where the count leaves room for another try.   *)
LEMMA ProcessorQueues ==
  ASSUME RetriesEnd, OneProcessor, TypeInv, BatchOK, QueueInv,
         NEW d \in Dispatchers, ProcessorStep(d)
  PROVE  QueueInv'
  <1>0. /\ disp \in [Dispatchers -> DispState] /\ disp[d] \in DispState
        /\ pg \in [Rows -> Row] /\ (\A r \in Rows : pg[r] \in Row /\ pg[r].retry \in Nat)
        /\ disp[d].pc \in {"record", "writeback"} => disp[d].row \in Rows
        /\ \A s \in disp[d].todo : s.row \in Rows /\ s.retry \in Nat
        /\ \A e \in Dispatchers : e = d
        /\ MaxRetries \in Nat
    BY MaxRetriesAssumption
       DEF TypeInv, DispOK, DispTypeOK, DispState, Snapshot, StoreOK, SharedTypeOK, Row,
           OneProcessor
  <1>l. ASSUME NEW todo \in SUBSET disp[d].todo, NEW spent, Loop(d, todo, spent)
        PROVE  disp'[d].todo = todo /\ disp'[d].pc # "record" /\ RunKept(d)
    <2>1. disp'[d] = IF todo = {} THEN DispIdle
                     ELSE [DispIdle EXCEPT !.pc = "loop", !.todo = todo, !.spent = spent]
      BY <1>0, <1>l DEF Loop
    <2> QED
      BY <2>1 DEF DispIdle, RunKept
  <1>k. ASSUME QueueKept, RunKept(d)
        PROVE  QueueInv'
    BY <1>0, <1>k, QueueStays
  <1>f. ASSUME pg' = pg,
               \A s \in disp'[d].todo : s.retry = pg[s.row].retry,
               disp'[d].pc = "record" => /\ disp'[d].attempt = pg[disp'[d].row].retry + 1
                                         /\ disp'[d].code \notin AlwaysRetried
        PROVE  QueueInv'
    BY <1>0, <1>f DEF QueueInv, Open
  <1>1. CASE FetchPending(d)
    <2>1. PICK B \in SUBSET Rows :
            disp' = [disp EXCEPT ![d] = [DispIdle EXCEPT !.pc = "fetched",
                       !.todo = {[row |-> r, retry |-> pg[r].retry] : r \in B}]]
      BY <1>1 DEF FetchPending
    <2>2. /\ disp'[d].todo = {[row |-> r, retry |-> pg[r].retry] : r \in B}
          /\ disp'[d].pc = "fetched"
      BY <1>0, <2>1 DEF DispIdle
    <2>3. \A s \in disp'[d].todo : s.retry = pg[s.row].retry
      BY <2>2
    <2> QED
      BY <1>1, <1>f, <2>2, <2>3 DEF FetchPending, shared
  <1>2. CASE DeferBatch(d) \/ DecryptFails(d) \/ SkipExhaustedDealer(d) \/ RecordRetryRejected(d)
             \/ DispWriteback(d)
    <2>1. \E todo \in SUBSET disp[d].todo : \E spent : Loop(d, todo, spent)
      BY <1>2 DEF DeferBatch, DecryptFails, SkipExhaustedDealer, RecordRetryRejected, DispWriteback
    <2>2. pg' = pg
      BY <1>2 DEF DeferBatch, DecryptFails, SkipExhaustedDealer, RecordRetryRejected, DispWriteback, shared
    <2>3. QueueKept
      BY <2>2 DEF QueueKept, Open
    <2> QED
      BY <1>k, <1>l, <2>1, <2>3
  <1>3. CASE RechargeAccepted(d) \/ RechargeRefused(d)
    <2>1. PICK s \in disp[d].todo, code \in AcceptCodes \cup RejectCodes :
            \E trans : InHand(d, s, code, trans)
      BY <1>3 DEF RechargeAccepted, RechargeRefused
    <2>2. PICK trans : InHand(d, s, code, trans)
      BY <2>1
    <2>3. /\ disp'[d].todo = disp[d].todo \ {s} /\ disp'[d].row = s.row
          /\ disp'[d].code = code /\ disp'[d].attempt = s.retry + 1
      BY <1>0, <2>2 DEF InHand, DispState
    <2>4. pg' = pg
      BY <1>3 DEF RechargeAccepted, RechargeRefused, shared
    <2> QED
      BY <1>f, <2>1, <2>3, <2>4 DEF QueueInv, RetriesEnd
  <1>4. CASE RecordPushed(d) \/ RecordFailed(d)
    <2>1. PICK q \in Rows : q = disp[d].row
      BY <1>0, <1>4 DEF RecordPushed, RecordFailed
    <2>2. /\ disp'[d].todo = disp[d].todo /\ disp'[d].pc = "writeback"
          /\ disp[d].trans \in Nat
      BY <1>0, <1>4 DEF RecordPushed, RecordFailed, ToWriteback, DispState
    <2>3. /\ \A r \in Rows : r # q => pg'[r] = pg[r]
          /\ pg'[q].flag \in {"P", "F"} /\ pg'[q].retry = pg[q].retry
      BY <1>0, <1>4, <2>1, <2>2, MarkEffects, 0 \in Nat DEF RecordPushed, RecordFailed
    <2>4. QueueKept
      BY <2>3 DEF QueueKept, Open
    <2> QED
      BY <1>k, <2>2, <2>4 DEF RunKept
  <1>5. CASE RecordRetry(d)
    <2>1. PICK q \in Rows : q = disp[d].row
      BY <1>0, <1>5 DEF RecordRetry, Retrying
    <2>2. disp[d].pc = "record" /\ disp[d].attempt = pg[q].retry + 1
      BY <1>5, <2>1 DEF RecordRetry, Retrying, QueueInv
    <2>3. ~(disp[d].attempt >= MaxRetries)
      BY <1>5 DEF RecordRetry, Retrying, FlagAfter, QueueInv
    <2>4. PICK todo \in SUBSET disp[d].todo : \E spent : Loop(d, todo, spent)
      BY <1>5 DEF RecordRetry
    <2>5. disp'[d].todo = todo /\ disp'[d].pc # "record"
      BY <1>l, <2>4
    <2>6. /\ \A r \in Rows : r # q => pg'[r] = pg[r]
          /\ pg'[q].flag = "E" /\ pg'[q].retry = pg[q].retry + 1
      BY <1>0, <1>5, <2>1, MarkEffects, 0 \in Nat DEF RecordRetry
    <2>7. pg'[q].retry <= MaxRetries
      BY <1>0, <2>2, <2>3, <2>6
    <2>8. \A r \in Rows : Open(r)' => Pending(pg[r])'
      BY <2>6, <2>7 DEF QueueInv, Open, Pending
    <2>9. \A s \in todo : s.row # q /\ s.retry = pg'[s.row].retry
      <3>1. \A s \in todo : s.row # q
        BY <2>1, <2>2 DEF BatchOK
      <3> QED
        BY <1>0, <2>6, <3>1 DEF QueueInv
    <2> QED
      BY <1>0, <2>5, <2>8, <2>9 DEF QueueInv
  <1> QED
    BY <1>1, <1>2, <1>3, <1>4, <1>5 DEF ProcessorStep, DispStep

(* Nobody else counts a retry or puts a row in the queue.                    *)
LEMMA CheckerQueues ==
  ASSUME IdsCome, FinalInv, QueueInv, NEW c \in Checkers, CheckerStep(c)
  PROVE  QueueKept
  <1>0. /\ chk[c] \in ChkState
        /\ pg \in [Rows -> Row] /\ (\A r \in Rows : pg[r] \in Row)
        /\ chk[c].pc \notin {"idle", "loop"} => chk[c].row \in Rows
        /\ \A s \in chk[c].todo : s.row \in Rows
    BY DEF FinalInv, TypeInv, ChkOK, ChkTypeOK, ChkState, Seen, StoreOK, SharedTypeOK
  <1>1. CASE pg' = pg
    BY <1>1 DEF QueueKept, Open
  <1>2. CASE CountAttempt(c) \/ RecordNotFound(c)
    <2>1. PICK q \in Rows : pg' = [pg EXCEPT ![q] = UpdateStatusCheckAttempt(pg[q])]
      BY <1>0, <1>2 DEF CountAttempt, RecordNotFound
    <2> QED
      BY <1>0, <2>1, MarkEffects, 0 \in Nat DEF QueueKept, Open
  <1>3. CASE RecordCheckSuccess(c) \/ RecordCheckFailed(c)
    <2>1. PICK q \in Rows : \/ pg' = [pg EXCEPT ![q] = MarkAsSuccess(pg[q])]
                            \/ pg' = [pg EXCEPT ![q] = MarkAsFailed(pg[q])]
      BY <1>0, <1>3 DEF RecordCheckSuccess, RecordCheckFailed
    <2>2. /\ \A r \in Rows : r # q => pg'[r] = pg[r]
          /\ pg'[q].flag \in {"Y", "F"} /\ pg'[q].retry = pg[q].retry
      BY <1>0, <2>1, MarkEffects, 0 \in Nat
    <2> QED
      BY <2>2 DEF QueueKept, Open
  <1>4. CASE RecordUnknown(c) \/ RecordUnknownRejected(c)
    BY <1>4, NothingRequeued DEF RecordUnknown, RecordUnknownRejected
  <1> QED
    BY <1>1, <1>2, <1>3, <1>4
       DEF CheckerStep, ChkStep, FetchDue, WriteNoResponse, QueryStatus, ChkWriteback, shared

LEMMA CallbackQueues ==
  ASSUME TypeInv, NEW h \in Handlers, CallbackStep(h)
  PROVE  QueueKept
  <1>0. /\ pg \in [Rows -> Row] /\ (\A r \in Rows : pg[r] \in Row)
        /\ hand[h].pc # "idle" => hand[h].row \in Rows
    BY DEF TypeInv, HandOK, StoreOK, SharedTypeOK
  <1>1. CASE pg' = pg
    BY <1>1 DEF QueueKept, Open
  <1>2. CASE RecordCallback(h)
    <2>1. PICK q \in Rows : q = hand[h].row
      BY <1>0, <1>2 DEF RecordCallback
    <2>2. /\ \A r \in Rows : r # q => pg'[r] = pg[r]
          /\ pg'[q].flag \in {"Y", "F"} /\ pg'[q].retry = pg[q].retry
      BY <1>0, <1>2, <2>1, MarkEffects, 0 \in Nat DEF RecordCallback
    <2> QED
      BY <2>2 DEF QueueKept, Open
  <1> QED
    BY <1>1, <1>2 DEF CallbackStep, HandStep, Receive, HandWriteback, shared

LEMMA EnvironmentQueues ==
  ASSUME TypeInv, Environment
  PROVE  QueueKept
  <1>1. PICK r \in Rows : Settle(r) \/ Ripen(r) \/ Lapse(r) \/ LinkBcd(r)
    BY DEF Environment
  <1>2. pg \in [Rows -> Row]
    BY DEF TypeInv, StoreOK, SharedTypeOK
  <1>3. CASE Settle(r) \/ LinkBcd(r)
    BY <1>3 DEF Settle, LinkBcd, QueueKept, Open
  <1>4. ASSUME NEW age, pg' = [pg EXCEPT ![r].age = age]
        PROVE  QueueKept
    <2>1. pg' = [pg EXCEPT ![r] = [pg[r] EXCEPT !.age = age]]
      BY <1>2, <1>4
    <2> QED
      BY <1>2, <2>1 DEF Row, QueueKept, Open
  <1>5. CASE Ripen(r) \/ Lapse(r)
    BY <1>4, <1>5 DEF Ripen, Lapse
  <1> QED
    BY <1>1, <1>3, <1>5

LEMMA InitQueues == Init => QueueInv
  <1> SUFFICES ASSUME Init PROVE QueueInv
    OBVIOUS
  <1>1. \A r \in Rows : pg[r].flag = "N" /\ pg[r].retry = 0
    BY DEF Init, SharedInit, NewRow
  <1>2. \A d \in Dispatchers : disp[d].todo = {} /\ disp[d].pc = "idle"
    BY DEF Init, DispInit, DispIdle
  <1> QED
    BY <1>1, <1>2, MaxRetriesAssumption DEF QueueInv, Open, Pending

LEMMA NextQueues ==
  ASSUME IdsCome, RetriesEnd, FinalInv, QueueInv, [Next]_vars
  PROVE  QueueInv'
  <1>0. TypeInv /\ BatchOK /\ OneProcessor
    BY DEF IdsCome, ChecksTell, FinalInv
  <1>1. ASSUME disp' = disp, QueueKept
        PROVE  QueueInv'
    BY <1>0, <1>1, QueueStays DEF RunKept
  <1>2. CASE Environment
    BY <1>0, <1>1, <1>2, EnvironmentQueues DEF Environment
  <1>3. ASSUME NEW d \in Dispatchers, ProcessorStep(d) PROVE QueueInv'
    BY <1>0, <1>3, ProcessorQueues
  <1>4. ASSUME NEW c \in Checkers, CheckerStep(c) PROVE QueueInv'
    BY <1>1, <1>4, CheckerQueues DEF CheckerStep
  <1>5. ASSUME NEW h \in Handlers, CallbackStep(h) PROVE QueueInv'
    BY <1>0, <1>1, <1>5, CallbackQueues DEF CallbackStep
  <1>6. CASE Abort
    <2>1. /\ pg' = pg
          /\ \A d \in Dispatchers : disp'[d] = disp[d] \/ disp'[d] = DispIdle
      BY <1>0, <1>6 DEF Abort, DispAbort, ChkAbort, HandAbort, TypeInv, DispOK, DispTypeOK
    <2>2. QueueKept /\ \A d \in Dispatchers : RunKept(d)
      BY <2>1 DEF QueueKept, RunKept, Open, DispIdle
    <2> QED
      BY <1>0, <2>2, QueueStays
  <1>7. CASE UNCHANGED vars
    BY <1>1, <1>7 DEF vars, shared, QueueKept, Open
  <1> QED
    BY <1>2, <1>3, <1>4, <1>5, <1>6, <1>7 DEF Next

(* A row at E is one the SELECT of fetch_pending_rows still finds: the last  *)
(* attempt ends in F.  The run "retried" shows what the three answers that   *)
(* are retried whatever the attempt do.                                      *)
THEOREM RetriedAutomaticallyHolds == IdsCome /\ RetriesEnd => (Spec => []RetriedAutomatically)
  <1> SUFFICES ASSUME IdsCome, RetriesEnd PROVE Spec => []RetriedAutomatically
    OBVIOUS
  <1>1. QueueInv => RetriedAutomatically
    BY DEF QueueInv, Open, RetriedAutomatically
  <1>2. Init => FinalInv /\ QueueInv
    BY InitFinal, InitQueues
  <1>3. FinalInv /\ QueueInv /\ [Next]_vars => FinalInv' /\ QueueInv'
    BY NextFinal, NextQueues DEF IdsCome
  <1> QED
    BY <1>1, <1>2, <1>3, PTL DEF Spec
=============================================================================
