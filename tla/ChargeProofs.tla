----------------------------- MODULE ChargeProofs -----------------------------
(* What a subscriber is charged, for every value of the constants: any       *)
(* number of runs of each job and of callback handlers, any codes, any       *)
(* faults.  ChargeBound, RetriesTellCharges and BlockedByBadMpin.            *)
EXTENDS ServiceProofs, FiniteSetTheorems

(* A POST is paid for by a ticket: the run that made it and the retry_count  *)
(* the row had when that run fetched it.                                     *)
Tickets == Dispatchers \X (0..MaxRetries)

InHandOf(d, r) == disp[d].pc = "record" /\ disp[d].row = r
ToDo(flag) == flag \in {"N", "E"}

(* A run remembers a row once, with a retry count that allowed the fetch and *)
(* that the row has not fallen below since.                                  *)
SnapshotsOK ==
  \A d \in Dispatchers :
    /\ \A s, t \in disp[d].todo : s.row = t.row => s = t
    /\ \A s \in disp[d].todo : s.retry <= MaxRetries /\ s.retry <= pg[s.row].retry

(* Tickets that cannot be used again: their run would have to fetch the row  *)
(* with a retry count that the row is past, or is past once the run has      *)
(* written what became of its POST.                                          *)
Spent(r, T) ==
  \A d \in Dispatchers, k \in 0..MaxRetries : <<d, k>> \in T =>
    /\ k <= pg[r].retry
    /\ ToDo(pg[r].flag) /\ ~InHandOf(d, r) => k < pg[r].retry
    /\ \A s \in disp[d].todo : s.row = r => k < s.retry

(* Every charge of the row has taken a ticket or a run cut short.            *)
PaidWith(r, T) == Len(ledger[r]) <= Cardinality(T) + aborts

ChargeInv ==
  /\ SnapshotsOK
  /\ \A r \in Rows : \E T \in SUBSET Tickets : Spent(r, T) /\ PaidWith(r, T)

(* The numbers the proof counts with.                                        *)
LEMMA Numbers ==
  ASSUME TypeInv
  PROVE  /\ MaxRetries \in Nat /\ aborts \in Nat
         /\ \A r \in Rows : ledger[r] \in Seq(Outcomes) /\ Len(ledger[r]) \in Nat
         /\ \A r \in Rows : pg[r] \in Row /\ pg[r].retry \in Nat
         /\ pg \in [Rows -> Row] /\ ledger \in [Rows -> Seq(Outcomes)]
         /\ disp \in [Dispatchers -> DispState]
         /\ \A d \in Dispatchers : disp[d] \in DispState
         /\ \A d \in Dispatchers : disp[d].pc \in {"record", "writeback"} => disp[d].row \in Rows
         /\ \A d \in Dispatchers : \A s \in disp[d].todo : s.row \in Rows /\ s.retry \in Nat
  BY MaxRetriesAssumption, ServiceAssumption
     DEF TypeInv, StoreOK, SharedTypeOK, Row, DispOK, DispTypeOK, DispState, Snapshot

(* There are |Dispatchers| * (MaxRetries + 1) tickets.                       *)
LEMMA TicketCount ==
  /\ IsFiniteSet(Tickets)
  /\ Cardinality(Tickets) = Cardinality(Dispatchers) * (MaxRetries + 1)
  <1>1. IsFiniteSet(0..MaxRetries) /\ Cardinality(0..MaxRetries) = MaxRetries + 1
    BY MaxRetriesAssumption, FS_Interval
  <1> QED
    BY <1>1, ProcessorAssumption, FS_Product DEF Tickets

(* Any set of tickets is finite and no larger.                               *)
LEMMA SomeTickets ==
  ASSUME NEW T \in SUBSET Tickets
  PROVE  /\ IsFiniteSet(T) /\ Cardinality(T) \in Nat
         /\ Cardinality(T) <= Cardinality(Dispatchers) * (MaxRetries + 1)
  BY TicketCount, FS_Subset, FS_CardinalityType

-----------------------------------------------------------------------------
(* What a step may do to a row: its retry count stays, and then the row is   *)
(* not put back in the queue, or it goes up by one.                          *)
RowMoves(r) ==
  \/ pg'[r].retry = pg[r].retry /\ (ToDo(pg'[r].flag) => ToDo(pg[r].flag))
  \/ pg'[r].retry = pg[r].retry + 1

(* What a run may do with its batch when it posts nothing: drop rows of it,  *)
(* or fetch a new one while it is idle.                                      *)
BatchMoves(d) ==
  \/ disp'[d].todo \subseteq disp[d].todo
  \/ /\ disp[d].pc = "idle"
     /\ \A s, t \in disp'[d].todo : s.row = t.row => s = t
     /\ \A s \in disp'[d].todo : Pending(pg[s.row]) /\ s.retry = pg[s.row].retry

(* How it may leave a row it has posted: out of the queue, one retry up, or  *)
(* with more retries than a fetch allows.                                    *)
HandMoves(d, r) ==
  InHandOf(d, r) => \/ InHandOf(d, r)'
                    \/ ~ToDo(pg'[r].flag)
                    \/ pg'[r].retry = pg[r].retry + 1
                    \/ pg[r].retry > MaxRetries

(* Such a step keeps the snapshots right.                                    *)
LEMMA SnapshotsKept ==
  ASSUME TypeInv, TypeInv', SnapshotsOK, \A r \in Rows : RowMoves(r),
         \A d \in Dispatchers : BatchMoves(d)
  PROVE  SnapshotsOK'
  <1> SUFFICES ASSUME NEW d \in Dispatchers
               PROVE  /\ \A s, t \in disp'[d].todo : s.row = t.row => s = t
                      /\ \A s \in disp'[d].todo :
                           s.retry <= MaxRetries /\ s.retry <= pg'[s.row].retry
    BY DEF SnapshotsOK
  <1>1. \A r \in Rows : pg[r].retry \in Nat /\ pg[r].retry <= pg'[r].retry /\ pg'[r].retry \in Nat
    BY Numbers DEF RowMoves
  <1>2. \A s \in disp'[d].todo : s.row \in Rows /\ s.retry \in Nat
    BY DEF TypeInv, DispOK, DispTypeOK, DispState, Snapshot
  <1>3. CASE disp'[d].todo \subseteq disp[d].todo
    BY <1>1, <1>2, <1>3 DEF SnapshotsOK
  <1>4. CASE ~(disp'[d].todo \subseteq disp[d].todo)
    BY <1>1, <1>2, <1>4 DEF BatchMoves, Pending
  <1> QED
    BY <1>3, <1>4

(* It makes no ticket of a row usable again.                                 *)
LEMMA SpentKept ==
  ASSUME TypeInv, TypeInv', NEW r \in Rows, NEW T \in SUBSET Tickets, Spent(r, T),
         RowMoves(r), \A d \in Dispatchers : BatchMoves(d) /\ HandMoves(d, r)
  PROVE  Spent(r, T)'
  <1> SUFFICES ASSUME NEW d \in Dispatchers, NEW k \in 0..MaxRetries, <<d, k>> \in T
               PROVE  /\ k <= pg'[r].retry
                      /\ ToDo(pg'[r].flag) /\ ~InHandOf(d, r)' => k < pg'[r].retry
                      /\ \A s \in disp'[d].todo : s.row = r => k < s.retry
    BY DEF Spent
  <1>1. /\ k \in Nat /\ pg[r].retry \in Nat /\ pg'[r].retry \in Nat /\ MaxRetries \in Nat
        /\ pg[r].retry <= pg'[r].retry
    BY Numbers DEF RowMoves
  <1>2. /\ k <= pg[r].retry
        /\ ToDo(pg[r].flag) /\ ~InHandOf(d, r) => k < pg[r].retry
        /\ \A s \in disp[d].todo : s.row = r => k < s.retry
    BY DEF Spent
  <1>3. k <= pg'[r].retry
    BY <1>1, <1>2
  <1>4. ASSUME ToDo(pg'[r].flag), ~InHandOf(d, r)'
        PROVE  k < pg'[r].retry
    <2>1. CASE pg'[r].retry = pg[r].retry + 1
      BY <1>1, <1>2, <2>1
    <2>2. CASE pg'[r].retry # pg[r].retry + 1
      <3>1. ToDo(pg[r].flag) /\ pg'[r].retry = pg[r].retry
        BY <1>4, <2>2 DEF RowMoves
      <3>2. CASE InHandOf(d, r)
        BY <1>1, <1>4, <2>2, <3>1, <3>2 DEF HandMoves
      <3>3. CASE ~InHandOf(d, r)
        BY <1>2, <3>1, <3>3
      <3> QED
        BY <3>2, <3>3
    <2> QED
      BY <2>1, <2>2
  <1>5. ASSUME NEW s \in disp'[d].todo, s.row = r
        PROVE  k < s.retry
    <2>1. CASE disp'[d].todo \subseteq disp[d].todo
      BY <1>2, <1>5, <2>1
    <2>2. CASE ~(disp'[d].todo \subseteq disp[d].todo)
      <3>1. disp[d].pc = "idle" /\ Pending(pg[r]) /\ s.retry = pg[r].retry
        BY <1>5, <2>2 DEF BatchMoves
      <3>2. ~InHandOf(d, r) /\ ToDo(pg[r].flag)
        BY <3>1 DEF InHandOf, ToDo, Pending
      <3> QED
        BY <1>2, <3>1, <3>2
    <2> QED
      BY <2>1, <2>2
  <1> QED
    BY <1>3, <1>4, <1>5

(* So it keeps the invariant, when Pyro accepts nothing and nothing is cut   *)
(* short.                                                                    *)
LEMMA ChargeKept ==
  ASSUME TypeInv, TypeInv', ChargeInv, aborts' = aborts,
         \A r \in Rows : Len(ledger'[r]) = Len(ledger[r]) /\ RowMoves(r),
         \A d \in Dispatchers : BatchMoves(d),
         \A d \in Dispatchers, r \in Rows : HandMoves(d, r)
  PROVE  ChargeInv'
  <1>1. SnapshotsOK'
    BY SnapshotsKept DEF ChargeInv
  <1>2. ASSUME NEW r \in Rows
        PROVE  \E T \in SUBSET Tickets : Spent(r, T)' /\ PaidWith(r, T)'
    <2>1. PICK T \in SUBSET Tickets : Spent(r, T) /\ PaidWith(r, T)
      BY DEF ChargeInv
    <2>2. Spent(r, T)'
      BY <2>1, SpentKept
    <2>3. PaidWith(r, T)'
      BY <2>1 DEF PaidWith
    <2> QED
      BY <2>2, <2>3
  <1> QED
    BY <1>1, <1>2 DEF ChargeInv, Tickets

-----------------------------------------------------------------------------
(* A POST that Pyro accepts takes a ticket no POST of the row has taken.     *)
LEMMA AcceptedCharges ==
  ASSUME TypeInv, TypeInv', ChargeInv, NEW d \in Dispatchers, RechargeAccepted(d)
  PROVE  ChargeInv'
  <1>1. PICK s \in disp[d].todo, code \in AcceptCodes, named \in BOOLEAN :
          /\ IsNext(d, s)
          /\ ledger' = [ledger EXCEPT ![s.row] = Append(ledger[s.row], "pending")]
          /\ InHand(d, s, code, IF named THEN Len(ledger[s.row]) + 1 ELSE 0)
    BY ProcessorAssumption DEF RechargeAccepted
  <1>2. /\ disp'[d].todo = disp[d].todo \ {s}
        /\ disp'[d].pc = "record" /\ disp'[d].row = s.row
        /\ disp[d].pc \in {"fetched", "loop"}
        /\ \A e \in Dispatchers : e # d => disp'[e] = disp[e]
    BY <1>1, Numbers DEF InHand, IsNext, DispState
  <1>3. pg' = pg /\ aborts' = aborts
    BY DEF RechargeAccepted
  <1>4. s.row \in Rows /\ s.retry \in Nat /\ MaxRetries \in Nat
    BY Numbers
  <1>5. /\ s.retry <= MaxRetries /\ s.retry <= pg[s.row].retry
        /\ \A t \in disp'[d].todo : t.row # s.row
    BY <1>2 DEF ChargeInv, SnapshotsOK
  <1>6. /\ Len(ledger'[s.row]) = Len(ledger[s.row]) + 1
        /\ \A r \in Rows : r # s.row => ledger'[r] = ledger[r]
    <2>1. /\ ledger'[s.row] = Append(ledger[s.row], "pending")
          /\ \A r \in Rows : r # s.row => ledger'[r] = ledger[r]
      BY Numbers, <1>1, <1>4
    <2>2. ledger[s.row] \in Seq(Outcomes) /\ "pending" \in Outcomes
      BY Numbers, <1>4 DEF Outcomes
    <2> QED
      BY <2>1, <2>2
  <1>7. \A e \in Dispatchers : BatchMoves(e)
    BY <1>2 DEF BatchMoves
  <1>8. \A e \in Dispatchers, r \in Rows : HandMoves(e, r)
    BY <1>2 DEF HandMoves, InHandOf
  <1>9. \A r \in Rows : RowMoves(r)
    BY <1>3 DEF RowMoves
  <1>10. SnapshotsOK'
    BY <1>7, <1>9, SnapshotsKept DEF ChargeInv
  <1>11. ASSUME NEW r \in Rows
         PROVE  \E T \in SUBSET Tickets : Spent(r, T)' /\ PaidWith(r, T)'
    <2>1. PICK T \in SUBSET Tickets : Spent(r, T) /\ PaidWith(r, T)
      BY DEF ChargeInv
    <2>2. Spent(r, T)'
      BY <2>1, <1>7, <1>8, <1>9, SpentKept
    <2>3. CASE r # s.row
      BY <2>1, <2>2, <2>3, <1>3, <1>6 DEF PaidWith
    <2>4. CASE r = s.row
      <3> DEFINE ticket == <<d, s.retry>>
      <3>1. s.retry \in 0..MaxRetries /\ ticket \in Tickets
        BY <1>4, <1>5 DEF Tickets
      <3>2. ticket \notin T
        BY <2>1, <2>4, <1>1, <1>4, <3>1 DEF Spent
      <3>3. Cardinality(T \cup {ticket}) = Cardinality(T) + 1
        BY <3>2, SomeTickets, FS_AddElement
      <3>4. PaidWith(r, T \cup {ticket})'
        BY <2>1, <2>4, <1>3, <1>6, <3>3, SomeTickets, Numbers DEF PaidWith
      <3>5. /\ s.retry <= pg'[r].retry /\ InHandOf(d, r)'
            /\ \A t \in disp'[d].todo : t.row # r
        BY <2>4, <1>2, <1>3, <1>5 DEF InHandOf
      <3>6. Spent(r, T \cup {ticket})'
        BY <2>2, <3>5 DEF Spent
      <3> QED
        BY <3>1, <3>4, <3>6
    <2> QED
      BY <2>3, <2>4
  <1> QED
    BY <1>10, <1>11 DEF ChargeInv, Tickets

(* The loop forgets the row in hand, and some of the batch.                  *)
LEMMA LoopForgets ==
  ASSUME TypeInv, NEW d \in Dispatchers, NEW todo \in SUBSET disp[d].todo,
         NEW spent, Loop(d, todo, spent)
  PROVE  /\ disp'[d].todo = todo /\ disp'[d].pc \in {"idle", "loop"}
         /\ \A e \in Dispatchers : BatchMoves(e)
         /\ \A e \in Dispatchers : e # d => disp'[e] = disp[e]
  <1>1. disp'[d] = IF todo = {} THEN DispIdle
                   ELSE [DispIdle EXCEPT !.pc = "loop", !.todo = todo, !.spent = spent]
    BY Numbers DEF Loop
  <1>2. disp'[d].todo = todo /\ disp'[d].pc \in {"idle", "loop"}
    BY <1>1 DEF DispIdle
  <1>3. \A e \in Dispatchers : e # d => disp'[e] = disp[e]
    BY Numbers DEF Loop
  <1> QED
    BY <1>2, <1>3 DEF BatchMoves

(* Every step of the processor keeps the invariant.                          *)
LEMMA ProcessorCharges ==
  ASSUME TypeInv, TypeInv', ChargeInv, NEW d \in Dispatchers, ProcessorStep(d)
  PROVE  ChargeInv'
  <1>0. /\ disp[d] \in DispState
        /\ pg \in [Rows -> Row] /\ disp \in [Dispatchers -> DispState]
        /\ disp[d].pc \in {"record", "writeback"} => disp[d].row \in Rows
    BY Numbers
  (* A step that writes no row and has none in hand.                         *)
  <1>k. ASSUME UNCHANGED <<pg, ledger, aborts>>, disp[d].pc # "record",
               \A e \in Dispatchers : e # d => disp'[e] = disp[e],
               \A e \in Dispatchers : BatchMoves(e)
        PROVE  ChargeInv'
    <2>1. \A e \in Dispatchers, r \in Rows : HandMoves(e, r)
      BY <1>k DEF HandMoves, InHandOf
    <2> QED
      BY <1>k, <2>1, ChargeKept DEF RowMoves
  (* A step that writes the row in hand.                                     *)
  <1>w. ASSUME disp[d].pc = "record", UNCHANGED <<ledger, aborts>>,
               \A r \in Rows : r # disp[d].row => pg'[r] = pg[r],
               \/ /\ ~ToDo(pg'[disp[d].row].flag)
                  /\ pg'[disp[d].row].retry = pg[disp[d].row].retry
               \/ pg'[disp[d].row].retry = pg[disp[d].row].retry + 1,
               \A e \in Dispatchers : e # d => disp'[e] = disp[e],
               \A e \in Dispatchers : BatchMoves(e)
        PROVE  ChargeInv'
    <2>1. \A r \in Rows : RowMoves(r)
      BY <1>w DEF RowMoves
    <2>2. \A e \in Dispatchers, r \in Rows : HandMoves(e, r)
      BY <1>w DEF HandMoves, InHandOf
    <2> QED
      BY <1>w, <2>1, <2>2, ChargeKept
  <1>1. CASE FetchPending(d)
    <2>1. PICK B \in SUBSET Rows :
            /\ IsBatch(B)
            /\ disp' = [disp EXCEPT ![d] = [DispIdle EXCEPT !.pc = "fetched",
                 !.todo = {[row |-> r, retry |-> pg[r].retry] : r \in B}]]
      BY <1>1 DEF FetchPending
    <2>2. /\ disp'[d].todo = {[row |-> r, retry |-> pg[r].retry] : r \in B}
          /\ \A e \in Dispatchers : e # d => disp'[e] = disp[e]
      BY <1>0, <2>1 DEF DispIdle
    <2>3. \A r \in B : Pending(pg[r])
      BY <2>1 DEF IsBatch
    <2>4. \A e \in Dispatchers : BatchMoves(e)
      BY <1>1, <2>2, <2>3 DEF BatchMoves, FetchPending
    <2> QED
      BY <1>1, <2>2, <2>4, <1>k DEF FetchPending, shared
  <1>2. CASE DeferBatch(d) \/ DecryptFails(d)
    BY <1>2, <1>k, LoopForgets DEF DeferBatch, DecryptFails, IsNext, shared
  <1>3. CASE SkipExhaustedDealer(d)
    <2>1. PICK s \in disp[d].todo : IsNext(d, s) /\ Loop(d, disp[d].todo \ {s}, disp[d].spent)
      BY <1>3 DEF SkipExhaustedDealer
    <2> QED
      BY <1>3, <2>1, <1>k, LoopForgets DEF SkipExhaustedDealer, IsNext, shared
  <1>4. CASE RechargeAccepted(d)
    BY <1>4, AcceptedCharges
  <1>5. CASE RechargeRefused(d)
    <2>1. PICK s \in disp[d].todo, code \in RejectCodes :
            IsNext(d, s) /\ InHand(d, s, code, 0)
      BY <1>5 DEF RechargeRefused
    <2>2. /\ disp'[d].todo = disp[d].todo \ {s}
          /\ disp[d].pc \in {"fetched", "loop"} /\ disp'[d].pc = "record"
          /\ \A e \in Dispatchers : e # d => disp'[e] = disp[e]
      BY <1>0, <2>1 DEF InHand, IsNext, DispState
    <2>3. \A e \in Dispatchers : BatchMoves(e)
      BY <2>2 DEF BatchMoves
    <2> QED
      BY <1>5, <2>2, <2>3, <1>k DEF RechargeRefused, shared
  <1>6. CASE RecordPushed(d) \/ RecordFailed(d)
    <2>1. disp[d].pc = "record" /\ disp[d].row \in Rows /\ disp[d].trans \in Nat
      BY <1>0, <1>6 DEF RecordPushed, RecordFailed, DispState
    <2>2. /\ disp'[d].todo = disp[d].todo
          /\ \A e \in Dispatchers : e # d => disp'[e] = disp[e]
      BY <1>0, <1>6 DEF RecordPushed, RecordFailed, ToWriteback, DispState
    <2>3. /\ \A r \in Rows : r # disp[d].row => pg'[r] = pg[r]
          /\ ~ToDo(pg'[disp[d].row].flag)
          /\ pg'[disp[d].row].retry = pg[disp[d].row].retry
      BY <1>0, <1>6, <2>1, MarkEffects DEF RecordPushed, RecordFailed, ToDo
    <2>4. \A e \in Dispatchers : BatchMoves(e)
      BY <2>2 DEF BatchMoves
    <2> QED
      BY <1>6, <2>1, <2>2, <2>3, <2>4, <1>w DEF RecordPushed, RecordFailed
  <1>7. CASE RecordRetry(d)
    <2>1. disp[d].pc = "record" /\ disp[d].row \in Rows
      BY <1>0, <1>7 DEF RecordRetry, Retrying
    <2>2. \E todo \in SUBSET disp[d].todo : \E spent : Loop(d, todo, spent)
      BY <1>7 DEF RecordRetry
    <2>3. /\ \A r \in Rows : r # disp[d].row => pg'[r] = pg[r]
          /\ pg'[disp[d].row].retry = pg[disp[d].row].retry + 1
      BY <1>0, <1>7, <2>1, MarkEffects, 0 \in Nat DEF RecordRetry
    <2> QED
      BY <1>7, <2>1, <2>2, <2>3, <1>w, LoopForgets DEF RecordRetry
  <1>8. CASE RecordRetryRejected(d)
    <2>1. disp[d].pc = "record" /\ disp[d].row \in Rows /\ Loop(d, {}, {})
      BY <1>0, <1>8 DEF RecordRetryRejected, Retrying
    <2>2. pg[disp[d].row].retry > MaxRetries
      BY <1>8, <2>1, Numbers DEF RecordRetryRejected, RetryCheckHolds
    <2>3. \A e \in Dispatchers, r \in Rows : HandMoves(e, r)
      BY <2>1, <2>2, LoopForgets DEF HandMoves, InHandOf
    <2> QED
      BY <1>8, <2>1, <2>3, LoopForgets, ChargeKept DEF RecordRetryRejected, shared, RowMoves
  <1>9. CASE DispWriteback(d)
    BY <1>9, <1>k, LoopForgets DEF DispWriteback
  <1> QED
    BY <1>1, <1>2, <1>3, <1>4, <1>5, <1>6, <1>7, <1>8, <1>9 DEF ProcessorStep, DispStep

-----------------------------------------------------------------------------
(* A step that leaves the processor alone and Pyro's book as long as it was. *)
LEMMA BystanderCharges ==
  ASSUME TypeInv, TypeInv', ChargeInv, UNCHANGED <<disp, aborts>>,
         \A r \in Rows : Len(ledger'[r]) = Len(ledger[r]) /\ RowMoves(r)
  PROVE  ChargeInv'
  BY ChargeKept DEF BatchMoves, HandMoves, InHandOf

(* One row marked, or counted as checked: it goes back to the queue only     *)
(* with its retry counted.                                                   *)
LEMMA MarkedMoves ==
  ASSUME TypeInv, NEW q \in Rows,
         \/ pg' = [pg EXCEPT ![q] = UpdateStatusCheckAttempt(pg[q])]
         \/ pg' = [pg EXCEPT ![q] = MarkAsSuccess(pg[q])]
         \/ pg' = [pg EXCEPT ![q] = MarkAsFailed(pg[q])]
         \/ pg' = [pg EXCEPT ![q] = MarkForRetry(pg[q])]
  PROVE  \A r \in Rows : RowMoves(r)
  <1>1. \A r \in Rows : r # q => pg'[r] = pg[r]
    BY Numbers
  <1>2. \/ pg'[q] = UpdateStatusCheckAttempt(pg[q])
        \/ pg'[q] = MarkAsSuccess(pg[q])
        \/ pg'[q] = MarkAsFailed(pg[q])
        \/ pg'[q] = MarkForRetry(pg[q])
    BY Numbers
  <1>3. RowMoves(q)
    BY <1>2, Numbers, MarkEffects, 0 \in Nat DEF RowMoves, ToDo
  <1> QED
    BY <1>1, <1>3 DEF RowMoves

(* Every step of the status checker keeps the invariant.                     *)
LEMMA CheckerCharges ==
  ASSUME TypeInv, TypeInv', ChargeInv, NEW c \in Checkers, CheckerStep(c)
  PROVE  ChargeInv'
  <1>0. chk[c] \in ChkState /\ (chk[c].pc \notin {"idle", "loop"} => chk[c].row \in Rows)
    BY DEF TypeInv, ChkOK, ChkTypeOK
  <1>1. UNCHANGED <<disp, ledger, aborts>>
    BY DEF CheckerStep, ChkStep, FetchDue, CountAttempt, WriteNoResponse, QueryStatus,
           RecordCheckSuccess, RecordCheckFailed, RecordNotFound, RecordUnknown,
           RecordUnknownRejected, ChkWriteback, shared
  <1>2. \/ pg' = pg
        \/ \E q \in Rows :
             \/ pg' = [pg EXCEPT ![q] = UpdateStatusCheckAttempt(pg[q])]
             \/ pg' = [pg EXCEPT ![q] = MarkAsSuccess(pg[q])]
             \/ pg' = [pg EXCEPT ![q] = MarkAsFailed(pg[q])]
             \/ pg' = [pg EXCEPT ![q] = MarkForRetry(pg[q])]
    <2>1. CASE CountAttempt(c)
      BY <1>0, <2>1 DEF CountAttempt, ChkState, Seen
    <2>2. CASE ~CountAttempt(c)
      BY <1>0, <2>2
         DEF CheckerStep, ChkStep, FetchDue, WriteNoResponse, QueryStatus,
             RecordCheckSuccess, RecordCheckFailed, RecordNotFound, RecordUnknown, Requeueing,
             RecordUnknownRejected, ChkWriteback, shared
    <2> QED
      BY <2>1, <2>2
  <1>3. \A r \in Rows : RowMoves(r)
    <2>1. CASE pg' = pg
      BY <2>1 DEF RowMoves
    <2> QED
      BY <1>2, <2>1, MarkedMoves
  <1> QED
    BY <1>1, <1>3, BystanderCharges

(* Every step of a callback handler keeps it: nothing goes back in the queue.*)
LEMMA CallbackCharges ==
  ASSUME TypeInv, TypeInv', ChargeInv, NEW h \in Handlers, CallbackStep(h)
  PROVE  ChargeInv'
  <1>1. UNCHANGED <<disp, ledger, aborts>>
    BY DEF CallbackStep, HandStep, Receive, RecordCallback, HandWriteback, shared
  <1>2. \A r \in Rows : RowMoves(r)
    <2>1. CASE RecordCallback(h)
      <3>1. hand[h].row \in Rows
        BY <2>1 DEF RecordCallback, TypeInv, HandOK
      <3> QED
        BY <2>1, <3>1, MarkedMoves DEF RecordCallback
    <2>2. CASE Receive(h) \/ HandWriteback(h)
      BY <2>2 DEF Receive, HandWriteback, shared, RowMoves
    <2> QED
      BY <2>1, <2>2 DEF CallbackStep, HandStep
  <1> QED
    BY <1>1, <1>2, BystanderCharges

(* Pyro settles what it has accepted already, and time writes no flag.       *)
LEMMA EnvironmentCharges ==
  ASSUME TypeInv, TypeInv', ChargeInv, Environment
  PROVE  ChargeInv'
  <1>1. PICK q \in Rows : Settle(q) \/ Ripen(q) \/ Lapse(q) \/ LinkBcd(q)
    BY DEF Environment
  <1>2. UNCHANGED <<disp, aborts>>
    BY <1>1 DEF Environment, Settle, Ripen, Lapse, LinkBcd
  <1>3. \A r \in Rows : Len(ledger'[r]) = Len(ledger[r])
    <2>1. CASE Settle(q)
      <3>1. PICK k \in DOMAIN ledger[q], outcome \in {"success", "failed"} :
              ledger' = [ledger EXCEPT ![q][k] = outcome]
        BY <2>1 DEF Settle
      <3>2. ledger \in [Rows -> Seq(Outcomes)] /\ ledger[q] \in Seq(Outcomes)
        BY Numbers
      <3>3. ledger'[q] = [ledger[q] EXCEPT ![k] = outcome]
        BY <3>1, <3>2
      <3>4. Len(ledger'[q]) = Len(ledger[q])
        BY <3>2, <3>3
      <3>5. \A r \in Rows : r # q => ledger'[r] = ledger[r]
        BY <3>1, <3>2
      <3> QED
        BY <3>4, <3>5
    <2>2. CASE ~Settle(q)
      BY <1>1, <2>2 DEF Ripen, Lapse, LinkBcd
    <2> QED
      BY <2>1, <2>2
  <1>4. \A r \in Rows : pg'[r].retry = pg[r].retry /\ pg'[r].flag = pg[r].flag
    <2>1. CASE Settle(q) \/ LinkBcd(q)
      BY <2>1 DEF Settle, LinkBcd
    <2>2. CASE Ripen(q) \/ Lapse(q)
      <3>1. PICK age : pg' = [pg EXCEPT ![q] = [pg[q] EXCEPT !.age = age]]
        BY <2>2 DEF Ripen, Lapse
      <3>2. pg'[q] = [pg[q] EXCEPT !.age = age] /\ pg[q] \in Row
        BY <3>1, Numbers
      <3>3. pg'[q].retry = pg[q].retry /\ pg'[q].flag = pg[q].flag
        BY <3>2 DEF Row
      <3>4. \A r \in Rows : r # q => pg'[r] = pg[r]
        BY <3>1, Numbers
      <3> QED
        BY <3>3, <3>4
    <2> QED
      BY <1>1, <2>1, <2>2
  <1> QED
    BY <1>2, <1>3, <1>4, BystanderCharges DEF RowMoves

-----------------------------------------------------------------------------
(* A run of the processor cut short gives back the ticket of the POST it may *)
(* have had in hand: the abort pays for it instead.                          *)
LEMMA DispAbortCharges ==
  ASSUME TypeInv, TypeInv', ChargeInv, NEW d \in Dispatchers, DispAbort(d)
  PROVE  ChargeInv'
  <1>1. /\ pg' = pg /\ ledger' = ledger /\ aborts' = aborts + 1
        /\ disp'[d].todo = {}
        /\ \A e \in Dispatchers : e # d => disp'[e] = disp[e]
    BY Numbers DEF DispAbort, CutShort, DispIdle
  <1>2. SnapshotsOK'
    BY <1>1 DEF ChargeInv, SnapshotsOK
  <1>3. ASSUME NEW r \in Rows
        PROVE  \E T \in SUBSET Tickets : Spent(r, T)' /\ PaidWith(r, T)'
    <2>1. PICK T \in SUBSET Tickets : Spent(r, T) /\ PaidWith(r, T)
      BY DEF ChargeInv
    <2> DEFINE ticket == <<d, pg[r].retry>>
    <2>2. /\ Cardinality(T \ {ticket}) \in Nat
          /\ Cardinality(T) <= Cardinality(T \ {ticket}) + 1
      <3>1. IsFiniteSet(T) /\ Cardinality(T) \in Nat
        BY SomeTickets
      <3>2. T \ {ticket} \in SUBSET Tickets
        OBVIOUS
      <3>3. Cardinality(T \ {ticket}) \in Nat
        BY <3>2, SomeTickets
      <3>4. Cardinality(T \ {ticket}) = IF ticket \in T THEN Cardinality(T) - 1
                                                        ELSE Cardinality(T)
        BY <3>1, FS_RemoveElement
      <3> HIDE DEF ticket
      <3> QED
        BY <3>1, <3>3, <3>4
    <2>3. PaidWith(r, T \ {ticket})'
      BY <1>1, <2>1, <2>2, SomeTickets, Numbers DEF PaidWith
    <2>4. Spent(r, T \ {ticket})'
      <3> SUFFICES ASSUME NEW e \in Dispatchers, NEW k \in 0..MaxRetries,
                          <<e, k>> \in T, <<e, k>> # ticket
                   PROVE  /\ k <= pg[r].retry
                          /\ ToDo(pg[r].flag) /\ ~InHandOf(e, r)' => k < pg[r].retry
                          /\ \A s \in disp'[e].todo : s.row = r => k < s.retry
        BY <1>1 DEF Spent
      <3>1. /\ k <= pg[r].retry
            /\ ToDo(pg[r].flag) /\ ~InHandOf(e, r) => k < pg[r].retry
            /\ \A s \in disp[e].todo : s.row = r => k < s.retry
        BY <2>1 DEF Spent
      <3>2. CASE e = d
        <4>1. k # pg[r].retry
          BY <3>2
        <4>2. k \in Nat /\ pg[r].retry \in Nat
          BY Numbers
        <4>3. k < pg[r].retry
          BY <3>1, <4>1, <4>2
        <4> QED
          BY <1>1, <3>1, <3>2, <4>3
      <3>3. CASE e # d
        BY <1>1, <3>1, <3>3 DEF InHandOf
      <3> QED
        BY <3>2, <3>3
    <2>5. T \ {ticket} \in SUBSET Tickets
      OBVIOUS
    <2> QED
      BY <2>3, <2>4, <2>5
  <1> QED
    BY <1>2, <1>3 DEF ChargeInv, Tickets

(* Any run cut short keeps the invariant.                                    *)
LEMMA AbortCharges ==
  ASSUME TypeInv, TypeInv', ChargeInv, Abort
  PROVE  ChargeInv'
  <1>1. CASE UNCHANGED <<disp, pg, ledger>> /\ aborts' = aborts + 1
    <2>1. SnapshotsOK'
      BY <1>1 DEF ChargeInv, SnapshotsOK
    <2>2. ASSUME NEW r \in Rows
          PROVE  \E T \in SUBSET Tickets : Spent(r, T)' /\ PaidWith(r, T)'
      <3>1. PICK T \in SUBSET Tickets : Spent(r, T) /\ PaidWith(r, T)
        BY DEF ChargeInv
      <3>2. Spent(r, T)'
        BY <1>1, <3>1 DEF Spent, InHandOf
      <3>3. PaidWith(r, T)'
        BY <1>1, <3>1, SomeTickets, Numbers DEF PaidWith
      <3> QED
        BY <3>2, <3>3
    <2> QED
      BY <2>1, <2>2 DEF ChargeInv, Tickets
  <1> QED
    BY <1>1, DispAbortCharges DEF Abort, ChkAbort, HandAbort, CutShort

(* At first nothing is charged, and no ticket is taken.                      *)
LEMMA InitCharges == Init => ChargeInv
  <1> SUFFICES ASSUME Init PROVE ChargeInv
    OBVIOUS
  <1>1. aborts = 0 /\ \A r \in Rows : Len(ledger[r]) = 0
    BY DEF Init, SharedInit
  <1>2. SnapshotsOK
    BY DEF Init, DispInit, DispIdle, SnapshotsOK
  <1>3. ASSUME NEW r \in Rows
        PROVE  {} \in SUBSET Tickets /\ Spent(r, {}) /\ PaidWith(r, {})
    BY <1>1, FS_EmptySet DEF Spent, PaidWith
  <1> QED
    BY <1>2, <1>3 DEF ChargeInv

(* The invariant is inductive.                                               *)
LEMMA NextCharges == TypeInv /\ TypeInv' /\ ChargeInv /\ [Next]_vars => ChargeInv'
  <1> SUFFICES ASSUME TypeInv, TypeInv', ChargeInv, [Next]_vars PROVE ChargeInv'
    OBVIOUS
  <1>1. CASE Next
    BY <1>1, EnvironmentCharges, ProcessorCharges, CheckerCharges, CallbackCharges, AbortCharges
       DEF Next
  <1>2. CASE UNCHANGED vars
    BY <1>2, BystanderCharges DEF vars, shared, RowMoves
  <1> QED
    BY <1>1, <1>2

(* Pyro accepts at most max_retries + 1 recharges of a request for each run  *)
(* of the processor that may go on at once, and one more for every run cut   *)
(* short: any number of status checks, callbacks and admin triggers, however *)
(* they overlap, and whatever answers are lost, add none.                    *)
THEOREM ChargeBoundHolds == Spec => []ChargeBound
  <1>1. Init => TypeInv /\ ChargeInv
    BY InitTyped, InitCharges
  <1>2. TypeInv /\ ChargeInv /\ [Next]_vars => TypeInv' /\ ChargeInv'
    BY NextTyped, NextCharges
  <1>3. TypeInv /\ ChargeInv => ChargeBound
    <2> SUFFICES ASSUME TypeInv, ChargeInv, NEW r \in Rows
                 PROVE  Len(ledger[r]) <= Cardinality(Dispatchers) * (MaxRetries + 1) + aborts
      BY DEF ChargeBound
    <2>1. PICK T \in SUBSET Tickets : PaidWith(r, T)
      BY DEF ChargeInv
    <2>2. /\ Cardinality(T) \in Nat
          /\ Cardinality(T) <= Cardinality(Tickets)
          /\ Cardinality(Tickets) \in Nat
          /\ Cardinality(Tickets) = Cardinality(Dispatchers) * (MaxRetries + 1)
      BY TicketCount, FS_Subset, FS_CardinalityType
    <2>3. Len(ledger[r]) <= Cardinality(Tickets) + aborts
      BY <2>1, <2>2, Numbers DEF PaidWith
    <2> QED
      BY <2>2, <2>3
  <1> QED
    BY <1>1, <1>2, <1>3, PTL DEF Spec

(* The tickets taken by the charges of a row have numbers up to its retry    *)
(* count: for any number of runs, whatever answers are lost, the count tells *)
(* what the subscriber was charged at most.                                  *)
THEOREM RetriesTellChargesHolds == Spec => []RetriesTellCharges
  <1>1. Init => TypeInv /\ ChargeInv
    BY InitTyped, InitCharges
  <1>2. TypeInv /\ ChargeInv /\ [Next]_vars => TypeInv' /\ ChargeInv'
    BY NextTyped, NextCharges
  <1>3. TypeInv /\ ChargeInv => RetriesTellCharges
    <2> SUFFICES ASSUME TypeInv, ChargeInv, NEW r \in Rows
                 PROVE  Len(ledger[r]) <= Cardinality(Dispatchers) * (pg[r].retry + 1) + aborts
      BY DEF RetriesTellCharges
    <2> DEFINE K == 0..pg[r].retry
    <2>0. pg[r].retry \in Nat /\ aborts \in Nat /\ Len(ledger[r]) \in Nat
      BY Numbers
    <2>1. IsFiniteSet(K) /\ Cardinality(K) = pg[r].retry + 1
      <3>1. PICK n \in Nat : n = pg[r].retry
        BY <2>0
      <3>2. IsFiniteSet(0..n) /\ Cardinality(0..n) = n + 1
        BY FS_Interval
      <3> QED
        BY <3>1, <3>2
    <2>2. /\ IsFiniteSet(Dispatchers \X K)
          /\ Cardinality(Dispatchers \X K) = Cardinality(Dispatchers) * (pg[r].retry + 1)
      BY <2>1, ProcessorAssumption, FS_Product
    <2>3. PICK T \in SUBSET Tickets : Spent(r, T) /\ PaidWith(r, T)
      BY DEF ChargeInv
    <2>4. T \subseteq Dispatchers \X K
      <3> SUFFICES ASSUME NEW t \in T PROVE t \in Dispatchers \X K
        OBVIOUS
      <3>1. PICK d \in Dispatchers, k \in 0..MaxRetries : t = <<d, k>>
        BY DEF Tickets
      <3>2. k \in 0..pg[r].retry
        BY <2>0, <2>3, <3>1, Numbers DEF Spent
      <3> QED
        BY <3>1, <3>2
    <2>5. /\ Cardinality(T) <= Cardinality(Dispatchers \X K)
          /\ Cardinality(T) \in Nat /\ Cardinality(Dispatchers \X K) \in Nat
      BY <2>2, <2>4, FS_Subset, FS_CardinalityType
    <2>6. Len(ledger[r]) <= Cardinality(T) + aborts
      BY <2>3 DEF PaidWith
    <2> HIDE DEF K
    <2>7. Len(ledger[r]) <= Cardinality(Dispatchers \X K) + aborts
      BY <2>0, <2>5, <2>6
    <2> QED
      BY <2>2, <2>7
  <1> QED
    BY <1>1, <1>2, <1>3, PTL DEF Spec

-----------------------------------------------------------------------------
(* The rows a bad mpin keeps from ever being charged.                        *)
Barred(r) == \E b \in BadMpin : CreatedAt[b] < CreatedAt[r]
Blocked(r) == r \in BadMpin \/ Barred(r)

RowsBlocked ==
  \A r \in Rows : Blocked(r) => /\ pg[r] = NewRow /\ ledger[r] = <<>>
                                /\ bcd[r] \in {"NP", "RQ"}

(* A run that has fetched a barred row has a bad one before it.              *)
RunBlocked(d) ==
  /\ \A s \in disp[d].todo : Barred(s.row) =>
       \E t \in disp[d].todo : t.row \in BadMpin /\ CreatedAt[t.row] < CreatedAt[s.row]
  /\ disp[d].pc \in {"record", "writeback"} => ~Blocked(disp[d].row)

(* Nobody else has a blocked row in hand.                                    *)
CheckApart(c) ==
  /\ \A s \in chk[c].todo : ~Blocked(s.row)
  /\ chk[c].pc \notin {"idle", "loop"} => ~Blocked(chk[c].row)

HandApart(h) == hand[h].pc # "idle" => ~Blocked(hand[h].row)

BlockedInv ==
  /\ RowsBlocked
  /\ \A d \in Dispatchers : RunBlocked(d)
  /\ \A c \in Checkers : CheckApart(c)
  /\ \A h \in Handlers : HandApart(h)

(* A step that leaves the blocked rows alone, or links them to BCD.          *)
LeavesBlocked ==
  \A r \in Rows : Blocked(r) => /\ pg'[r] = pg[r] /\ ledger'[r] = ledger[r]
                                /\ bcd'[r] \in {bcd[r], "RQ"}

LEMMA RowsStayBlocked ==
  ASSUME RowsBlocked, LeavesBlocked
  PROVE  RowsBlocked'
  <1>1. \A r \in Rows : Blocked(r)' <=> Blocked(r)
    BY DEF Blocked, Barred
  <1> QED
    BY <1>1 DEF RowsBlocked, LeavesBlocked

(* The next row of the loop is not barred: the bad one would come first.     *)
LEMMA NextNotBarred ==
  ASSUME TypeInv, NEW d \in Dispatchers, RunBlocked(d), NEW s \in disp[d].todo, IsNext(d, s)
  PROVE  ~Barred(s.row)
  <1> SUFFICES ASSUME Barred(s.row) PROVE FALSE
    OBVIOUS
  <1>1. PICK t \in disp[d].todo : t.row \in BadMpin /\ CreatedAt[t.row] < CreatedAt[s.row]
    BY DEF RunBlocked
  <1>2. CreatedAt[s.row] <= CreatedAt[t.row]
    BY DEF IsNext
  <1>3. CreatedAt[s.row] \in Nat /\ CreatedAt[t.row] \in Nat
    BY Numbers, ServiceAssumption
  <1> QED
    BY <1>1, <1>2, <1>3

(* A good row leaves the batch: what is before the others stays.             *)
LEMMA BatchStaysBlocked ==
  ASSUME NEW d \in Dispatchers, RunBlocked(d), NEW s \in disp[d].todo, s.row \notin BadMpin,
         disp'[d].todo = disp[d].todo \ {s},
         disp'[d].pc \in {"record", "writeback"} => ~Blocked(disp'[d].row)
  PROVE  RunBlocked(d)'
  BY DEF RunBlocked, Blocked, Barred

(* Every run of the processor stops at the bad row.                          *)
LEMMA ProcessorBlocked ==
  ASSUME TypeInv, BlockedInv, NEW d \in Dispatchers, ProcessorStep(d)
  PROVE  BlockedInv'
  <1>0. /\ disp \in [Dispatchers -> DispState] /\ disp[d] \in DispState
        /\ pg \in [Rows -> Row] /\ ledger \in [Rows -> Seq(Outcomes)]
        /\ bcd \in [Rows -> BcdStatuses]
        /\ disp[d].pc \in {"record", "writeback"} => disp[d].row \in Rows
        /\ \A s \in disp[d].todo : s.row \in Rows
        /\ RunBlocked(d) /\ RowsBlocked
    BY Numbers DEF BlockedInv, TypeInv, StoreOK, SharedTypeOK
  <1>1. /\ \A e \in Dispatchers : e # d => disp'[e] = disp[e]
        /\ chk' = chk /\ hand' = hand
    BY OtherRunsWait DEF ProcessorStep
  <1>k. ASSUME LeavesBlocked, RunBlocked(d)'
        PROVE  BlockedInv'
    <2>1. \A e \in Dispatchers : RunBlocked(e)'
      BY <1>1, <1>k DEF BlockedInv, RunBlocked, Blocked, Barred
    <2>2. (\A c \in Checkers : CheckApart(c)') /\ (\A h \in Handlers : HandApart(h)')
      BY <1>1 DEF BlockedInv, CheckApart, HandApart, Blocked, Barred
    <2> QED
      BY <1>0, <1>k, <2>1, <2>2, RowsStayBlocked DEF BlockedInv
  <1>s. ASSUME UNCHANGED <<pg, bcd, ledger>>
        PROVE  LeavesBlocked
    BY <1>s DEF LeavesBlocked
  <1>l. ASSUME NEW spent, Loop(d, disp[d].todo, spent) \/ Loop(d, {}, spent)
        PROVE  RunBlocked(d)'
    <2>1. PICK todo \in {disp[d].todo, {}} : Loop(d, todo, spent)
      BY <1>l
    <2>2. disp'[d].todo \in {disp[d].todo, {}} /\ disp'[d].pc \in {"idle", "loop"}
      BY <2>1, LoopForgets
    <2> QED
      BY <1>0, <2>2 DEF RunBlocked, Barred
  <1>2. CASE FetchPending(d)
    <2>1. PICK B \in SUBSET Rows :
            /\ IsBatch(B)
            /\ disp' = [disp EXCEPT ![d] = [DispIdle EXCEPT !.pc = "fetched",
                 !.todo = {[row |-> r, retry |-> pg[r].retry] : r \in B}]]
      BY <1>2 DEF FetchPending
    <2>2. /\ disp'[d].todo = {[row |-> r, retry |-> pg[r].retry] : r \in B}
          /\ disp'[d].pc = "fetched"
      BY <1>0, <2>1 DEF DispIdle
    <2>3. \A b \in BadMpin : b \in Rows /\ Pending(pg[b])
      BY <1>0, ProcessorAssumption, MaxRetriesAssumption
         DEF RowsBlocked, Blocked, Pending, NewRow
    <2>4. ASSUME NEW r \in B, NEW b \in BadMpin, CreatedAt[b] < CreatedAt[r]
          PROVE  b \in B
      <3>1. b \notin B => CreatedAt[r] <= CreatedAt[b]
        BY <2>1, <2>3 DEF IsBatch
      <3>2. CreatedAt[r] \in Nat /\ CreatedAt[b] \in Nat
        BY <2>3, ServiceAssumption
      <3> QED
        BY <2>4, <3>1, <3>2
    <2>5. ASSUME NEW s \in disp'[d].todo, Barred(s.row)
          PROVE  \E t \in disp'[d].todo : t.row \in BadMpin /\ CreatedAt[t.row] < CreatedAt[s.row]
      <3>1. s.row \in B
        BY <2>2
      <3>2. PICK b \in BadMpin : CreatedAt[b] < CreatedAt[s.row]
        BY <2>5 DEF Barred
      <3>3. b \in B
        BY <2>4, <3>1, <3>2
      <3>4. [row |-> b, retry |-> pg[b].retry] \in disp'[d].todo
        BY <2>2, <3>3
      <3> QED
        BY <3>2, <3>4
    <2>6. RunBlocked(d)'
      BY <2>2, <2>5 DEF RunBlocked, Barred
    <2> QED
      BY <1>2, <1>k, <1>s, <2>6 DEF FetchPending, shared
  <1>3. CASE DeferBatch(d) \/ DecryptFails(d) \/ RecordRetryRejected(d)
    BY <1>3, <1>k, <1>l, <1>s DEF DeferBatch, DecryptFails, RecordRetryRejected, shared
  <1>4. CASE SkipExhaustedDealer(d)
    <2>1. PICK s \in disp[d].todo : s.row \notin BadMpin /\ Loop(d, disp[d].todo \ {s}, disp[d].spent)
      BY <1>4 DEF SkipExhaustedDealer
    <2>2. disp'[d].todo = disp[d].todo \ {s} /\ disp'[d].pc \in {"idle", "loop"}
      BY <2>1, LoopForgets
    <2>3. RunBlocked(d)'
      BY <1>0, <2>1, <2>2, BatchStaysBlocked
    <2> QED
      BY <1>4, <1>k, <1>s, <2>3 DEF SkipExhaustedDealer, shared
  <1>5. CASE RechargeAccepted(d) \/ RechargeRefused(d)
    <2>1. PICK s \in disp[d].todo :
            /\ IsNext(d, s) /\ s.row \notin BadMpin
            /\ \E code, trans : InHand(d, s, code, trans)
            /\ \A r \in Rows : r # s.row => ledger'[r] = ledger[r]
      BY <1>0, <1>5 DEF RechargeAccepted, RechargeRefused, shared
    <2>2. disp'[d].todo = disp[d].todo \ {s} /\ disp'[d].row = s.row
      BY <1>0, <2>1 DEF InHand, DispState
    <2>3. ~Blocked(s.row)
      BY <1>0, <2>1, NextNotBarred DEF Blocked
    <2>4. RunBlocked(d)'
      BY <1>0, <2>1, <2>2, <2>3, BatchStaysBlocked
    <2>5. LeavesBlocked
      BY <1>5, <2>1, <2>3 DEF RechargeAccepted, RechargeRefused, shared, LeavesBlocked
    <2> QED
      BY <1>k, <2>4, <2>5
  <1>6. ASSUME disp[d].pc = "record", NEW row, pg' = [pg EXCEPT ![disp[d].row] = row],
               UNCHANGED <<bcd, ledger>>
        PROVE  LeavesBlocked
    BY <1>0, <1>6 DEF LeavesBlocked, RunBlocked
  <1>7. CASE RecordPushed(d) \/ RecordFailed(d)
    <2>1. disp'[d].todo = disp[d].todo /\ disp'[d].row = disp[d].row /\ disp[d].pc = "record"
      BY <1>0, <1>7 DEF RecordPushed, RecordFailed, ToWriteback, DispState
    <2>2. RunBlocked(d)'
      BY <1>0, <2>1 DEF RunBlocked, Blocked, Barred
    <2>3. LeavesBlocked
      BY <1>6, <1>7 DEF RecordPushed, RecordFailed
    <2> QED
      BY <1>k, <2>2, <2>3
  <1>8. CASE RecordRetry(d)
    <2>1. RunBlocked(d)'
      BY <1>8, <1>l DEF RecordRetry
    <2>2. LeavesBlocked
      BY <1>6, <1>8 DEF RecordRetry, Retrying
    <2> QED
      BY <1>k, <2>1, <2>2
  <1>9. CASE DispWriteback(d)
    <2>1. LeavesBlocked
      BY <1>0, <1>9 DEF DispWriteback, UpdateBcdStatus, LeavesBlocked, RunBlocked
    <2> QED
      BY <1>9, <1>k, <1>l, <2>1 DEF DispWriteback
  <1> QED
    BY <1>2, <1>3, <1>4, <1>5, <1>7, <1>8, <1>9 DEF ProcessorStep, DispStep

(* The checker never fetches a row at N.                                     *)
LEMMA CheckerBlocked ==
  ASSUME TypeInv, BlockedInv, NEW c \in Checkers, CheckerStep(c)
  PROVE  BlockedInv'
  <1>0. /\ chk \in [Checkers -> ChkState] /\ chk[c] \in ChkState
        /\ pg \in [Rows -> Row] /\ bcd \in [Rows -> BcdStatuses]
        /\ chk[c].pc \notin {"idle", "loop"} => chk[c].row \in Rows
        /\ \A s \in chk[c].todo : s.row \in Rows
        /\ CheckApart(c) /\ RowsBlocked
    BY DEF BlockedInv, TypeInv, ChkOK, ChkTypeOK, ChkState, Seen, StoreOK, SharedTypeOK
  <1>1. /\ \A e \in Checkers : e # c => chk'[e] = chk[e]
        /\ disp' = disp /\ hand' = hand
    BY OtherChecksWait DEF CheckerStep
  <1>k. ASSUME LeavesBlocked, CheckApart(c)'
        PROVE  BlockedInv'
    <2>1. \A e \in Checkers : CheckApart(e)'
      BY <1>1, <1>k DEF BlockedInv, CheckApart, Blocked, Barred
    <2>2. (\A d \in Dispatchers : RunBlocked(d)') /\ (\A h \in Handlers : HandApart(h)')
      BY <1>1 DEF BlockedInv, RunBlocked, HandApart, Blocked, Barred
    <2> QED
      BY <1>0, <1>k, <2>1, <2>2, RowsStayBlocked DEF BlockedInv
  <1>l. ASSUME NEW todo \in SUBSET chk[c].todo, ChkLoop(c, todo)
        PROVE  CheckApart(c)'
    <2>1. chk'[c] = IF todo = {} THEN ChkIdle
                    ELSE [ChkIdle EXCEPT !.pc = "loop", !.todo = todo]
      BY <1>0, <1>l DEF ChkLoop
    <2>2. chk'[c].todo = todo /\ chk'[c].pc \in {"idle", "loop"}
      BY <2>1 DEF ChkIdle
    <2> QED
      BY <1>0, <2>2 DEF CheckApart, Blocked, Barred
  <1>m. ASSUME chk[c].pc \notin {"idle", "loop"}, NEW row,
               pg' = [pg EXCEPT ![chk[c].row] = row], UNCHANGED <<bcd, ledger>>
        PROVE  LeavesBlocked
    BY <1>0, <1>m DEF LeavesBlocked, CheckApart
  <1>t. ASSUME chk'[c].todo = chk[c].todo, chk'[c].row = chk[c].row,
               chk[c].pc \notin {"idle", "loop"}
        PROVE  CheckApart(c)'
    BY <1>0, <1>t DEF CheckApart, Blocked, Barred
  <1>2. CASE FetchDue(c)
    <2> DEFINE D == {q \in Rows : Due(pg[q])}
               T == {[row |-> r, trans |-> pg[r].trans, checked |-> pg[r].checked] : r \in D}
    <2>1. chk'[c].todo = T /\ chk'[c].pc = "loop"
      BY <1>0, <1>2 DEF FetchDue, ChkIdle
    <2>2. \A r \in D : ~Blocked(r)
      BY <1>0 DEF RowsBlocked, Due, NewRow
    <2>3. \A s \in T : ~Blocked(s.row)
      BY <2>2
    <2> HIDE DEF T
    <2>4. CheckApart(c)'
      BY <2>1, <2>3 DEF CheckApart, Blocked, Barred
    <2>5. LeavesBlocked
      BY <1>2 DEF FetchDue, shared, LeavesBlocked
    <2> QED
      BY <1>k, <2>4, <2>5
  <1>3. CASE CountAttempt(c)
    <2>1. PICK s \in chk[c].todo :
            /\ pg' = [pg EXCEPT ![s.row] = UpdateStatusCheckAttempt(pg[s.row])]
            /\ chk' = [chk EXCEPT ![c] =
                 [chk[c] EXCEPT !.pc = IF s.checked THEN "query" ELSE "noresponse",
                    !.todo = chk[c].todo \ {s}, !.row = s.row, !.trans = s.trans]]
      BY <1>3 DEF CountAttempt
    <2>2. chk'[c].todo = chk[c].todo \ {s} /\ chk'[c].row = s.row
      BY <1>0, <2>1 DEF ChkState
    <2>3. ~Blocked(s.row) /\ s.row \in Rows
      BY <1>0 DEF CheckApart
    <2>4. CheckApart(c)'
      BY <1>0, <2>2, <2>3 DEF CheckApart, Blocked, Barred
    <2>5. LeavesBlocked
      BY <1>0, <1>3, <2>1, <2>3 DEF CountAttempt, LeavesBlocked
    <2> QED
      BY <1>k, <2>4, <2>5
  <1>4. CASE WriteNoResponse(c)
    <2>1. /\ chk'[c].todo = chk[c].todo /\ chk'[c].row = chk[c].row
          /\ chk[c].pc = "noresponse"
      BY <1>0, <1>4 DEF WriteNoResponse, ChkState
    <2>2. LeavesBlocked
      BY <1>0, <1>4 DEF WriteNoResponse, UpdateBcdStatus, LeavesBlocked, CheckApart
    <2> QED
      BY <1>k, <1>t, <2>1, <2>2
  <1>5. CASE QueryStatus(c)
    <2>1. chk'[c].todo = chk[c].todo /\ chk'[c].row = chk[c].row /\ chk[c].pc = "query"
      BY <1>0, <1>5 DEF QueryStatus, ChkState
    <2>2. LeavesBlocked
      BY <1>5 DEF QueryStatus, shared, LeavesBlocked
    <2> QED
      BY <1>k, <1>t, <2>1, <2>2
  <1>6. CASE RecordCheckSuccess(c) \/ RecordCheckFailed(c) \/ RecordUnknown(c)
    <2>1. chk'[c].todo = chk[c].todo /\ chk'[c].row = chk[c].row /\ chk[c].pc = "record"
      BY <1>0, <1>6
         DEF RecordCheckSuccess, RecordCheckFailed, RecordUnknown, Requeueing, ChkToWriteback,
             ChkState
    <2>2. LeavesBlocked
      BY <1>6, <1>m, <2>1 DEF RecordCheckSuccess, RecordCheckFailed, RecordUnknown
    <2> QED
      BY <1>k, <1>t, <2>1, <2>2
  <1>7. CASE RecordNotFound(c)
    <2>1. LeavesBlocked
      BY <1>7, <1>m DEF RecordNotFound
    <2> QED
      BY <1>7, <1>k, <1>l, <2>1 DEF RecordNotFound
  <1>8. CASE RecordUnknownRejected(c)
    <2>1. LeavesBlocked
      BY <1>8 DEF RecordUnknownRejected, shared, LeavesBlocked
    <2> QED
      BY <1>8, <1>k, <1>l, <2>1 DEF RecordUnknownRejected
  <1>9. CASE ChkWriteback(c)
    <2>1. LeavesBlocked
      BY <1>0, <1>9 DEF ChkWriteback, UpdateBcdStatus, LeavesBlocked, CheckApart
    <2> QED
      BY <1>9, <1>k, <1>l, <2>1 DEF ChkWriteback
  <1> QED
    BY <1>2, <1>3, <1>4, <1>5, <1>6, <1>7, <1>8, <1>9 DEF CheckerStep, ChkStep

(* Pyro has no transaction of a blocked row to call back about.              *)
LEMMA CallbackBlocked ==
  ASSUME TypeInv, BlockedInv, NEW h \in Handlers, CallbackStep(h)
  PROVE  BlockedInv'
  <1>0. /\ hand \in [Handlers -> HandState] /\ hand[h] \in HandState
        /\ pg \in [Rows -> Row] /\ bcd \in [Rows -> BcdStatuses]
        /\ hand[h].pc # "idle" => hand[h].row \in Rows
        /\ HandApart(h) /\ RowsBlocked
    BY DEF BlockedInv, TypeInv, HandOK, HandTypeOK, StoreOK, SharedTypeOK
  <1>1. /\ \A g \in Handlers : g # h => hand'[g] = hand[g]
        /\ disp' = disp /\ chk' = chk
    BY <1>0 DEF CallbackStep, HandStep, Receive, RecordCallback, HandWriteback
  <1>k. ASSUME LeavesBlocked, HandApart(h)'
        PROVE  BlockedInv'
    <2>1. \A g \in Handlers : HandApart(g)'
      BY <1>1, <1>k DEF BlockedInv, HandApart, Blocked, Barred
    <2>2. (\A d \in Dispatchers : RunBlocked(d)') /\ (\A c \in Checkers : CheckApart(c)')
      BY <1>1 DEF BlockedInv, RunBlocked, CheckApart, Blocked, Barred
    <2> QED
      BY <1>0, <1>k, <2>1, <2>2, RowsStayBlocked DEF BlockedInv
  <1>2. CASE Receive(h)
    <2>1. PICK r \in Rows : pg[r].trans \in DOMAIN ledger[r] /\ hand'[h].row = r
      BY <1>0, <1>2 DEF Receive
    <2>2. ~Blocked(r)
      BY <1>0, <2>1 DEF RowsBlocked
    <2>3. HandApart(h)'
      BY <2>1, <2>2 DEF HandApart, Blocked, Barred
    <2> QED
      BY <1>2, <1>k, <2>3 DEF Receive, shared, LeavesBlocked
  <1>3. CASE RecordCallback(h)
    <2>1. hand'[h].row = hand[h].row
      BY <1>0, <1>3 DEF RecordCallback, HandState
    <2>2. HandApart(h)'
      BY <1>0, <1>3, <2>1 DEF RecordCallback, HandApart, Blocked, Barred
    <2> QED
      BY <1>0, <1>3, <1>k, <2>2 DEF RecordCallback, LeavesBlocked, HandApart
  <1>4. CASE HandWriteback(h)
    <2>1. HandApart(h)'
      BY <1>0, <1>4 DEF HandWriteback, HandIdle, HandApart
    <2>2. LeavesBlocked
      BY <1>0, <1>4 DEF HandWriteback, UpdateBcdStatus, LeavesBlocked, HandApart
    <2> QED
      BY <1>k, <2>1, <2>2
  <1> QED
    BY <1>2, <1>3, <1>4 DEF CallbackStep, HandStep

(* Nor to settle, and no time passes for a row at N.                         *)
LEMMA EnvironmentBlocked ==
  ASSUME TypeInv, BlockedInv, Environment
  PROVE  BlockedInv'
  <1>1. PICK r \in Rows : Settle(r) \/ Ripen(r) \/ Lapse(r) \/ LinkBcd(r)
    BY DEF Environment
  <1>2. /\ pg \in [Rows -> Row] /\ bcd \in [Rows -> BcdStatuses]
        /\ ledger \in [Rows -> Seq(Outcomes)]
        /\ RowsBlocked
    BY DEF BlockedInv, TypeInv, StoreOK, SharedTypeOK
  <1>3. Blocked(r) => pg[r].flag = "N" /\ ledger[r] = <<>>
    BY <1>2 DEF RowsBlocked, NewRow
  <1>4. LeavesBlocked
    <2>1. CASE Settle(r)
      BY <1>2, <1>3, <2>1 DEF Settle, LeavesBlocked
    <2>2. CASE Ripen(r) \/ Lapse(r)
      BY <1>2, <1>3, <2>2 DEF Ripen, Lapse, LeavesBlocked
    <2>3. CASE LinkBcd(r)
      BY <1>2, <2>3 DEF LinkBcd, LeavesBlocked
    <2> QED
      BY <1>1, <2>1, <2>2, <2>3
  <1>5. /\ \A d \in Dispatchers : RunBlocked(d)'
        /\ \A c \in Checkers : CheckApart(c)'
        /\ \A h \in Handlers : HandApart(h)'
    BY DEF Environment, BlockedInv, RunBlocked, CheckApart, HandApart, Blocked, Barred
  <1> QED
    BY <1>2, <1>4, <1>5, RowsStayBlocked DEF BlockedInv

LEMMA AbortBlocked ==
  ASSUME TypeInv, BlockedInv, Abort
  PROVE  BlockedInv'
  <1>1. /\ pg' = pg /\ ledger' = ledger /\ bcd' = bcd
        /\ \A d \in Dispatchers : disp'[d] = disp[d] \/ disp'[d] = DispIdle
        /\ \A c \in Checkers : chk'[c] = chk[c] \/ chk'[c] = ChkIdle
        /\ \A h \in Handlers : hand'[h] = hand[h] \/ hand'[h] = HandIdle
    BY DEF Abort, DispAbort, ChkAbort, HandAbort, TypeInv, DispOK, DispTypeOK,
           ChkOK, ChkTypeOK, HandOK, HandTypeOK
  <1>2. RowsBlocked'
    BY <1>1, RowsStayBlocked DEF BlockedInv, LeavesBlocked
  <1>3. \A d \in Dispatchers : RunBlocked(d)'
    BY <1>1 DEF BlockedInv, RunBlocked, DispIdle, Blocked, Barred
  <1>4. \A c \in Checkers : CheckApart(c)'
    BY <1>1 DEF BlockedInv, CheckApart, ChkIdle, Blocked, Barred
  <1>5. \A h \in Handlers : HandApart(h)'
    BY <1>1 DEF BlockedInv, HandApart, HandIdle, Blocked, Barred
  <1> QED
    BY <1>2, <1>3, <1>4, <1>5 DEF BlockedInv

LEMMA InitBlocked == Init => BlockedInv
  <1> SUFFICES ASSUME Init PROVE BlockedInv
    OBVIOUS
  <1>1. RowsBlocked
    BY DEF Init, SharedInit, RowsBlocked
  <1>2. \A d \in Dispatchers : RunBlocked(d)
    BY DEF Init, DispInit, DispIdle, RunBlocked
  <1>3. (\A c \in Checkers : CheckApart(c)) /\ (\A h \in Handlers : HandApart(h))
    BY DEF Init, ChkInit, ChkIdle, CheckApart, HandInit, HandIdle, HandApart
  <1> QED
    BY <1>1, <1>2, <1>3 DEF BlockedInv

LEMMA NextBlocked == TypeInv /\ BlockedInv /\ [Next]_vars => BlockedInv'
  <1> SUFFICES ASSUME TypeInv, BlockedInv, [Next]_vars PROVE BlockedInv'
    OBVIOUS
  <1>1. CASE Next
    BY <1>1, EnvironmentBlocked, ProcessorBlocked, CheckerBlocked, CallbackBlocked, AbortBlocked
       DEF Next
  <1>2. CASE UNCHANGED vars
    BY <1>2 DEF vars, shared, BlockedInv, RowsBlocked, RunBlocked, CheckApart, HandApart,
                Blocked, Barred
  <1> QED
    BY <1>1, <1>2

(* One row whose mpin does not decrypt keeps every row created after it from *)
(* being recharged, for any batch size, any number of runs and whatever else *)
(* happens: the premise of EventuallySettled cannot be dropped.              *)
THEOREM BlockedByBadMpinHolds == Spec => []BlockedByBadMpin
  <1>1. BlockedInv => BlockedByBadMpin
    BY ProcessorAssumption DEF BlockedInv, RowsBlocked, Blocked, Barred, BlockedByBadMpin
  <1>2. Init => TypeInv /\ BlockedInv
    BY InitTyped, InitBlocked
  <1>3. TypeInv /\ BlockedInv /\ [Next]_vars => TypeInv' /\ BlockedInv'
    BY NextTyped, NextBlocked
  <1> QED
    BY <1>1, <1>2, <1>3, PTL DEF Spec
=============================================================================
