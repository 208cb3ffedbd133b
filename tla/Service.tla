-------------------------------- MODULE Service --------------------------------
(* The recharge service: the processor, the status checker and the callback  *)
(* endpoint over the same request table and BCD, with Pyro on the other side. *)
EXTENDS Processor, StatusChecker, Callback

vars == <<shared, disp, chk, hand>>

Init == SharedInit /\ DispInit /\ ChkInit /\ HandInit

Environment ==
  /\ \E r \in Rows : Settle(r) \/ Ripen(r) \/ Lapse(r) \/ LinkBcd(r)
  /\ UNCHANGED <<disp, chk, hand>>

ProcessorStep(d) == DispStep(d) /\ UNCHANGED <<chk, hand>>
CheckerStep(c)   == ChkStep(c) /\ UNCHANGED <<disp, hand>>
CallbackStep(h)  == HandStep(h) /\ UNCHANGED <<disp, chk>>

(* A crash of the process is several of these in a row.                      *)
Abort ==
  \/ \E d \in Dispatchers : DispAbort(d) /\ UNCHANGED <<chk, hand>>
  \/ \E c \in Checkers : ChkAbort(c) /\ UNCHANGED <<disp, hand>>
  \/ \E h \in Handlers : HandAbort(h) /\ UNCHANGED <<disp, chk>>

Next ==
  \/ Environment
  \/ \E d \in Dispatchers : ProcessorStep(d)
  \/ \E c \in Checkers : CheckerStep(c)
  \/ \E h \in Handlers : CallbackStep(h)
  \/ Abort

Spec == Init /\ [][Next]_vars

(* The scheduler starts the two jobs for ever, and a started job or handler  *)
(* runs on.  Pyro settles what it accepted, and time passes.  Any batch may  *)
(* be deferred for want of a token, but not every batch from some time on:   *)
(* Pyro does not refuse every login for ever, and tokens once stored are     *)
(* never missing again (TokenManager).  Nothing makes Pyro call back, accept *)
(* a recharge or a token, or a dealer solvent.                               *)
Fairness ==
  /\ \A r \in Rows : WF_vars(Settle(r) /\ UNCHANGED <<disp, chk, hand>>)
  /\ \A r \in Rows : WF_vars(Ripen(r) /\ UNCHANGED <<disp, chk, hand>>)
  /\ \A d \in Dispatchers :
       WF_vars(ProcessorStep(d)) /\ SF_vars(BeginBatch(d) /\ UNCHANGED <<chk, hand>>)
  /\ \A c \in Checkers : WF_vars(CheckerStep(c))
  /\ \A h \in Handlers : WF_vars(hand[h].pc # "idle" /\ CallbackStep(h))

FairSpec == Spec /\ Fairness

-----------------------------------------------------------------------------
(* Every variable keeps its type, and no row goes past the retry CHECK       *)
(* (frc_pyro_retry_chk).                                                     *)
TypeOK ==
  /\ SharedTypeOK /\ DispTypeOK /\ ChkTypeOK /\ HandTypeOK
  /\ \A r \in Rows : pg[r].retry <= MaxRetries + 1

(* A success is never reported that did not happen: a Y row, a row whose     *)
(* final_status is SUCCESS, and a BCD record at P each have a transaction    *)
(* Pyro carried out, whatever was lost, repeated, raced or cut short on the  *)
(* way (mark_as_success and its two callers).                                *)
NoPhantomSuccess ==
  \A r \in Rows :
    (pg[r].flag = "Y" \/ pg[r].final = "SUCCESS" \/ bcd[r] = "P") => Succeeded(r)

(* With one run of each job, the two jobs never have the same row in hand:   *)
(* a row the processor fetched is not P until it has handled it, one the     *)
(* checker fetched is not N or E, although neither UPDATE checks the flag    *)
(* and callbacks write to the same rows.                                     *)
OneOwner ==
  \A r \in Rows :
    /\ \A d \in Dispatchers : Holds(d, r) => pg[r].flag # "P"
    /\ \A c \in Checkers : Checks(c, r) => pg[r].flag \notin {"N", "E"}
    /\ \A d \in Dispatchers, c \in Checkers : ~(Holds(d, r) /\ Checks(c, r))

(* With one run of each job, the retry CHECK never rejects a mark_as_failed, *)
(* so it never ends a batch: whoever is about to mark E finds room for it.   *)
RetryCheckNeverFires ==
  /\ \A d \in Dispatchers : Retrying(d) => RetryCheckHolds(pg[disp[d].row])
  /\ \A c \in Checkers : Requeueing(c) => RetryCheckHolds(pg[chk[c].row])

(* A subscriber is charged at most max_retries + 1 times for every run of    *)
(* the processor that may be going on at once, and once more for every run   *)
(* cut short between the POST and the UPDATE that records it: no run gets to *)
(* post a row again before a retry has been counted, in whichever of the     *)
(* three components that happens (retry_count and fetch_pending_rows).       *)
ChargeBound ==
  \A r \in Rows :
    Len(ledger[r]) <= Cardinality(Dispatchers) * (MaxRetries + 1) + aborts

(* The retry count of a row never understates what the subscriber was        *)
(* charged: while it is at k, no more than k + 1 for each run of the         *)
(* processor that may be going on at once, and the runs cut short on top.    *)
(* Nothing between two fetches takes the count back (every UPDATE of         *)
(* postgres.py on the row).                                                  *)
RetriesTellCharges ==
  \A r \in Rows :
    Len(ledger[r]) <= Cardinality(Dispatchers) * (pg[r].retry + 1) + aborts

(* A row whose mpin does not decrypt ends every batch at its place: it and   *)
(* any row created after it stay as they were inserted and are never         *)
(* charged, and BCD has no more to say of them than RQ, whatever the batch   *)
(* size and however many runs there are (process_pending_recharges).         *)
BlockedByBadMpin ==
  \A b \in BadMpin, r \in Rows : r = b \/ CreatedAt[b] < CreatedAt[r] =>
    pg[r] = NewRow /\ ledger[r] = <<>> /\ bcd[r] \in {"NP", "RQ"}

-----------------------------------------------------------------------------
(* When nothing goes wrong beyond refusals and failed recharges: every       *)
(* answer of Pyro arrives and is understood, no run is cut short, and the    *)
(* processor runs once at a time.  The status checker may overlap itself.    *)
Reliable ==
  /\ AcceptCodes = {REGISTERED} /\ ~IdMayBeMissing /\ CheckErrors = {}
  /\ MaxAborts = 0
  /\ \A d, e \in Dispatchers : d = e

(* The contract: the flag as the verdict, Pyro's book as the charges.        *)
Verdict(row) ==
  CASE row.flag = "Y" -> "success"
    [] row.flag = "F" -> "failed"
    [] OTHER          -> "open"

Charges(r) == Cardinality({k \in DOMAIN ledger[r] : ledger[r][k] = "success"})

Contract == INSTANCE RechargeContract WITH
              verdict <- [r \in Rows |-> Verdict(pg[r])],
              charges <- [r \in Rows |-> Charges(r)]

(* The service implements the contract: a subscriber is charged once at      *)
(* most, and Y and F are final and true, although the callback and the       *)
(* status check race to write them.                                          *)
ImplementsContract == Contract!Spec

PushFlow == INSTANCE PushFlag WITH
              flag <- [r \in Rows |-> pg[r].flag],
              retry <- [r \in Rows |-> pg[r].retry]

(* push_flag and retry_count follow the state machine of create_tables.sql,  *)
(* whose moves look at the row and write it in one step, although the code   *)
(* reads the row, asks Pyro, and writes without looking: what was read is    *)
(* still so, or what is written is there already (the UPDATEs of             *)
(* postgres.py).                                                             *)
FollowsStateMachine == PushFlow!Spec

(* Nobody is at work on row r.                                               *)
Quiet(r) ==
  /\ \A d \in Dispatchers : disp[d].row # r
  /\ \A c \in Checkers : chk[c].row # r
  /\ \A h \in Handlers : hand[h].row # r

(* Once nobody is at work on a row, its BCD status is one its flag explains: *)
(* a subscriber is not told F or ID of a recharge that may yet succeed, nor  *)
(* left at RQ when the request has gone to Pyro, except by an RQ writeback   *)
(* that came later than the row's own steps (the writers of BCD).            *)
BcdExplained ==
  \A r \in Rows : Quiet(r) /\ bcd[r] # "NP" /\ ~(r \in Late /\ bcd[r] = "RQ") =>
    bcd[r] \in CASE pg[r].flag \in {"N", "E"} -> {"RQ"}
                 [] pg[r].flag = "P"          -> {"W", "NR"}
                 [] pg[r].flag = "Y"          -> {"P", "W", "NR"}
                 [] pg[r].flag = "F"          -> {"F", "ID", "W", "NR"}

(* Nothing in the service will take up the row again: it has its verdict, or *)
(* it is at E with no retry left.                                            *)
AtRest(row) == row.flag \in Terminal \/ (row.flag = "E" /\ ~Pending(row))

(* Every request comes to rest, if no older row blocks the loop with an mpin *)
(* that does not decrypt and the status checker gets to it before it has     *)
(* been at P for 60 minutes (past them it may stay at P for ever): the retry *)
(* count sees to it in the processor, the status checker where no callback   *)
(* comes, though batches are deferred, the oldest rows are taken first every *)
(* time and a dealer without balance bars the younger ones.                  *)
EventuallySettled ==
  \A r \in Rows :
    /\ \A b \in BadMpin : CreatedAt[r] < CreatedAt[b]
    /\ [](pg[r].age # "lapsed")
    => <>[]AtRest(pg[r])
=============================================================================
