------------------------------ MODULE Populator ------------------------------
(* app/batch/populator.py: run_batch_population, run hourly by the           *)
(* batch_population job and, beside it, by                                   *)
(* POST /admin/trigger-batch-population.  It turns the activated subscribers *)
(* of BCD into recharge requests.                                            *)
EXTENDS Naturals, FiniteSets

CONSTANTS
  Cafs,              \* CAF serial numbers, of either database
  BcdCafs,           \* those with an activated record in BCD (Oracle)
  Gsms,              \* GSM numbers
  GsmOf,             \* GSMNUMBER of each BCD record
  ActivatedAt,       \* HLR_FINAL_ACT_DATE of each BCD record
  KycRows,           \* what the EKYC and DKYC joins return, for every GSM
  FetchSize,         \* oracle_batch_fetch_size
  Populators,        \* concurrent runs of run_batch_population
  NoRequest,         \* stands for FRC_REQID NULL
  MaxDays,           \* bound: calendar days
  MaxLost            \* bound: runs whose writeback is lost

(* A KYC row names its CAF by itself, whatever BCD says of the GSM; it is    *)
(* usable when vendor, plan and mpin are all there, and rejected when the    *)
(* request table refuses it (a NOT NULL, a length, a CHECK).                 *)
ASSUME PopulatorAssumption ==
  /\ BcdCafs \subseteq Cafs
  /\ GsmOf \in [BcdCafs -> Gsms]
  /\ ActivatedAt \in [BcdCafs -> Nat]
  /\ KycRows \subseteq [gsm : Gsms, caf : Cafs, usable : BOOLEAN, rejected : BOOLEAN]
  /\ FetchSize \in Nat \ {0} /\ MaxDays \in Nat \ {0} /\ MaxLost \in Nat
  /\ IsFiniteSet(Cafs) /\ IsFiniteSet(Populators)

VARIABLES
  requests,   \* frc_pyro_request_data: CAF, GSM and batch_date of each row
  link,       \* link[c]: the request FRC_REQID names; NoRequest while NP
  day,        \* CURRENT_DATE
  pop,        \* pop[p]: the local variables of run p
  lost        \* how many runs inserted rows and never wrote them back

vars == <<requests, link, day, pop, lost>>

Request == [caf : Cafs, gsm : Gsms, day : 1..MaxDays]

ASSUME NoRequestAssumption == NoRequest \notin Request

PopState == [pc : {"idle", "insert", "writeback"}, rows : SUBSET KycRows,
             pairs : SUBSET Request]

TypeOK ==
  /\ requests \subseteq Request
  /\ link \in [BcdCafs -> Request \cup {NoRequest}]
  /\ day \in 1..MaxDays
  /\ pop \in [Populators -> PopState]
  /\ lost \in 0..MaxLost

PopIdle == [pc |-> "idle", rows |-> {}, pairs |-> {}]

Init ==
  /\ requests = {}
  /\ link = [c \in BcdCafs |-> NoRequest]
  /\ day = 1
  /\ pop = [p \in Populators |-> PopIdle]
  /\ lost = 0

(* Records fetch_eligible_bcd_records may return.  FRC_FLOW_STATUS leaves NP *)
(* in the UPDATE that sets FRC_REQID.                                        *)
AnyRecord == BcdCafs     \* mutant: no filter on FRC_FLOW_STATUS and FRC_REQID
Eligible == {c \in BcdCafs : link[c] = NoRequest}

(* ROWNUM <= fetch_size.                                                     *)
IsFull(B) ==
  /\ B \subseteq Eligible
  /\ Cardinality(B) = IF Cardinality(Eligible) <= FetchSize
                      THEN Cardinality(Eligible) ELSE FetchSize

NewestFetched(B) ==          \* mutant: ORDER BY HLR_FINAL_ACT_DATE DESC
  IsFull(B) /\ \A b \in B, c \in Eligible \ B : ActivatedAt[b] >= ActivatedAt[c]

(* The oldest first.                                                         *)
IsFetched(B) ==
  IsFull(B) /\ \A b \in B, c \in Eligible \ B : ActivatedAt[b] <= ActivatedAt[c]

(* The KYC rows of the fetched records, less the ones skipped.               *)
RowsFor(B) == {k \in KycRows : k.usable /\ \E c \in B : GsmOf[c] = k.gsm}

(* A run that finds no row to insert returns and has changed nothing.        *)
FetchEligible(p) ==
  /\ pop[p].pc = "idle"
  /\ \E B \in SUBSET BcdCafs :
       /\ IsFetched(B) /\ RowsFor(B) # {}
       /\ pop' = [pop EXCEPT ![p] = [PopIdle EXCEPT !.pc = "insert", !.rows = RowsFor(B)]]
  /\ UNCHANGED <<requests, link, day, lost>>

OfferedOfYesterday(p) ==     \* mutant: batch_date in a time zone a day behind
  {[caf |-> k.caf, gsm |-> k.gsm, day |-> day - 1] : k \in pop[p].rows}
Offered(p) == {[caf |-> k.caf, gsm |-> k.gsm, day |-> day] : k \in pop[p].rows}

(* The UNIQUE constraint knows the CAF and the day, not the GSM.             *)
SameKey(q, o) == q.caf = o.caf /\ q.day = o.day

Fresh(p) == {q \in Offered(p) : \A o \in requests : ~SameKey(q, o)}

(* ON CONFLICT (batch_date, CAF) DO NOTHING, row by row: of the rows under   *)
(* one CAF that has no request of the day the first goes in and comes back.  *)
IsInserted(p, new) ==
  /\ new \subseteq Fresh(p)
  /\ \A q \in Fresh(p) : \E o \in new : SameKey(q, o)
  /\ \A q, o \in new : SameKey(q, o) => q = o

(* bulk_insert_frc_requests, one transaction.                                *)
BulkInsert(p) ==
  /\ pop[p].pc = "insert"
  /\ \A k \in pop[p].rows : ~k.rejected
  /\ \E new \in SUBSET Fresh(p) :
       /\ IsInserted(p, new)
       /\ requests' = requests \cup new
       /\ pop' = [pop EXCEPT ![p] =
                    IF new = {} THEN PopIdle
                    ELSE [PopIdle EXCEPT !.pc = "writeback", !.pairs = new]]
  /\ UNCHANGED <<link, day, lost>>

(* One row the table refuses rolls the others back, and the run returns.     *)
BulkInsertRejected(p) ==
  /\ pop[p].pc = "insert"
  /\ \E k \in pop[p].rows : k.rejected
  /\ pop' = [pop EXCEPT ![p] = PopIdle]
  /\ UNCHANGED <<requests, link, day, lost>>

(* WHERE CAF_SERIAL_NO = caf AND FRC_FLOW_STATUS = 'NP'.                     *)
MatchesToday(q, c) ==        \* mutant: only requests with the batch_date of today
  q.caf = c /\ q.day = day /\ link[c] = NoRequest
Matches(q, c) == q.caf = c /\ link[c] = NoRequest

(* batch_writeback_bcd_rq, one transaction.                                  *)
WritebackRQ(p) ==
  /\ pop[p].pc = "writeback"
  /\ link' = [c \in BcdCafs |->
                IF \E q \in pop[p].pairs : Matches(q, c)
                THEN CHOOSE q \in pop[p].pairs : Matches(q, c)
                ELSE link[c]]
  /\ pop' = [pop EXCEPT ![p] = PopIdle]
  /\ UNCHANGED <<requests, day, lost>>

(* A database raises or the process ends: a run that has inserted its rows   *)
(* never writes them back.                                                   *)
PopAbort(p) ==
  /\ pop[p].pc # "idle" /\ lost < MaxLost
  /\ pop' = [pop EXCEPT ![p] = PopIdle]
  /\ lost' = IF pop[p].pc = "writeback" THEN lost + 1 ELSE lost
  /\ UNCHANGED <<requests, link, day>>

NextDay ==
  /\ day < MaxDays
  /\ day' = day + 1
  /\ UNCHANGED <<requests, link, pop, lost>>

PopStep(p) ==
  FetchEligible(p) \/ BulkInsert(p) \/ BulkInsertRejected(p) \/ WritebackRQ(p)

Next == NextDay \/ \E p \in Populators : PopStep(p) \/ PopAbort(p)

Spec == Init /\ [][Next]_vars

(* The scheduler starts the job for ever, a started run runs on, and the     *)
(* database does not fail every insert.                                      *)
FairSpec ==
  Spec /\ \A p \in Populators : WF_vars(PopStep(p)) /\ SF_vars(BulkInsert(p))

-----------------------------------------------------------------------------
(* The requests made for the subscriber of record c, under whatever CAF.     *)
RequestsOf(c) == {q \in requests : q.gsm = GsmOf[c]}

(* The CAFs the KYC rows of the subscriber put on its requests.              *)
CafsOf(c) == {k.caf : k \in {k \in KycRows : k.usable /\ k.gsm = GsmOf[c]}}

(* The KYC rows with the CAF of this record come in by its GSM alone.        *)
OwnRowsOnly(c) ==
  \A k \in KycRows, g \in BcdCafs : k.caf = c /\ k.gsm = GsmOf[g] => g = c

(* CAFs under which a request need not link the record it was made for.      *)
Strays(c) == IF OwnRowsOnly(c) THEN CafsOf(c) \ {c} ELSE CafsOf(c)

(* Under the CAF of its BCD record a subscriber gets one request, one more   *)
(* for every run whose writeback was lost, and one more for every run that   *)
(* may be going on beside the first: the UNIQUE constraint knows one day     *)
(* only, so it is the RQ writeback that keeps the days apart.  Where a KYC   *)
(* row has another CAF the writeback links some other record or none, and    *)
(* the subscriber gets one more every day under that CAF, with nothing lost  *)
(* (run_batch_population).                                                   *)
RequestBound ==
  \A c \in BcdCafs :
    Cardinality(RequestsOf(c)) <=
      (IF c \in CafsOf(c) \ Strays(c) THEN Cardinality(Populators) + lost ELSE 0)
        + day * Cardinality(Strays(c))

(* While a BCD record is still at NP, every request of its subscriber is in  *)
(* the hands of a run about to write it back, was lost with one, or bears    *)
(* the CAF of another KYC row, one a day at most for each such CAF: no other *)
(* outcome of a run leaves a request its subscriber does not name.           *)
OrphansAccounted ==
  \A c \in BcdCafs : link[c] = NoRequest =>
    Cardinality(RequestsOf(c)) <=
      lost + Cardinality({p \in Populators : \E q \in pop[p].pairs : q.caf = c})
        + day * Cardinality(CafsOf(c) \ {c})

(* It brings a row into the insert that the table refuses.                   *)
Poison(c) == \E k \in KycRows : k.usable /\ k.rejected /\ k.gsm = GsmOf[c]

(* It is fetched again and again and does no harm: no KYC row has its CAF.   *)
Stuck(c) == (\A k \in KycRows : k.usable => k.caf # c) /\ ~Poison(c)

(* A record with a usable KYC row of its own is requested in the end, if the *)
(* records that may never leave the queue do not fill the fetch before it,   *)
(* and any that would poison the insert comes after it and after enough      *)
(* stuck ones to be kept out of its fetch.                                   *)
EventuallyRequested ==
  \A c \in BcdCafs :
    (/\ c \in CafsOf(c) \ Strays(c) /\ ~Poison(c)
     /\ Cardinality({o \in BcdCafs : o \notin CafsOf(o) /\ ActivatedAt[o] <= ActivatedAt[c]})
          < FetchSize
     /\ \A b \in BcdCafs : Poison(b) =>
          /\ ActivatedAt[c] < ActivatedAt[b]
          /\ Cardinality({o \in BcdCafs : Stuck(o) /\ ActivatedAt[o] < ActivatedAt[b]})
               >= FetchSize - 1)
    => <>(\E q \in RequestsOf(c) : q.caf = c)

(* "If BCD writeback fails, Postgres UNIQUE constraint prevents re-insert on *)
(* next batch run" (run_batch_population, step 5), said of the subscribers   *)
(* all of whose KYC rows have the CAF of their own record.                   *)
UniquePreventsReinsert ==
  \A c \in BcdCafs : Strays(c) = {} => Cardinality(RequestsOf(c)) <= 1
=============================================================================
