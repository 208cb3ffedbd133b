--------------------------- MODULE PopulatorProofs ---------------------------
(* The invariants of Populator, for every value of its constants: any number *)
(* of runs, records, KYC rows, days and lost writebacks.                     *)
EXTENDS Populator, FiniteSetTheorems, TLAPS

(* A run has pairs to write back only while it is about to.                  *)
PairsAtHand == \A p \in Populators : pop[p].pc # "writeback" => pop[p].pairs = {}

TypeInv == TypeOK /\ PairsAtHand

-----------------------------------------------------------------------------
(* Type correctness.                                                         *)

(* The values a run's local variables take.                                  *)
LEMMA PopValues ==
  /\ PopIdle \in PopState /\ PopIdle.pc = "idle" /\ PopIdle.pairs = {} /\ PopIdle.rows = {}
  /\ \A rows \in SUBSET KycRows :
       /\ [PopIdle EXCEPT !.pc = "insert", !.rows = rows] \in PopState
       /\ [PopIdle EXCEPT !.pc = "insert", !.rows = rows].pc = "insert"
       /\ [PopIdle EXCEPT !.pc = "insert", !.rows = rows].rows = rows
       /\ [PopIdle EXCEPT !.pc = "insert", !.rows = rows].pairs = {}
  /\ \A pairs \in SUBSET Request :
       /\ [PopIdle EXCEPT !.pc = "writeback", !.pairs = pairs] \in PopState
       /\ [PopIdle EXCEPT !.pc = "writeback", !.pairs = pairs].pc = "writeback"
       /\ [PopIdle EXCEPT !.pc = "writeback", !.pairs = pairs].pairs = pairs
       /\ [PopIdle EXCEPT !.pc = "writeback", !.pairs = pairs].rows = {}
  BY DEF PopIdle, PopState

(* The rows a run inserts are requests of the day, made of its KYC rows.     *)
LEMMA FreshTyped ==
  ASSUME TypeOK, NEW p \in Populators
  PROVE  /\ Fresh(p) \in SUBSET Request
         /\ \A q \in Fresh(p) :
              /\ \A o \in requests : ~SameKey(q, o)
              /\ q.day = day
              /\ \E k \in pop[p].rows : k.caf = q.caf /\ k.gsm = q.gsm
  <1>1. pop[p].rows \subseteq KycRows /\ day \in 1..MaxDays
    BY DEF TypeOK, PopState
  <1>2. ASSUME NEW q \in Fresh(p)
        PROVE  /\ q \in Request /\ q.day = day /\ \A o \in requests : ~SameKey(q, o)
               /\ \E k \in pop[p].rows : k.caf = q.caf /\ k.gsm = q.gsm
    <2>1. PICK k \in pop[p].rows : q = [caf |-> k.caf, gsm |-> k.gsm, day |-> day]
      BY DEF Fresh, Offered
    <2>2. k.caf \in Cafs /\ k.gsm \in Gsms
      BY <1>1, PopulatorAssumption
    <2> QED
      BY <1>1, <2>1, <2>2 DEF Fresh, Request
  <1> QED
    BY <1>2

(* The RQ writeback links a record at NP to a pair of the run, no other.     *)
LEMMA Linked ==
  ASSUME TypeOK, NEW p \in Populators, WritebackRQ(p), NEW c \in BcdCafs
  PROVE  IF \E q \in pop[p].pairs : Matches(q, c)
         THEN link[c] = NoRequest /\ link'[c] \in Request
         ELSE link'[c] = link[c]
  <1>1. link'[c] = IF \E q \in pop[p].pairs : Matches(q, c)
                   THEN CHOOSE q \in pop[p].pairs : Matches(q, c) ELSE link[c]
    BY DEF WritebackRQ
  <1>2. pop[p].pairs \subseteq Request
    BY DEF TypeOK, PopState
  <1> QED
    BY <1>1, <1>2 DEF Matches

(* One run rewritten.                                                        *)
LEMMA PopUpdate ==
  ASSUME TypeInv, NEW p \in Populators, NEW v \in PopState,
         v.pc # "writeback" => v.pairs = {}, pop' = [pop EXCEPT ![p] = v]
  PROVE  /\ pop' \in [Populators -> PopState] /\ PairsAtHand'
         /\ pop'[p] = v /\ \A o \in Populators : o # p => pop'[o] = pop[o]
  BY DEF TypeInv, TypeOK, PairsAtHand

(* What each step does to the run that takes it.                             *)
LEMMA RunMoves ==
  ASSUME TypeInv, NEW p \in Populators
  PROVE  /\ FetchEligible(p) => \E B \in SUBSET BcdCafs :
              /\ B \subseteq Eligible
              /\ pop' = [pop EXCEPT ![p] = [PopIdle EXCEPT !.pc = "insert", !.rows = RowsFor(B)]]
              /\ RowsFor(B) \in SUBSET KycRows
         /\ BulkInsert(p) => \E v \in PopState :
              /\ pop' = [pop EXCEPT ![p] = v]
              /\ v.pc # "insert" /\ v.rows = {} /\ (v.pc # "writeback" => v.pairs = {})
              /\ IsInserted(p, v.pairs) /\ requests' = requests \cup v.pairs
  <1>1. ASSUME FetchEligible(p)
        PROVE  \E B \in SUBSET BcdCafs :
              /\ B \subseteq Eligible
              /\ pop' = [pop EXCEPT ![p] = [PopIdle EXCEPT !.pc = "insert", !.rows = RowsFor(B)]]
              /\ RowsFor(B) \in SUBSET KycRows
    BY <1>1 DEF FetchEligible, IsFetched, IsFull, RowsFor
  <1>2. ASSUME BulkInsert(p)
        PROVE  \E v \in PopState :
              /\ pop' = [pop EXCEPT ![p] = v]
              /\ v.pc # "insert" /\ v.rows = {} /\ (v.pc # "writeback" => v.pairs = {})
              /\ IsInserted(p, v.pairs) /\ requests' = requests \cup v.pairs
    <2>1. PICK new \in SUBSET Fresh(p) :
            /\ IsInserted(p, new) /\ requests' = requests \cup new
            /\ pop' = [pop EXCEPT ![p] =
                         IF new = {} THEN PopIdle
                         ELSE [PopIdle EXCEPT !.pc = "writeback", !.pairs = new]]
      BY <1>2 DEF BulkInsert
    <2>2. CASE new = {}
      <3>1. pop' = [pop EXCEPT ![p] = PopIdle] /\ IsInserted(p, PopIdle.pairs)
        BY <2>1, <2>2, PopValues
      <3>2. requests' = requests \cup PopIdle.pairs
        BY <2>1, <2>2, PopValues
      <3> QED
        BY <3>1, <3>2, PopValues
    <2>3. CASE new # {}
      <3> DEFINE v == [PopIdle EXCEPT !.pc = "writeback", !.pairs = new]
      <3>1. new \in SUBSET Request
        BY FreshTyped DEF TypeInv
      <3>2. v \in PopState /\ v.pc = "writeback" /\ v.pairs = new /\ v.rows = {}
        BY <3>1, PopValues
      <3>3. pop' = [pop EXCEPT ![p] = v]
        BY <2>1, <2>3
      <3> HIDE DEF v
      <3> QED
        BY <2>1, <3>2, <3>3
    <2> QED
      BY <2>2, <2>3
  <1> QED
    BY <1>1, <1>2

(* Every step keeps the types.                                               *)
LEMMA NextTyped == TypeInv /\ [Next]_vars => TypeInv'
  <1> SUFFICES ASSUME TypeInv, [Next]_vars PROVE TypeInv'
    OBVIOUS
  <1> USE DEF TypeInv
  <1>1. CASE NextDay
    BY <1>1, PopulatorAssumption DEF NextDay, TypeOK, PairsAtHand
  <1>2. ASSUME NEW p \in Populators, FetchEligible(p)
        PROVE  TypeInv'
    <2>1. PICK rows \in SUBSET KycRows :
            pop' = [pop EXCEPT ![p] = [PopIdle EXCEPT !.pc = "insert", !.rows = rows]]
      BY <1>2, RunMoves
    <2>2. pop' \in [Populators -> PopState] /\ PairsAtHand'
      BY <2>1, PopValues, PopUpdate
    <2> QED
      BY <1>2, <2>2 DEF FetchEligible, TypeOK
  <1>3. ASSUME NEW p \in Populators, BulkInsert(p)
        PROVE  TypeInv'
    <2>1. PICK v \in PopState :
            /\ pop' = [pop EXCEPT ![p] = v] /\ (v.pc # "writeback" => v.pairs = {})
            /\ IsInserted(p, v.pairs) /\ requests' = requests \cup v.pairs
      BY <1>3, RunMoves
    <2>2. pop' \in [Populators -> PopState] /\ PairsAtHand'
      BY <2>1, PopUpdate
    <2>3. requests' \subseteq Request
      BY <2>1, FreshTyped DEF IsInserted, TypeOK
    <2> QED
      BY <1>3, <2>2, <2>3 DEF BulkInsert, TypeOK
  <1>4. ASSUME NEW p \in Populators, BulkInsertRejected(p)
        PROVE  TypeInv'
    BY <1>4, PopValues, PopUpdate DEF BulkInsertRejected, TypeOK
  <1>5. ASSUME NEW p \in Populators, WritebackRQ(p)
        PROVE  TypeInv'
    <2>1. pop' \in [Populators -> PopState] /\ PairsAtHand'
      BY <1>5, PopValues, PopUpdate DEF WritebackRQ
    <2>2. link' \in [BcdCafs -> Request \cup {NoRequest}]
      <3>1. \A c \in BcdCafs : link'[c] \in Request \cup {NoRequest}
        BY <1>5, Linked DEF TypeOK
      <3> QED
        BY <1>5, <3>1 DEF WritebackRQ
    <2> QED
      BY <1>5, <2>1, <2>2 DEF WritebackRQ, TypeOK
  <1>6. ASSUME NEW p \in Populators, PopAbort(p)
        PROVE  TypeInv'
    <2>1. pop' \in [Populators -> PopState] /\ PairsAtHand'
      BY <1>6, PopValues, PopUpdate DEF PopAbort
    <2> QED
      BY <1>6, <2>1, PopulatorAssumption DEF PopAbort, TypeOK
  <1>7. CASE UNCHANGED vars
    BY <1>7 DEF vars, TypeOK, PairsAtHand
  <1> QED
    BY <1>1, <1>2, <1>3, <1>4, <1>5, <1>6, <1>7 DEF Next, PopStep

(* They hold at first.                                                       *)
LEMMA InitTyped == Init => TypeInv
  <1> SUFFICES ASSUME Init PROVE TypeInv
    OBVIOUS
  <1>1. 1 \in 1..MaxDays /\ 0 \in 0..MaxLost
    BY PopulatorAssumption
  <1>2. pop \in [Populators -> PopState] /\ PairsAtHand
    BY PopValues DEF Init, PairsAtHand
  <1>3. link \in [BcdCafs -> Request \cup {NoRequest}]
    BY DEF Init
  <1> QED
    BY <1>1, <1>2, <1>3 DEF Init, TypeInv, TypeOK

(* Every variable keeps its type: no request has a batch_date that has not   *)
(* come yet, and no record names a request of another table.                 *)
THEOREM PopulatorTypeCorrect == Spec => []TypeOK
  <1>1. TypeInv => TypeOK
    BY DEF TypeInv
  <1> QED
    BY <1>1, InitTyped, NextTyped, PTL DEF Spec

-----------------------------------------------------------------------------
(* How many requests are made under a CAF.                                   *)
Under(c) == {q \in requests : q.caf = c}

(* The runs that hold a request of record c and have not written it back.    *)
Holders(c) == {p \in Populators : \E q \in pop[p].pairs : q.caf = c}

(* The runs that have fetched c and may insert a request of it.              *)
Comers(c) ==
  {p \in Populators : pop[p].pc = "insert" /\ \E k \in pop[p].rows : k.caf = c}

(* A step that makes no request of c and loses none; once c is linked, it    *)
(* sends no run after it.                                                    *)
Aside(c) ==
  /\ Under(c)' = Under(c) /\ link'[c] = link[c] /\ lost' = lost
  /\ Holders(c)' = Holders(c)
  /\ link[c] # NoRequest /\ OwnRowsOnly(c) => Comers(c)' \subseteq Comers(c)

(* Run p makes a request of c.                                               *)
Makes(p, c) ==
  /\ \E q : Under(c)' = Under(c) \cup {q} /\ q \notin Under(c)
  /\ link'[c] = link[c] /\ lost' = lost
  /\ p \in Comers(c) /\ p \notin Holders(c)
  /\ Holders(c)' = Holders(c) \cup {p} /\ Comers(c)' = Comers(c) \ {p}

(* Run p ends and its pairs are lost.                                        *)
Loses(p, c) ==
  /\ Under(c)' = Under(c) /\ link'[c] = link[c] /\ lost' = lost + 1
  /\ Holders(c)' = Holders(c) \ {p} /\ Comers(c)' \subseteq Comers(c)

(* Run p writes its pairs back.                                              *)
Links(p, c) ==
  /\ Under(c)' = Under(c) /\ lost' = lost
  /\ Holders(c)' = Holders(c) \ {p} /\ Comers(c)' \subseteq Comers(c)
  /\ IF link[c] = NoRequest /\ p \in Holders(c)
     THEN link'[c] # NoRequest ELSE link'[c] = link[c]

(* What one run's new local variables make of the two sets.                  *)
Becomes(p, v, c) ==
  /\ Holders(c)' = IF \E q \in v.pairs : q.caf = c
                   THEN Holders(c) \cup {p} ELSE Holders(c) \ {p}
  /\ Comers(c)' = IF v.pc = "insert" /\ \E k \in v.rows : k.caf = c
                  THEN Comers(c) \cup {p} ELSE Comers(c) \ {p}

LEMMA RunSets ==
  ASSUME TypeInv, NEW p \in Populators, NEW v \in PopState, NEW c \in BcdCafs,
         pop' = [pop EXCEPT ![p] = v]
  PROVE  Becomes(p, v, c)
  <1>1. pop'[p] = v /\ \A o \in Populators : o # p => pop'[o] = pop[o]
    BY DEF TypeInv, TypeOK
  <1> QED
    BY <1>1 DEF Becomes, Holders, Comers

(* A run back at the start is in neither.                                    *)
LEMMA BackToIdle ==
  ASSUME TypeInv, NEW p \in Populators, NEW c \in BcdCafs,
         pop' = [pop EXCEPT ![p] = PopIdle]
  PROVE  Holders(c)' = Holders(c) \ {p} /\ Comers(c)' = Comers(c) \ {p}
  <1>1. Becomes(p, PopIdle, c)
    BY PopValues, RunSets
  <1> QED
    BY <1>1, PopValues DEF Becomes

(* A run that is not writing back holds nothing.                             *)
LEMMA EmptyHanded ==
  ASSUME TypeInv, NEW p \in Populators, NEW c \in BcdCafs, pop[p].pc # "writeback"
  PROVE  p \notin Holders(c)
  BY DEF TypeInv, PairsAtHand, Holders

(* A fetch sends the run after records that are not linked yet.              *)
LEMMA FetchEffect ==
  ASSUME TypeInv, NEW p \in Populators, FetchEligible(p), NEW c \in BcdCafs
  PROVE  Aside(c)
  <1>1. PICK B \in SUBSET BcdCafs :
          /\ B \subseteq Eligible
          /\ pop' = [pop EXCEPT ![p] = [PopIdle EXCEPT !.pc = "insert", !.rows = RowsFor(B)]]
          /\ RowsFor(B) \in SUBSET KycRows
    BY RunMoves
  <1> DEFINE v == [PopIdle EXCEPT !.pc = "insert", !.rows = RowsFor(B)]
  <1>2. v \in PopState /\ v.rows = RowsFor(B) /\ v.pairs = {} /\ pop' = [pop EXCEPT ![p] = v]
    BY <1>1, PopValues
  <1> HIDE DEF v
  <1>3. pop[p].pc = "idle" /\ UNCHANGED <<requests, link, lost>>
    BY DEF FetchEligible
  <1>set. Becomes(p, v, c)
    BY <1>2, RunSets
  <1>4. Holders(c)' = Holders(c)
    <2>1. p \notin Holders(c)
      BY <1>3, EmptyHanded
    <2> QED
      BY <1>2, <1>set, <2>1 DEF Becomes
  <1>5. ASSUME link[c] # NoRequest, OwnRowsOnly(c)
        PROVE  ~(\E k \in v.rows : k.caf = c)
    BY <1>1, <1>2, <1>5 DEF RowsFor, Eligible, OwnRowsOnly
  <1>6. link[c] # NoRequest /\ OwnRowsOnly(c) => Comers(c)' \subseteq Comers(c)
    BY <1>set, <1>5 DEF Becomes
  <1> QED
    BY <1>3, <1>4, <1>6 DEF Aside, Under

(* An insert makes one request of c, if c is among its rows and has none of  *)
(* the day yet.                                                              *)
LEMMA InsertEffect ==
  ASSUME TypeInv, NEW p \in Populators, BulkInsert(p), NEW c \in BcdCafs
  PROVE  Aside(c) \/ Makes(p, c)
  <1>1. PICK v \in PopState :
          /\ pop' = [pop EXCEPT ![p] = v] /\ v.pc # "insert"
          /\ IsInserted(p, v.pairs) /\ requests' = requests \cup v.pairs
    BY RunMoves
  <1>2. pop[p].pc = "insert" /\ UNCHANGED <<link, lost>> /\ p \notin Holders(c)
    BY EmptyHanded DEF BulkInsert
  <1>set. Becomes(p, v, c)
    BY <1>1, RunSets
  <1>3. Comers(c)' = Comers(c) \ {p}
    BY <1>1, <1>set DEF Becomes
  <1>4. CASE \E q \in v.pairs : q.caf = c
    <2>1. PICK q \in v.pairs : q.caf = c
      BY <1>4
    <2>2. v.pairs \subseteq Fresh(p) /\ \A o \in v.pairs : SameKey(q, o) => q = o
      BY <1>1, <2>1 DEF IsInserted
    <2>3. q \notin requests /\ \A o \in v.pairs : o.caf = c => o = q
      BY <2>1, <2>2, FreshTyped DEF SameKey, TypeInv
    <2>4. Under(c)' = Under(c) \cup {q} /\ q \notin Under(c)
      BY <1>1, <2>1, <2>3 DEF Under
    <2>5. p \in Comers(c)
      BY <1>2, <2>1, <2>2, FreshTyped DEF Comers, TypeInv
    <2>6. Holders(c)' = Holders(c) \cup {p}
      BY <1>4, <1>set DEF Becomes
    <2> QED
      BY <1>2, <1>3, <2>4, <2>5, <2>6 DEF Makes
  <1>5. CASE ~(\E q \in v.pairs : q.caf = c)
    <2>1. Under(c)' = Under(c)
      BY <1>1, <1>5 DEF Under
    <2>2. Holders(c)' = Holders(c)
      BY <1>2, <1>5, <1>set DEF Becomes
    <2> QED
      BY <1>2, <1>3, <2>1, <2>2 DEF Aside
  <1> QED
    BY <1>4, <1>5

(* The RQ writeback links every record it holds a request of.                *)
LEMMA WritebackEffect ==
  ASSUME TypeInv, NEW p \in Populators, WritebackRQ(p), NEW c \in BcdCafs
  PROVE  Links(p, c)
  <1>1. UNCHANGED <<requests, lost>> /\ pop' = [pop EXCEPT ![p] = PopIdle]
    BY DEF WritebackRQ
  <1>2. Holders(c)' = Holders(c) \ {p} /\ Comers(c)' = Comers(c) \ {p}
    BY <1>1, BackToIdle
  <1>3. (\E q \in pop[p].pairs : Matches(q, c)) <=> (link[c] = NoRequest /\ p \in Holders(c))
    BY DEF Matches, Holders
  <1>4. IF link[c] = NoRequest /\ p \in Holders(c)
        THEN link'[c] # NoRequest ELSE link'[c] = link[c]
    BY <1>3, Linked, NoRequestAssumption DEF TypeInv
  <1> QED
    BY <1>1, <1>2, <1>4 DEF Links, Under

(* Every step is one of the four to a record.                                *)
LEMMA StepEffect ==
  ASSUME TypeInv, [Next]_vars, NEW c \in BcdCafs
  PROVE  Aside(c) \/ \E p \in Populators : Makes(p, c) \/ Loses(p, c) \/ Links(p, c)
  <1>1. ASSUME UNCHANGED <<requests, link, pop, lost>> PROVE Aside(c)
    BY <1>1 DEF Aside, Under, Holders, Comers
  <1>2. ASSUME NEW p \in Populators, BulkInsertRejected(p) PROVE Aside(c)
    <2>1. pop[p].pc = "insert" /\ pop' = [pop EXCEPT ![p] = PopIdle]
          /\ UNCHANGED <<requests, link, lost>>
      BY <1>2 DEF BulkInsertRejected
    <2>2. Holders(c)' = Holders(c) \ {p} /\ Comers(c)' = Comers(c) \ {p}
          /\ p \notin Holders(c)
      <3>1. p \notin Holders(c)
        BY <2>1, EmptyHanded
      <3> QED
        BY <2>1, <3>1, BackToIdle
    <2> QED
      BY <2>1, <2>2 DEF Aside, Under
  <1>3. ASSUME NEW p \in Populators, PopAbort(p) PROVE Aside(c) \/ Loses(p, c)
    <2>1. pop' = [pop EXCEPT ![p] = PopIdle] /\ UNCHANGED <<requests, link>>
          /\ lost' = IF pop[p].pc = "writeback" THEN lost + 1 ELSE lost
      BY <1>3 DEF PopAbort
    <2>2. Holders(c)' = Holders(c) \ {p} /\ Comers(c)' = Comers(c) \ {p}
      BY <2>1, BackToIdle
    <2>3. pop[p].pc # "writeback" => p \notin Holders(c)
      BY EmptyHanded
    <2> QED
      BY <2>1, <2>2, <2>3 DEF Aside, Loses, Under
  <1>4. CASE NextDay
    BY <1>1, <1>4 DEF NextDay
  <1>5. CASE UNCHANGED vars
    BY <1>1, <1>5 DEF vars
  <1>6. ASSUME NEW p \in Populators, PopStep(p)
        PROVE  Aside(c) \/ Makes(p, c) \/ Loses(p, c) \/ Links(p, c)
    BY <1>2, <1>6, FetchEffect, InsertEffect, WritebackEffect DEF PopStep
  <1> QED
    BY <1>3, <1>4, <1>5, <1>6 DEF Next

(* No run is in both sets.                                                   *)
LEMMA RunCounts ==
  ASSUME TypeInv, NEW c \in BcdCafs
  PROVE  /\ IsFiniteSet(Holders(c)) /\ IsFiniteSet(Comers(c))
         /\ Cardinality(Holders(c)) \in Nat /\ Cardinality(Comers(c)) \in Nat
         /\ Cardinality(Populators) \in Nat
         /\ Cardinality(Holders(c)) + Cardinality(Comers(c)) <= Cardinality(Populators)
  <1>1. Holders(c) \subseteq Populators /\ Comers(c) \subseteq Populators
        /\ Holders(c) \cap Comers(c) = {}
    BY DEF Holders, Comers, TypeInv, PairsAtHand
  <1>2. IsFiniteSet(Populators)
    BY PopulatorAssumption
  <1>3. IsFiniteSet(Holders(c)) /\ IsFiniteSet(Comers(c))
    BY <1>1, <1>2, FS_Subset
  <1>4. Cardinality(Holders(c) \cup Comers(c)) = Cardinality(Holders(c)) + Cardinality(Comers(c))
    <2>1. Cardinality(Holders(c) \cup Comers(c)) =
            Cardinality(Holders(c)) + Cardinality(Comers(c)) - Cardinality({})
      BY <1>1, <1>3, FS_Union
    <2> QED
      BY <1>3, <2>1, FS_EmptySet, FS_CardinalityType
  <1>5. Cardinality(Holders(c) \cup Comers(c)) <= Cardinality(Populators)
    BY <1>1, <1>2, FS_Subset
  <1> QED
    BY <1>2, <1>3, <1>4, <1>5, FS_CardinalityType

(* What is left over of a record at NP, and to come of one that is linked.   *)
Orphans(c) ==
  link[c] = NoRequest => Cardinality(Under(c)) <= lost + Cardinality(Holders(c))

Coming(c) ==
  OwnRowsOnly(c) /\ link[c] # NoRequest =>
    Cardinality(Under(c)) + Cardinality(Comers(c)) <= Cardinality(Populators) + lost

CountInv == \A c \in BcdCafs : IsFiniteSet(Under(c)) /\ Orphans(c) /\ Coming(c)

(* At first nothing has been requested.                                      *)
LEMMA InitCounted == Init => CountInv
  <1> SUFFICES ASSUME Init, NEW c \in BcdCafs
               PROVE  IsFiniteSet(Under(c)) /\ Orphans(c) /\ Coming(c)
    BY DEF CountInv
  <1>1. Under(c) = {} /\ lost = 0 /\ link[c] = NoRequest
    BY DEF Init, Under
  <1>2. Cardinality(Holders(c)) \in Nat
    BY InitTyped, RunCounts
  <1> QED
    BY <1>1, <1>2, FS_EmptySet DEF Orphans, Coming

(* What happens to the count of a record when a run joins or leaves a set.   *)
LEMMA Counted ==
  ASSUME NEW S, IsFiniteSet(S), NEW e
  PROVE  /\ Cardinality(S) \in Nat
         /\ IsFiniteSet(S \cup {e}) /\ IsFiniteSet(S \ {e})
         /\ e \notin S => Cardinality(S \cup {e}) = Cardinality(S) + 1
                          /\ Cardinality(S \ {e}) = Cardinality(S)
         /\ e \in S => Cardinality(S \ {e}) = Cardinality(S) - 1
         /\ \A T : T \subseteq S => Cardinality(T) \in Nat /\ Cardinality(T) <= Cardinality(S)
  <1>1. \A T : T \subseteq S => IsFiniteSet(T) /\ Cardinality(T) <= Cardinality(S)
    BY FS_Subset
  <1> QED
    BY <1>1, FS_AddElement, FS_RemoveElement, FS_CardinalityType

(* Each kind of step keeps the count of a record.                            *)
LEMMA CountKept ==
  ASSUME TypeInv, NEW c \in BcdCafs,
         Aside(c) \/ \E p \in Populators : Makes(p, c) \/ Loses(p, c) \/ Links(p, c),
         IsFiniteSet(Under(c)), Orphans(c), Coming(c)
  PROVE  IsFiniteSet(Under(c)') /\ Orphans(c)' /\ Coming(c)'
  <1> DEFINE R == Cardinality(Under(c))
             H == Cardinality(Holders(c))
             C == Cardinality(Comers(c))
             N == Cardinality(Populators)
  <1>1. /\ R \in Nat /\ H \in Nat /\ C \in Nat /\ N \in Nat /\ H + C <= N /\ lost \in Nat
        /\ IsFiniteSet(Holders(c)) /\ IsFiniteSet(Comers(c))
    BY FS_CardinalityType, RunCounts DEF TypeInv, TypeOK
  <1>2. Comers(c)' \subseteq Comers(c) => C' \in Nat /\ C' <= C
    BY <1>1, Counted
  <1>3. CASE Aside(c)
    BY <1>1, <1>2, <1>3 DEF Aside, Orphans, Coming, OwnRowsOnly
  <1>4. ASSUME NEW p \in Populators, Makes(p, c)
        PROVE  IsFiniteSet(Under(c)') /\ Orphans(c)' /\ Coming(c)'
    <2>1. R' = R + 1 /\ IsFiniteSet(Under(c)')
      <3>1. PICK q : Under(c)' = Under(c) \cup {q} /\ q \notin Under(c)
        BY <1>4 DEF Makes
      <3> QED
        BY <3>1, Counted
    <2>2. H' = H + 1 /\ C' = C - 1
      BY <1>1, <1>4, Counted DEF Makes
    <2> QED
      BY <1>1, <1>4, <2>1, <2>2 DEF Makes, Orphans, Coming, OwnRowsOnly
  <1>5. ASSUME NEW p \in Populators, Loses(p, c)
        PROVE  IsFiniteSet(Under(c)') /\ Orphans(c)' /\ Coming(c)'
    <2>1. H' \in Nat /\ H' >= H - 1
      <3>1. Cardinality(Holders(c) \ {p}) \in Nat
            /\ Cardinality(Holders(c) \ {p}) >= Cardinality(Holders(c)) - 1
        <4>1. /\ IsFiniteSet(Holders(c) \ {p})
              /\ Cardinality(Holders(c) \ {p}) = IF p \in Holders(c) THEN H - 1 ELSE H
          BY <1>1, FS_RemoveElement
        <4>2. Cardinality(Holders(c) \ {p}) \in Nat
          BY <4>1, FS_CardinalityType
        <4> QED
          BY <1>1, <4>1, <4>2
      <3> QED
        BY <1>5, <3>1 DEF Loses
    <2>2. C' \in Nat /\ C' <= C
      BY <1>2, <1>5 DEF Loses
    <2> QED
      BY <1>1, <1>5, <2>1, <2>2 DEF Loses, Orphans, Coming, OwnRowsOnly
  <1>6. ASSUME NEW p \in Populators, Links(p, c)
        PROVE  IsFiniteSet(Under(c)') /\ Orphans(c)' /\ Coming(c)'
    <2>1. C' \in Nat /\ C' <= C
      BY <1>2, <1>6 DEF Links
    <2>2. CASE link[c] = NoRequest /\ p \in Holders(c)
      BY <1>1, <1>6, <2>1, <2>2 DEF Links, Orphans, Coming
    <2>3. CASE ~(link[c] = NoRequest /\ p \in Holders(c))
      <3>1. link[c] = NoRequest => H' = H
        BY <1>1, <1>6, <2>3, Counted DEF Links
      <3> QED
        BY <1>1, <1>6, <2>1, <2>3, <3>1 DEF Links, Orphans, Coming, OwnRowsOnly
    <2> QED
      BY <2>2, <2>3
  <1> QED
    BY <1>3, <1>4, <1>5, <1>6

LEMMA NextCounted == TypeInv /\ CountInv /\ [Next]_vars => CountInv'
  <1> SUFFICES ASSUME TypeInv, CountInv, [Next]_vars, NEW c \in BcdCafs
               PROVE  IsFiniteSet(Under(c)') /\ Orphans(c)' /\ Coming(c)'
    BY DEF CountInv
  <1>1. IsFiniteSet(Under(c)) /\ Orphans(c) /\ Coming(c)
    BY DEF CountInv
  <1> QED
    BY <1>1, StepEffect, CountKept

-----------------------------------------------------------------------------
(* The requests of a subscriber.                                             *)

(* A request bears the CAF and the GSM of a usable KYC row and a day that    *)
(* has come, and no two have the same CAF and day.                           *)
KeyInv ==
  /\ \A p \in Populators : \A k \in pop[p].rows : k.usable
  /\ \A q \in requests :
       /\ q.day \in 1..day
       /\ \E k \in KycRows : k.usable /\ k.caf = q.caf /\ k.gsm = q.gsm
       /\ \A o \in requests : SameKey(q, o) => q = o

LEMMA InitKeyed == Init => KeyInv
  <1> SUFFICES ASSUME Init PROVE KeyInv
    OBVIOUS
  <1>1. requests = {} /\ \A p \in Populators : pop[p] = PopIdle
    BY DEF Init
  <1>2. PopIdle.rows = {}
    BY PopValues
  <1> QED
    BY <1>1, <1>2 DEF KeyInv

(* A run rewritten with usable rows only, and the table left alone.          *)
LEMMA KeysKept ==
  ASSUME TypeInv, KeyInv, NEW p \in Populators, NEW v \in PopState,
         pop' = [pop EXCEPT ![p] = v], \A k \in v.rows : k.usable, requests' = requests,
         day' = day
  PROVE  KeyInv'
  BY DEF TypeInv, TypeOK, KeyInv, SameKey

(* The insert adds requests with keys of their own.                          *)
LEMMA InsertKeyed ==
  ASSUME TypeInv, KeyInv, NEW p \in Populators, BulkInsert(p)
  PROVE  KeyInv'
  <1>1. PICK v \in PopState :
          /\ pop' = [pop EXCEPT ![p] = v] /\ v.rows = {}
          /\ IsInserted(p, v.pairs) /\ requests' = requests \cup v.pairs
    BY RunMoves
  <1>2. day' = day /\ day \in 1..day
    BY PopulatorAssumption DEF BulkInsert, TypeInv, TypeOK
  <1>3. \A o \in Populators : \A k \in pop'[o].rows : k.usable
    BY <1>1 DEF KeyInv, TypeInv, TypeOK
  <1>4. ASSUME NEW q \in v.pairs
        PROVE  /\ q.day \in 1..day
               /\ \E k \in KycRows : k.usable /\ k.caf = q.caf /\ k.gsm = q.gsm
               /\ \A o \in v.pairs : SameKey(q, o) => q = o
               /\ \A o \in requests : ~SameKey(q, o) /\ ~SameKey(o, q)
    <2>1. q \in Fresh(p) /\ \A o \in v.pairs : SameKey(q, o) => q = o
      BY <1>1 DEF IsInserted
    <2>2. q.day = day /\ \A o \in requests : ~SameKey(q, o)
      BY <2>1, FreshTyped DEF TypeInv
    <2>3. PICK k \in pop[p].rows : k.caf = q.caf /\ k.gsm = q.gsm
      BY <2>1, FreshTyped DEF TypeInv
    <2>4. k \in KycRows /\ k.usable
      BY DEF KeyInv, TypeInv, TypeOK, PopState
    <2> QED
      BY <1>2, <2>1, <2>2, <2>3, <2>4 DEF SameKey
  <1> QED
    BY <1>1, <1>2, <1>3, <1>4 DEF KeyInv, SameKey

LEMMA NextKeyed == TypeInv /\ KeyInv /\ [Next]_vars => KeyInv'
  <1> SUFFICES ASSUME TypeInv, KeyInv, [Next]_vars PROVE KeyInv'
    OBVIOUS
  <1>1. CASE NextDay
    <2>1. day \in Nat /\ day' = day + 1 /\ UNCHANGED <<requests, pop>>
      BY <1>1, PopulatorAssumption DEF NextDay, TypeInv, TypeOK
    <2> QED
      BY <2>1 DEF KeyInv, SameKey
  <1>2. ASSUME NEW p \in Populators, FetchEligible(p) PROVE KeyInv'
    <2>1. PICK B \in SUBSET BcdCafs :
            /\ pop' = [pop EXCEPT ![p] = [PopIdle EXCEPT !.pc = "insert", !.rows = RowsFor(B)]]
            /\ RowsFor(B) \in SUBSET KycRows
      BY <1>2, RunMoves
    <2> DEFINE v == [PopIdle EXCEPT !.pc = "insert", !.rows = RowsFor(B)]
    <2>2. v \in PopState /\ v.rows = RowsFor(B) /\ pop' = [pop EXCEPT ![p] = v]
      BY <2>1, PopValues
    <2>3. \A k \in RowsFor(B) : k.usable
      BY DEF RowsFor
    <2>4. UNCHANGED <<requests, day>>
      BY <1>2 DEF FetchEligible
    <2> HIDE DEF v
    <2> QED
      BY <2>2, <2>3, <2>4, KeysKept
  <1>3. ASSUME NEW p \in Populators,
               BulkInsertRejected(p) \/ WritebackRQ(p) \/ PopAbort(p)
        PROVE  KeyInv'
    <2>1. pop' = [pop EXCEPT ![p] = PopIdle] /\ UNCHANGED <<requests, day>>
      BY <1>3 DEF BulkInsertRejected, WritebackRQ, PopAbort
    <2> QED
      BY <2>1, PopValues, KeysKept
  <1>4. CASE UNCHANGED vars
    BY <1>4 DEF vars, KeyInv, SameKey
  <1> QED
    BY <1>1, <1>2, <1>3, <1>4, InsertKeyed DEF Next, PopStep

(* Under each CAF a subscriber gets one request a day at most.               *)
LEMMA OneADay ==
  ASSUME TypeInv, KeyInv, NEW F \in SUBSET Cafs, NEW S \in SUBSET requests,
         \A q \in S : q.caf \in F
  PROVE  /\ IsFiniteSet(S) /\ IsFiniteSet(F)
         /\ Cardinality(S) \in Nat /\ Cardinality(F) \in Nat
         /\ Cardinality(S) <= day * Cardinality(F)
  <1>1. day \in Nat /\ IsFiniteSet(F)
    BY PopulatorAssumption, FS_Subset DEF TypeInv, TypeOK
  <1>2. /\ IsFiniteSet((1..day) \X F)
        /\ Cardinality((1..day) \X F) = day * Cardinality(F)
    <2>1. IsFiniteSet(1..day) /\ Cardinality(1..day) = day
      BY <1>1, FS_Interval
    <2> QED
      BY <1>1, <2>1, FS_Product
  <1> DEFINE f == [q \in S |-> <<q.day, q.caf>>]
  <1>3. f \in Injection(S, (1..day) \X F)
    <2>1. f \in [S -> (1..day) \X F]
      BY DEF KeyInv
    <2>2. ASSUME NEW q \in S, NEW o \in S, f[q] = f[o] PROVE q = o
      BY <2>2 DEF KeyInv, SameKey
    <2> HIDE DEF f
    <2> QED
      BY <2>1, <2>2 DEF Injection, IsInjective
  <1> HIDE DEF f
  <1> QED
    BY <1>1, <1>2, <1>3, FS_Injection, FS_CardinalityType

(* The requests of a subscriber fall into those under the CAF of the record  *)
(* and those under the CAFs F of its other KYC rows.                         *)
LEMMA Split ==
  ASSUME TypeInv, KeyInv, CountInv, NEW c \in BcdCafs, NEW F,
         F = CafsOf(c) \/ F = CafsOf(c) \ {c}
  PROVE  /\ Cardinality(RequestsOf(c)) \in Nat /\ Cardinality(Under(c)) \in Nat
         /\ Cardinality(F) \in Nat
         /\ day * Cardinality(F) \in Nat
         /\ Cardinality(RequestsOf(c)) <=
              (IF c \in CafsOf(c) \ F THEN Cardinality(Under(c)) ELSE 0)
                + day * Cardinality(F)
  <1> DEFINE own == {q \in RequestsOf(c) : q.caf \notin F}
             others == {q \in RequestsOf(c) : q.caf \in F}
  <1>1. F \in SUBSET Cafs
    BY PopulatorAssumption DEF CafsOf
  <1>2. /\ IsFiniteSet(others) /\ Cardinality(others) \in Nat /\ Cardinality(F) \in Nat
        /\ Cardinality(others) <= day * Cardinality(F)
    <2>1. others \in SUBSET requests /\ \A q \in others : q.caf \in F
      BY DEF RequestsOf
    <2> QED
      BY <1>1, <2>1, OneADay
  <1>3. \A q \in RequestsOf(c) : q.caf \in CafsOf(c)
    BY DEF RequestsOf, CafsOf, KeyInv
  <1>4. IsFiniteSet(Under(c)) /\ Cardinality(Under(c)) \in Nat
    BY FS_CardinalityType DEF CountInv
  <1>5. /\ IsFiniteSet(own) /\ Cardinality(own) \in Nat
        /\ Cardinality(own) <= IF c \in CafsOf(c) \ F THEN Cardinality(Under(c)) ELSE 0
    <2>1. CASE c \in CafsOf(c) \ F
      <3>1. own \in SUBSET Under(c)
        BY <1>3, <2>1 DEF RequestsOf, Under
      <3> QED
        BY <1>4, <2>1, <3>1, FS_Subset, FS_CardinalityType
    <2>2. CASE c \notin CafsOf(c) \ F
      <3>1. own = {}
        BY <1>3, <2>2
      <3> QED
        BY <2>2, <3>1, FS_EmptySet
    <2> QED
      BY <2>1, <2>2
  <1>6. RequestsOf(c) = own \cup others /\ own \cap others = {}
    OBVIOUS
  <1> HIDE DEF own, others
  <1>7. /\ Cardinality(RequestsOf(c)) \in Nat
        /\ Cardinality(RequestsOf(c)) = Cardinality(own) + Cardinality(others)
    <2>1. Cardinality(own \cup others) =
            Cardinality(own) + Cardinality(others) - Cardinality(own \cap others)
      BY <1>2, <1>5, FS_Union
    <2> QED
      <3>1. Cardinality(own \cap others) = 0
        BY <1>6, FS_EmptySet
      <3> QED
        BY <1>2, <1>5, <1>6, <2>1, <3>1
  <1>8. day * Cardinality(F) \in Nat
    BY <1>2, PopulatorAssumption DEF TypeInv, TypeOK
  <1> QED
    BY <1>2, <1>4, <1>5, <1>7, <1>8

LEMMA Counts == Spec => [](TypeInv /\ CountInv /\ KeyInv)
  BY InitTyped, NextTyped, InitCounted, NextCounted, InitKeyed, NextKeyed, PTL DEF Spec

(* While a BCD record is still at NP, every request of its subscriber is in  *)
(* the hands of a run about to write it back, was lost with one, or bears    *)
(* the CAF of another KYC row, one a day for each such CAF at most: the      *)
(* insert refused, the skipped rows and the conflicts of run_batch_population *)
(* leave none behind.                                                        *)
THEOREM OrphansAccountedHolds == Spec => []OrphansAccounted
  <1>1. TypeInv /\ CountInv /\ KeyInv => OrphansAccounted
    <2> SUFFICES ASSUME TypeInv, CountInv, KeyInv, NEW c \in BcdCafs, link[c] = NoRequest
                 PROVE  Cardinality(RequestsOf(c)) <=
                          lost + Cardinality(Holders(c)) + day * Cardinality(CafsOf(c) \ {c})
      BY DEF OrphansAccounted, Holders
    <2>1. Cardinality(Under(c)) <= lost + Cardinality(Holders(c))
      BY DEF CountInv, Orphans
    <2>2. lost \in Nat /\ Cardinality(Holders(c)) \in Nat
      BY RunCounts DEF TypeInv, TypeOK
    <2> QED
      BY <2>1, <2>2, Split
  <1> QED
    BY <1>1, Counts, PTL

(* Under the CAF of its record a subscriber gets no more requests than there *)
(* are runs of run_batch_population at a time and writebacks lost, on        *)
(* however many days; under the other CAFs of its KYC rows one a day each.   *)
THEOREM RequestBoundHolds == Spec => []RequestBound
  <1>1. TypeInv /\ CountInv /\ KeyInv => RequestBound
    <2> SUFFICES ASSUME TypeInv, CountInv, KeyInv, NEW c \in BcdCafs
                 PROVE  Cardinality(RequestsOf(c)) <=
                          (IF c \in CafsOf(c) \ Strays(c)
                           THEN Cardinality(Populators) + lost ELSE 0)
                            + day * Cardinality(Strays(c))
      BY DEF RequestBound
    <2>1. Orphans(c) /\ Coming(c) /\ lost \in Nat
      BY DEF CountInv, TypeInv, TypeOK
    <2>2. Strays(c) = CafsOf(c) \/ Strays(c) = CafsOf(c) \ {c}
      BY DEF Strays
    <2>3. c \in CafsOf(c) \ Strays(c) =>
            Cardinality(Under(c)) <= Cardinality(Populators) + lost
      <3>1. c \in CafsOf(c) \ Strays(c) => OwnRowsOnly(c)
        BY DEF Strays
      <3> QED
        BY <2>1, <2>2, <3>1, Split, RunCounts DEF Orphans, Coming
    <2>4. Cardinality(Populators) \in Nat
      BY RunCounts
    <2> QED
      BY <2>1, <2>2, <2>3, <2>4, Split
  <1> QED
    BY <1>1, Counts, PTL

(* "Postgres UNIQUE constraint prevents re-insert" (step 5 of                *)
(* run_batch_population) is true of the subscribers whose KYC rows all have  *)
(* the CAF of their own record, while one run goes on at a time and no       *)
(* writeback has been lost; of a lost one, the run "reinsert" shows the      *)
(* second request, and of a KYC row under another CAF RequestBound tells.    *)
THEOREM UniquePreventsReinsertHolds ==
  Cardinality(Populators) = 1 => (Spec => [](lost = 0 => UniquePreventsReinsert))
  <1> SUFFICES ASSUME Cardinality(Populators) = 1
               PROVE  Spec => [](lost = 0 => UniquePreventsReinsert)
    OBVIOUS
  <1>1. TypeInv /\ CountInv /\ KeyInv /\ RequestBound => (lost = 0 => UniquePreventsReinsert)
    <2> SUFFICES ASSUME TypeInv, CountInv, KeyInv, RequestBound, lost = 0,
                        NEW c \in BcdCafs, Strays(c) = {}
                 PROVE  Cardinality(RequestsOf(c)) <= 1
      BY DEF UniquePreventsReinsert
    <2>1. Cardinality(RequestsOf(c)) <= (IF c \in CafsOf(c) THEN 1 ELSE 0) + day * 0
      BY FS_EmptySet DEF RequestBound
    <2>2. day \in Nat /\ Cardinality(RequestsOf(c)) \in Nat
      BY Split, PopulatorAssumption DEF TypeInv, TypeOK
    <2> QED
      BY <2>1, <2>2
  <1> QED
    BY <1>1, Counts, RequestBoundHolds, PTL
=============================================================================
