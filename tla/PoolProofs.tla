----------------------------- MODULE PoolProofs -----------------------------
(* No connection leaks, and a dropped connection costs one operation,        *)
(* whatever the number of threads and the sizes of the pool.  The first      *)
(* argument counts the threads inside get_pg_conn and never looks into the   *)
(* list of idle connections; the second counts what the drops so far may     *)
(* still cost, in that list and in the hands of the threads.                 *)
EXTENDS PgPool, FiniteSetTheorems, TLAPS

CallTyped == call \in [Threads -> {"idle", "swap"} \cup Holding]

(* A step changes what one thread holds and the pool's count alike.          *)
Kept == Holders' = Holders /\ used' = used
Takes(t) == t \notin Holders /\ Holders' = Holders \cup {t} /\ used' = used + 1
Gives(t) == t \in Holders /\ Holders' = Holders \ {t} /\ used' = used - 1

(* How many threads hold one, when thread t moves.                           *)
LEMMA MoveOf ==
  ASSUME CallTyped, NEW t \in Threads, NEW v \in {"idle", "swap"} \cup Holding,
         call' = [call EXCEPT ![t] = v]
  PROVE  /\ CallTyped'
         /\ v \in Holding => Holders' = Holders \cup {t}
         /\ v \notin Holding => Holders' = Holders \ {t}
  BY DEF CallTyped, Holders

LEMMA HoldingValues ==
  /\ "stale" \in Holding /\ "body" \in Holding
  /\ "idle" \notin Holding /\ "swap" \notin Holding
  BY DEF Holding

LEMMA GetconnEffect ==
  ASSUME CallTyped, NEW t \in Threads, Getconn(t)
  PROVE  CallTyped' /\ (Kept \/ Takes(t)) /\ pool' = pool
  <1>1. call[t] \in {"idle", "swap"} /\ pool' = pool
    BY DEF Getconn
  <1>2. t \notin Holders
    BY <1>1, HoldingValues DEF Holders
  <1>3. CASE GetIdle(t)
    <2> DEFINE v == AfterGetconn(t, Last(idle))
    <2>1. v \in Holding /\ call' = [call EXCEPT ![t] = v] /\ used' = used + 1
      BY <1>3, HoldingValues DEF GetIdle, AfterGetconn
    <2> HIDE DEF v
    <2>2. CallTyped' /\ Holders' = Holders \cup {t}
      BY <2>1, MoveOf
    <2> QED
      BY <1>1, <1>2, <2>1, <2>2 DEF Takes
  <1>4. CASE GetNew(t)
    <2>1. call' = [call EXCEPT ![t] = "body"] /\ used' = used + 1
      BY <1>4 DEF GetNew
    <2>2. CallTyped' /\ Holders' = Holders \cup {t}
      BY <2>1, MoveOf, HoldingValues
    <2> QED
      BY <1>1, <1>2, <2>1, <2>2 DEF Takes
  <1>5. CASE GetconnRaises(t)
    <2>1. call' = [call EXCEPT ![t] = "idle"] /\ used' = used
      BY <1>5 DEF GetconnRaises
    <2>2. CallTyped' /\ Holders' = Holders \ {t}
      BY <2>1, MoveOf, HoldingValues
    <2> QED
      BY <1>1, <1>2, <2>1, <2>2 DEF Kept
  <1> QED
    BY <1>3, <1>4, <1>5 DEF Getconn

(* Both ways out of get_pg_conn give the connection back.                    *)
LEMMA PutconnEffect ==
  ASSUME CallTyped, NEW t \in Threads, DiscardStale(t) \/ Leaves(t)
  PROVE  CallTyped' /\ (pool = "open" => Gives(t)) /\ pool' = pool
  <1>1. t \in Holders /\ pool' = pool
    BY HoldingValues DEF DiscardStale, Leaves, Holders
  <1>2. PICK v \in {"idle", "swap"} : call' = [call EXCEPT ![t] = v]
    BY DEF DiscardStale, Leaves
  <1>3. CallTyped' /\ Holders' = Holders \ {t}
    BY <1>2, MoveOf, HoldingValues
  <1>4. pool = "open" => used' = used - 1
    BY DEF DiscardStale, Leaves, Putconn
  <1> QED
    BY <1>1, <1>3, <1>4 DEF Gives

LeakInv ==
  /\ CallTyped /\ pool \in {"unset", "open", "closed", "gone"} /\ used \in Int
  /\ pool = "unset" => used = 0 /\ \A t \in Threads : call[t] = "idle"
  /\ NoLeak

LEMMA HoldersFinite == IsFiniteSet(Holders) /\ Cardinality(Holders) \in Nat
  <1>1. Holders \subseteq Threads /\ IsFiniteSet(Threads)
    BY PoolAssumption DEF Holders
  <1> QED
    BY <1>1, FS_Subset, FS_CardinalityType

LEMMA NextKeeps == LeakInv /\ [Next]_vars => LeakInv'
  <1> SUFFICES ASSUME LeakInv, [Next]_vars PROVE LeakInv'
    OBVIOUS
  <1>1. ASSUME UNCHANGED <<used, call>>,
               pool' = pool \/ (pool = "unset" /\ pool' = "open")
                 \/ (pool = "open" /\ pool' = "closed") \/ (pool = "closed" /\ pool' = "gone")
        PROVE  LeakInv'
    <2>1. Holders' = Holders
      BY <1>1 DEF Holders
    <2>2. Cardinality(Holders') = Cardinality(Holders)
      BY <2>1
    <2>3. pool = "unset" => used = 0 /\ Cardinality(Holders) = 0
      <3>1. pool = "unset" => Holders = {}
        BY HoldingValues DEF LeakInv, Holders
      <3> QED
        BY <3>1, FS_EmptySet DEF LeakInv
    <2> QED
      BY <1>1, <2>2, <2>3 DEF LeakInv, CallTyped, NoLeak
  <1>2. ASSUME NEW t \in Threads, Getconn(t) PROVE LeakInv'
    <2>1. CallTyped' /\ (Kept \/ Takes(t)) /\ pool' = pool
      BY <1>2, GetconnEffect DEF LeakInv
    <2>2. pool # "unset" /\ Cardinality(Holders) \in Nat
      BY <1>2, HoldersFinite DEF LeakInv, Getconn
    <2>3. CASE Kept
      <3>1. Cardinality(Holders') = Cardinality(Holders)
        BY <2>3 DEF Kept
      <3> QED
        BY <2>1, <2>2, <2>3, <3>1 DEF Kept, LeakInv, NoLeak
    <2>4. CASE Takes(t)
      <3>1. Cardinality(Holders') = Cardinality(Holders) + 1
        BY <2>4, HoldersFinite, FS_AddElement DEF Takes
      <3> QED
        BY <2>1, <2>2, <2>4, <3>1 DEF Takes, LeakInv, NoLeak
    <2> QED
      BY <2>1, <2>3, <2>4
  <1>3. ASSUME NEW t \in Threads, DiscardStale(t) \/ Leaves(t) PROVE LeakInv'
    <2>1. CallTyped' /\ (pool = "open" => Gives(t)) /\ pool' = pool /\ pool # "unset"
      <3>1. pool # "unset"
        BY <1>3 DEF LeakInv, DiscardStale, Leaves
      <3> QED
        BY <1>3, <3>1, PutconnEffect DEF LeakInv
    <2>2. CASE pool = "open"
      <3>1. Cardinality(Holders') = Cardinality(Holders) - 1
        BY <2>1, <2>2, HoldersFinite, FS_RemoveElement DEF Gives
      <3> QED
        BY <2>1, <2>2, <3>1, HoldersFinite DEF Gives, LeakInv, NoLeak
    <2>3. CASE pool # "open"
      <3>1. used' = used
        BY <1>3, <2>3 DEF DiscardStale, Leaves, Putconn
      <3> QED
        BY <2>1, <2>3, <3>1 DEF LeakInv, NoLeak
    <2> QED
      BY <2>2, <2>3
  <1>4. CASE InitPool \/ CloseAll \/ ForgetPool \/ DropIdle \/ UNCHANGED vars
    BY <1>1, <1>4 DEF InitPool, CloseAll, ForgetPool, DropIdle, vars
  <1>5. ASSUME NEW t \in Threads, DropUsed(t) PROVE LeakInv'
    BY <1>1, <1>5 DEF DropUsed
  <1> QED
    BY <1>2, <1>3, <1>4, <1>5 DEF Next

LEMMA InitKeeps == Init => LeakInv
  BY DEF Init, LeakInv, CallTyped, NoLeak

(* The pool counts exactly the connections in the hands of the threads that  *)
(* are inside get_pg_conn, however many there are and whatever raises.       *)
THEOREM NoLeakHolds == Spec => []NoLeak
  <1>1. LeakInv => NoLeak
    BY DEF LeakInv
  <1> QED
    BY <1>1, InitKeeps, NextKeeps, PTL DEF Spec

-----------------------------------------------------------------------------
(* What drops may still cost, in halves of an operation.  An idle connection *)
(* that is gone costs a half, and one nobody can tell another; a thread that *)
(* is replacing a stale one has lost a half, and one with a connection that  *)
(* is gone is about to lose two.                                             *)
IdleOff(s)    == {i \in DOMAIN s : s[i] # "open"}
IdleSilent(s) == {i \in DOMAIN s : s[i] = "dropped"}
Doomed(cl, cn) == {t \in Threads : cl[t] = "body" /\ cn[t] # "open"}
Misled(cl, cn) == {t \in Threads : cl[t] \in {"stale", "swap"}} \cup Doomed(cl, cn)

Owed(s, cl, cn) ==
  Cardinality(IdleOff(s)) + Cardinality(IdleSilent(s)) +
  Cardinality(Misled(cl, cn)) + Cardinality(Doomed(cl, cn))

CostInv ==
  /\ idle \in Seq(Conn) /\ Len(idle) <= MinConn
  /\ conn \in [Threads -> Conn]
  /\ noticed \in Nat /\ unnoticed \in Nat /\ broken \in Nat
  /\ noticed + unnoticed <= MaxDrops
  /\ pool = "unset" => idle = <<>> /\ broken = 0
  /\ pool = "open" => /\ Len(idle) + used <= MaxConn
                      /\ 2 * broken + Owed(idle, call, conn) <= 2 * unnoticed + noticed
  /\ used \in 0..MaxConn
  /\ StaleCost

LEMMA CountsNatural ==
  ASSUME NEW s \in Seq(Conn), NEW cl, NEW cn
  PROVE  /\ IsFiniteSet(IdleOff(s)) /\ Cardinality(IdleOff(s)) \in Nat
         /\ IsFiniteSet(IdleSilent(s)) /\ Cardinality(IdleSilent(s)) \in Nat
         /\ IsFiniteSet(Misled(cl, cn)) /\ Cardinality(Misled(cl, cn)) \in Nat
         /\ IsFiniteSet(Doomed(cl, cn)) /\ Cardinality(Doomed(cl, cn)) \in Nat
         /\ Owed(s, cl, cn) \in Nat
  <1>1. IsFiniteSet(DOMAIN s)
    <2>1. DOMAIN s = 1..Len(s) /\ Len(s) \in Int
      OBVIOUS
    <2> QED
      BY <2>1, FS_Interval
  <1>2. IdleOff(s) \subseteq DOMAIN s /\ IdleSilent(s) \subseteq DOMAIN s
    BY DEF IdleOff, IdleSilent
  <1>3. Misled(cl, cn) \subseteq Threads /\ Doomed(cl, cn) \subseteq Threads
    BY DEF Misled, Doomed
  <1>4. IsFiniteSet(Threads)
    BY PoolAssumption
  <1>5. IsFiniteSet(IdleOff(s)) /\ IsFiniteSet(IdleSilent(s))
    BY <1>1, <1>2, FS_Subset
  <1>6. IsFiniteSet(Misled(cl, cn)) /\ IsFiniteSet(Doomed(cl, cn))
    BY <1>3, <1>4, FS_Subset
  <1>7. /\ Cardinality(IdleOff(s)) \in Nat /\ Cardinality(IdleSilent(s)) \in Nat
        /\ Cardinality(Misled(cl, cn)) \in Nat /\ Cardinality(Doomed(cl, cn)) \in Nat
    BY <1>5, <1>6, FS_CardinalityType
  <1> QED
    BY <1>5, <1>6, <1>7 DEF Owed

LEMMA CountMoves ==
  ASSUME NEW S, IsFiniteSet(S), NEW x
  PROVE  /\ x \in S => Cardinality(S \cup {x}) = Cardinality(S)
         /\ x \notin S => Cardinality(S \cup {x}) = Cardinality(S) + 1
         /\ x \in S => Cardinality(S \ {x}) = Cardinality(S) - 1
         /\ x \notin S => Cardinality(S \ {x}) = Cardinality(S)
  BY FS_AddElement, FS_RemoveElement

(* The list when its last connection goes out, and when one comes back.      *)
LEMMA FrontOff ==
  ASSUME NEW s \in Seq(Conn), s # <<>>
  PROVE  /\ Front(s) \in Seq(Conn) /\ Len(Front(s)) = Len(s) - 1 /\ Last(s) \in Conn
         /\ IdleOff(Front(s)) = IdleOff(s) \ {Len(s)}
         /\ IdleSilent(Front(s)) = IdleSilent(s) \ {Len(s)}
         /\ Len(s) \in IdleOff(s) <=> Last(s) # "open"
         /\ Len(s) \in IdleSilent(s) <=> Last(s) = "dropped"
  <1>1. Len(s) \in Nat /\ Len(s) # 0 /\ DOMAIN s = 1..Len(s)
    OBVIOUS
  <1>2. Last(s) \in Conn
    BY <1>1 DEF Last
  <1>3. /\ Front(s) = [i \in 1..(Len(s) - 1) |-> s[i]] /\ Len(s) - 1 \in Nat
    BY <1>1 DEF Front
  <1>4. Front(s) \in Seq(Conn) /\ Len(Front(s)) = Len(s) - 1
    BY <1>1, <1>3
  <1>5. DOMAIN Front(s) = DOMAIN s \ {Len(s)} /\ \A i \in DOMAIN Front(s) : Front(s)[i] = s[i]
    BY <1>1, <1>3
  <1>6. Len(s) \in DOMAIN s
    BY <1>1
  <1> QED
    BY <1>2, <1>4, <1>5, <1>6 DEF IdleOff, IdleSilent, Last

LEMMA AppendOff ==
  ASSUME NEW s \in Seq(Conn)
  PROVE  /\ Append(s, "open") \in Seq(Conn) /\ Len(Append(s, "open")) = Len(s) + 1
         /\ IdleOff(Append(s, "open")) = IdleOff(s)
         /\ IdleSilent(Append(s, "open")) = IdleSilent(s)
  <1> DEFINE a == Append(s, "open")
  <1>1. a \in Seq(Conn) /\ Len(a) = Len(s) + 1 /\ Len(s) \in Nat
    BY DEF Conn
  <1>2. DOMAIN a = DOMAIN s \cup {Len(s) + 1} /\ a[Len(s) + 1] = "open"
    BY <1>1
  <1>3. \A i \in DOMAIN s : a[i] = s[i]
    OBVIOUS
  <1> HIDE DEF a
  <1>4. IdleOff(a) = IdleOff(s) /\ IdleSilent(a) = IdleSilent(s)
    BY <1>2, <1>3 DEF IdleOff, IdleSilent
  <1> QED
    BY <1>1, <1>4 DEF a

(* The two sets of threads when thread t moves.                              *)
LEMMA ThreadMoves ==
  ASSUME CallTyped, conn \in [Threads -> Conn], NEW t \in Threads,
         NEW v, NEW c, call' = [call EXCEPT ![t] = v], conn' = [conn EXCEPT ![t] = c]
  PROVE  /\ v = "body" /\ c # "open" =>
               /\ Doomed(call', conn') = Doomed(call, conn) \cup {t}
               /\ Misled(call', conn') = Misled(call, conn) \cup {t}
         /\ (v = "body" /\ c = "open") \/ v = "idle" =>
               /\ Doomed(call', conn') = Doomed(call, conn) \ {t}
               /\ Misled(call', conn') = Misled(call, conn) \ {t}
         /\ v \in {"stale", "swap"} =>
               /\ Doomed(call', conn') = Doomed(call, conn) \ {t}
               /\ Misled(call', conn') = Misled(call, conn) \cup {t}
  BY DEF CallTyped, Doomed, Misled

LEMMA OwedLess ==
  ASSUME idle \in Seq(Conn), idle' = idle, broken \in Nat, broken' = broken,
         Cardinality(Doomed(call', conn')) <= Cardinality(Doomed(call, conn)),
         Cardinality(Misled(call', conn')) <= Cardinality(Misled(call, conn))
  PROVE  2 * broken' + Owed(idle', call', conn') <= 2 * broken + Owed(idle, call, conn)
  <1> DEFINE d == Cardinality(Doomed(call, conn))
             e == Cardinality(Doomed(call', conn'))
             m == Cardinality(Misled(call, conn))
             k == Cardinality(Misled(call', conn'))
             o == Cardinality(IdleOff(idle))
             s == Cardinality(IdleSilent(idle))
  <1>1. d \in Nat /\ e \in Nat /\ m \in Nat /\ k \in Nat /\ o \in Nat /\ s \in Nat
    BY CountsNatural
  <1>2. /\ Owed(idle, call, conn) = o + s + m + d
        /\ Owed(idle', call', conn') = o + s + k + e
    BY DEF Owed
  <1>3. e <= d /\ k <= m
    OBVIOUS
  <1> HIDE DEF d, e, m, k, o, s
  <1> QED
    BY <1>1, <1>2, <1>3

LEMMA CostSums ==
  ASSUME NEW b \in Nat, NEW o \in Nat, NEW c \in Nat, NEW q \in Nat,
         NEW u \in Nat, NEW n \in Nat,
         2 * c + q <= 2 * b + o, 2 * b + o <= 2 * u + n
  PROVE  2 * c + q <= 2 * u + n /\ 2 * c <= 2 * u + n
  OBVIOUS

(* A step after which drops owe no more, and have cost no more in all.       *)
LEMMA CostKept ==
  ASSUME CostInv, pool = "open", pool' = "open", UNCHANGED drops, broken' \in Nat,
         idle' \in Seq(Conn), Len(idle') <= MinConn, conn' \in [Threads -> Conn],
         used' \in Nat, Len(idle') + used' <= MaxConn,
         2 * broken' + Owed(idle', call', conn') <= 2 * broken + Owed(idle, call, conn)
  PROVE  CostInv'
  <1>1. noticed' = noticed /\ unnoticed' = unnoticed
    BY DEF drops
  <1>2. /\ noticed \in Nat /\ unnoticed \in Nat /\ noticed + unnoticed <= MaxDrops
        /\ broken \in Nat
        /\ 2 * broken + Owed(idle, call, conn) <= 2 * unnoticed + noticed
    BY DEF CostInv
  <1>3. Owed(idle, call, conn) \in Nat /\ Owed(idle', call', conn') \in Nat
    BY CountsNatural DEF CostInv
  <1>4. /\ 2 * broken' + Owed(idle', call', conn') <= 2 * unnoticed' + noticed'
        /\ 2 * broken' <= 2 * unnoticed' + noticed'
    <2> DEFINE o == Owed(idle, call, conn)
               q == Owed(idle', call', conn')
    <2>1. 2 * broken' + q <= 2 * broken + o /\ 2 * broken + o <= 2 * unnoticed + noticed
      BY <1>2
    <2>2. o \in Nat /\ q \in Nat /\ broken' \in Nat
      BY <1>3
    <2> HIDE DEF o, q
    <2>3. 2 * broken' + q <= 2 * unnoticed + noticed /\ 2 * broken' <= 2 * unnoticed + noticed
      BY <1>2, <2>1, <2>2, CostSums
    <2> QED
      BY <1>1, <2>3 DEF q
  <1>5. used' \in 0..MaxConn
    <2>1. Len(idle') \in Nat /\ MaxConn \in Nat
      BY PoolAssumption
    <2> QED
      BY <2>1
  <1> QED
    BY <1>1, <1>2, <1>4, <1>5 DEF CostInv, StaleCost

LEMMA GetIdleCosts ==
  ASSUME LeakInv, CostInv, NEW t \in Threads, call[t] \in {"idle", "swap"}, GetIdle(t),
         UNCHANGED <<pool, drops, broken>>
  PROVE  CostInv'
  <1> DEFINE c == Last(idle)
  <1> DEFINE v == AfterGetconn(t, c)
  <1>1. /\ pool = "open" /\ idle \in Seq(Conn) /\ idle # <<>> /\ idle' = Front(idle)
        /\ used' = used + 1
        /\ call' = [call EXCEPT ![t] = v] /\ conn' = [conn EXCEPT ![t] = c]
    BY DEF GetIdle, CostInv
  <1>2. /\ idle' \in Seq(Conn) /\ Len(idle') = Len(idle) - 1 /\ Len(idle) \in Nat /\ c \in Conn
        /\ IdleOff(idle') = IdleOff(idle) \ {Len(idle)}
        /\ IdleSilent(idle') = IdleSilent(idle) \ {Len(idle)}
        /\ Len(idle) \in IdleOff(idle) <=> c # "open"
        /\ Len(idle) \in IdleSilent(idle) <=> c = "dropped"
    BY <1>1, FrontOff
  <1>3. /\ v = IF call[t] = "idle" /\ c = "closed" THEN "stale" ELSE "body"
        /\ t \notin Doomed(call, conn)
        /\ t \in Misled(call, conn) <=> call[t] = "swap"
    BY DEF AfterGetconn, Doomed, Misled
  <1> HIDE DEF c, v
  <1> DEFINE off == IdleOff(idle)
             silent == IdleSilent(idle)
             misled == Misled(call, conn)
             doomed == Doomed(call, conn)
  <1>4. /\ IsFiniteSet(off) /\ Cardinality(off) \in Nat
        /\ IsFiniteSet(silent) /\ Cardinality(silent) \in Nat
        /\ IsFiniteSet(misled) /\ Cardinality(misled) \in Nat
        /\ IsFiniteSet(doomed) /\ Cardinality(doomed) \in Nat
    BY <1>1, CountsNatural
  <1>5. /\ c # "open" => Cardinality(IdleOff(idle')) = Cardinality(off) - 1
        /\ c = "open" => Cardinality(IdleOff(idle')) = Cardinality(off)
    <2>1. /\ Len(idle) \in off => Cardinality(off \ {Len(idle)}) = Cardinality(off) - 1
          /\ Len(idle) \notin off => Cardinality(off \ {Len(idle)}) = Cardinality(off)
      BY <1>4, CountMoves
    <2> QED
      BY <1>2, <2>1
  <1>6. /\ c = "dropped" => Cardinality(IdleSilent(idle')) = Cardinality(silent) - 1
        /\ c # "dropped" => Cardinality(IdleSilent(idle')) = Cardinality(silent)
    <2>1. /\ Len(idle) \in silent => Cardinality(silent \ {Len(idle)}) = Cardinality(silent) - 1
          /\ Len(idle) \notin silent => Cardinality(silent \ {Len(idle)}) = Cardinality(silent)
      BY <1>4, CountMoves
    <2> QED
      BY <1>2, <2>1
  <1>7. Owed(idle', call', conn') <= Owed(idle, call, conn)
    <2>1. CASE c = "open"
      <3>1. Doomed(call', conn') = doomed \ {t} /\ Misled(call', conn') = misled \ {t}
        BY <1>1, <1>3, <2>1, ThreadMoves DEF LeakInv, CostInv
      <3>2. Cardinality(Doomed(call', conn')) = Cardinality(doomed)
        BY <1>3, <1>4, <3>1, CountMoves
      <3>3. \/ Cardinality(Misled(call', conn')) = Cardinality(misled)
            \/ Cardinality(Misled(call', conn')) = Cardinality(misled) - 1
        <4>1. /\ t \in misled => Cardinality(misled \ {t}) = Cardinality(misled) - 1
              /\ t \notin misled => Cardinality(misled \ {t}) = Cardinality(misled)
          BY <1>4, CountMoves
        <4> QED
          BY <3>1, <4>1
      <3> QED
        BY <1>4, <1>5, <1>6, <2>1, <3>2, <3>3 DEF Owed
    <2>2. CASE c = "closed" /\ call[t] = "idle"
      <3>1. Doomed(call', conn') = doomed \ {t} /\ Misled(call', conn') = misled \cup {t}
        BY <1>1, <1>3, <2>2, ThreadMoves DEF LeakInv, CostInv
      <3>2. Cardinality(Doomed(call', conn')) = Cardinality(doomed)
        BY <1>3, <1>4, <3>1, CountMoves
      <3>3. Cardinality(Misled(call', conn')) = Cardinality(misled) + 1
        BY <1>3, <1>4, <2>2, <3>1, CountMoves
      <3> QED
        BY <1>4, <1>5, <1>6, <2>2, <3>2, <3>3 DEF Owed
    <2>3. CASE c # "open" /\ v = "body"
      <3>1. Doomed(call', conn') = doomed \cup {t} /\ Misled(call', conn') = misled \cup {t}
        BY <1>1, <2>3, ThreadMoves DEF LeakInv, CostInv
      <3>2. Cardinality(Doomed(call', conn')) = Cardinality(doomed) + 1
        BY <1>3, <1>4, <3>1, CountMoves
      <3>3. /\ call[t] = "swap" => Cardinality(Misled(call', conn')) = Cardinality(misled)
            /\ call[t] # "swap" => Cardinality(Misled(call', conn')) = Cardinality(misled) + 1
        <4>1. /\ t \in misled => Cardinality(misled \cup {t}) = Cardinality(misled)
              /\ t \notin misled => Cardinality(misled \cup {t}) = Cardinality(misled) + 1
          BY <1>4, CountMoves
        <4> QED
          BY <1>3, <3>1, <4>1
      <3>4. c = "dropped" \/ (c = "closed" /\ call[t] = "swap")
        BY <1>2, <1>3, <2>3 DEF Conn
      <3> QED
        BY <1>4, <1>5, <1>6, <2>3, <3>2, <3>3, <3>4 DEF Owed
    <2> QED
      BY <1>2, <1>3, <2>1, <2>2, <2>3 DEF Conn
  <1>8. conn' \in [Threads -> Conn]
    BY <1>1, <1>2 DEF CostInv
  <1>9. used' \in Nat /\ Len(idle') + used' <= MaxConn /\ Len(idle') <= MinConn
    <2>1. /\ used \in Nat /\ MaxConn \in Nat /\ MinConn \in Nat
          /\ Len(idle) + used <= MaxConn /\ Len(idle) <= MinConn
      BY <1>1, PoolAssumption DEF CostInv
    <2> QED
      BY <1>1, <1>2, <2>1
  <1>10. 2 * broken' + Owed(idle', call', conn') <= 2 * broken + Owed(idle, call, conn)
    <2>1. broken' = broken /\ broken \in Nat
      BY DEF CostInv
    <2>2. Owed(idle, call, conn) \in Nat /\ Owed(idle', call', conn') \in Nat
      BY <1>1, <1>2, CountsNatural
    <2> QED
      BY <1>7, <2>1, <2>2
  <1> QED
    BY <1>1, <1>2, <1>8, <1>9, <1>10, CostKept DEF CostInv

(* A thread ends with an open connection, or with none: it leaves both sets. *)
LEMMA LeavesSets ==
  ASSUME CallTyped, conn \in [Threads -> Conn], idle \in Seq(Conn), NEW t \in Threads,
         NEW v, NEW c, call' = [call EXCEPT ![t] = v], conn' = [conn EXCEPT ![t] = c],
         (v = "body" /\ c = "open") \/ v = "idle"
  PROVE  /\ Cardinality(Doomed(call', conn')) <= Cardinality(Doomed(call, conn))
         /\ Cardinality(Misled(call', conn')) <= Cardinality(Misled(call, conn))
         /\ t \in Doomed(call, conn) =>
              /\ Cardinality(Doomed(call', conn')) = Cardinality(Doomed(call, conn)) - 1
              /\ Cardinality(Misled(call', conn')) = Cardinality(Misled(call, conn)) - 1
  <1> DEFINE misled == Misled(call, conn)
             doomed == Doomed(call, conn)
  <1>1. Doomed(call', conn') = doomed \ {t} /\ Misled(call', conn') = misled \ {t}
    BY ThreadMoves
  <1>2. /\ IsFiniteSet(misled) /\ Cardinality(misled) \in Nat
        /\ IsFiniteSet(doomed) /\ Cardinality(doomed) \in Nat
        /\ doomed \subseteq misled
    BY CountsNatural DEF Misled
  <1>3. /\ t \in misled => Cardinality(misled \ {t}) = Cardinality(misled) - 1
        /\ t \notin misled => Cardinality(misled \ {t}) = Cardinality(misled)
    BY <1>2, CountMoves
  <1>4. /\ t \in doomed => Cardinality(doomed \ {t}) = Cardinality(doomed) - 1
        /\ t \notin doomed => Cardinality(doomed \ {t}) = Cardinality(doomed)
    BY <1>2, CountMoves
  <1> HIDE DEF misled, doomed
  <1>5. /\ Cardinality(doomed \ {t}) <= Cardinality(doomed)
        /\ Cardinality(misled \ {t}) <= Cardinality(misled)
        /\ t \in doomed => /\ Cardinality(doomed \ {t}) = Cardinality(doomed) - 1
                           /\ Cardinality(misled \ {t}) = Cardinality(misled) - 1
    BY <1>2, <1>3, <1>4
  <1> QED
    BY <1>1, <1>5 DEF misled, doomed

LEMMA GetNewCosts ==
  ASSUME LeakInv, CostInv, NEW t \in Threads, GetNew(t), UNCHANGED <<pool, drops, broken>>
  PROVE  CostInv'
  <1>1. /\ pool = "open" /\ idle = <<>> /\ idle' = idle /\ idle \in Seq(Conn)
        /\ used' = used + 1 /\ used < MaxConn
        /\ call' = [call EXCEPT ![t] = "body"] /\ conn' = [conn EXCEPT ![t] = "open"]
    BY DEF GetNew, CostInv
  <1>2. /\ Cardinality(Doomed(call', conn')) <= Cardinality(Doomed(call, conn))
        /\ Cardinality(Misled(call', conn')) <= Cardinality(Misled(call, conn))
    BY <1>1, LeavesSets DEF LeakInv, CostInv
  <1>3. 2 * broken' + Owed(idle', call', conn') <= 2 * broken + Owed(idle, call, conn)
    BY <1>1, <1>2, OwedLess DEF CostInv
  <1>4. used' \in Nat /\ Len(idle') + used' <= MaxConn /\ Len(idle') <= MinConn
    BY <1>1, PoolAssumption DEF CostInv
  <1>5. conn' \in [Threads -> Conn]
    BY <1>1 DEF CostInv, Conn
  <1> QED
    BY <1>1, <1>3, <1>4, <1>5, CostKept DEF CostInv

LEMMA RaisesCosts ==
  ASSUME LeakInv, CostInv, NEW t \in Threads, GetconnRaises(t), UNCHANGED <<pool, drops, broken>>
  PROVE  CostInv'
  <1>1. /\ idle' = idle /\ used' = used /\ conn' = conn
        /\ call' = [call EXCEPT ![t] = "idle"]
    BY DEF GetconnRaises
  <1>2. CASE pool = "open"
    <2>1. conn' = [conn EXCEPT ![t] = conn[t]]
      BY <1>1 DEF CostInv
    <2>2. /\ Cardinality(Doomed(call', conn')) <= Cardinality(Doomed(call, conn))
          /\ Cardinality(Misled(call', conn')) <= Cardinality(Misled(call, conn))
      BY <1>1, <2>1, LeavesSets DEF LeakInv, CostInv
    <2>3. 2 * broken' + Owed(idle', call', conn') <= 2 * broken + Owed(idle, call, conn)
      BY <1>1, <2>2, OwedLess DEF CostInv
    <2> QED
      BY <1>1, <1>2, <2>3, CostKept DEF CostInv
  <1>3. CASE pool # "open"
    BY <1>1, <1>3 DEF CostInv, StaleCost, drops
  <1> QED
    BY <1>2, <1>3

LEMMA DiscardCosts ==
  ASSUME LeakInv, CostInv, NEW t \in Threads, DiscardStale(t)
  PROVE  CostInv'
  <1>1. /\ call[t] = "stale" /\ UNCHANGED <<pool, drops, broken>> /\ idle' = idle
        /\ conn' = [conn EXCEPT ![t] = "closed"]
    BY DEF DiscardStale, Putconn
  <1>2. CASE pool = "open"
    <2>1. used' = used - 1 /\ call' = [call EXCEPT ![t] = "swap"] /\ used \in Int /\ used > 0
      <3>1. Cardinality(Holders) # 0
        BY <1>1, HoldersFinite, HoldingValues, FS_EmptySet DEF Holders
      <3> QED
        BY <1>2, <3>1, HoldersFinite DEF DiscardStale, Putconn, LeakInv, NoLeak
    <2>2. /\ Doomed(call', conn') = Doomed(call, conn)
          /\ Misled(call', conn') = Misled(call, conn)
      BY <1>1, <2>1 DEF LeakInv, CallTyped, CostInv, Doomed, Misled
    <2>3. 2 * broken' + Owed(idle', call', conn') <= 2 * broken + Owed(idle, call, conn)
      BY <1>1, <2>2, OwedLess, CountsNatural DEF CostInv
    <2>4. used' \in Nat /\ Len(idle') + used' <= MaxConn /\ Len(idle') <= MinConn
      BY <1>1, <1>2, <2>1, PoolAssumption DEF CostInv
    <2>5. conn' \in [Threads -> Conn]
      BY <1>1 DEF CostInv, Conn
    <2> QED
      BY <1>1, <1>2, <2>3, <2>4, <2>5, CostKept DEF CostInv
  <1>3. CASE pool # "open"
    <2>1. used' = used /\ conn' \in [Threads -> Conn]
      BY <1>1, <1>3 DEF DiscardStale, Putconn, CostInv, Conn
    <2> QED
      BY <1>1, <1>3, <2>1 DEF CostInv, StaleCost, drops
  <1> QED
    BY <1>2, <1>3

LEMMA LeavesCosts ==
  ASSUME LeakInv, CostInv, NEW t \in Threads, Leaves(t)
  PROVE  CostInv'
  <1>1. /\ call[t] = "body" /\ UNCHANGED <<pool, drops>>
        /\ call' = [call EXCEPT ![t] = "idle"] /\ conn' = [conn EXCEPT ![t] = "closed"]
    BY DEF Leaves
  <1>2. conn' \in [Threads -> Conn]
    BY <1>1 DEF CostInv, Conn
  <1>3. CASE pool = "open"
    <2>1. used' = used - 1 /\ used \in Int /\ used > 0
      <3>1. Cardinality(Holders) # 0
        BY <1>1, HoldersFinite, HoldingValues, FS_EmptySet DEF Holders
      <3> QED
        BY <1>3, <3>1, HoldersFinite DEF Leaves, Putconn, LeakInv, NoLeak
    <2>2. \/ idle' = idle
          \/ idle' = Append(idle, "open") /\ Len(idle) < MinConn
      BY <1>3 DEF Leaves, Putconn
    <2>3. /\ idle \in Seq(Conn) /\ idle' \in Seq(Conn) /\ Len(idle) \in Nat
          /\ Len(idle') \in {Len(idle), Len(idle) + 1} /\ Len(idle') <= MinConn
          /\ IdleOff(idle') = IdleOff(idle) /\ IdleSilent(idle') = IdleSilent(idle)
      <3>1. idle \in Seq(Conn) /\ Len(idle) \in Nat /\ Len(idle) <= MinConn
        BY DEF CostInv
      <3>2. CASE idle' = idle
        BY <3>1, <3>2
      <3>3. CASE idle' = Append(idle, "open") /\ Len(idle) < MinConn
        <4>1. /\ Append(idle, "open") \in Seq(Conn) /\ Len(Append(idle, "open")) = Len(idle) + 1
              /\ IdleOff(Append(idle, "open")) = IdleOff(idle)
              /\ IdleSilent(Append(idle, "open")) = IdleSilent(idle)
          BY <3>1, AppendOff
        <4>2. Len(idle) + 1 <= MinConn
          BY <3>1, <3>3, PoolAssumption
        <4> QED
          BY <3>1, <3>3, <4>1, <4>2
      <3> QED
        BY <2>2, <3>2, <3>3
    <2>4. used' \in Nat /\ Len(idle') + used' <= MaxConn
      BY <1>3, <2>1, <2>3, PoolAssumption DEF CostInv
    <2> DEFINE d == Cardinality(Doomed(call, conn))
               e == Cardinality(Doomed(call', conn'))
               m == Cardinality(Misled(call, conn))
               k == Cardinality(Misled(call', conn'))
               o == Cardinality(IdleOff(idle))
               s == Cardinality(IdleSilent(idle))
    <2>5. d \in Nat /\ e \in Nat /\ m \in Nat /\ k \in Nat /\ o \in Nat /\ s \in Nat
      BY <2>3, CountsNatural
    <2>6. /\ Owed(idle, call, conn) = o + s + m + d
          /\ Owed(idle', call', conn') = o + s + k + e
      BY <2>3 DEF Owed
    <2>7. /\ e <= d /\ k <= m
          /\ t \in Doomed(call, conn) => e = d - 1 /\ k = m - 1
      BY <1>1, <2>3, LeavesSets DEF LeakInv, CostInv
    <2>8. \/ conn[t] = "open" /\ broken' = broken
          \/ t \in Doomed(call, conn) /\ broken' = broken + 1
      BY <1>1, <1>3 DEF Leaves, Doomed
    <2>9. broken \in Nat /\ broken' \in Nat
      BY <2>8 DEF CostInv
    <2> HIDE DEF d, e, m, k, o, s
    <2>10. 2 * broken' + Owed(idle', call', conn') <= 2 * broken + Owed(idle, call, conn)
      <3>1. CASE conn[t] = "open" /\ broken' = broken
        <4>1. o + s + k + e <= o + s + m + d
          BY <2>5, <2>7
        <4> QED
          BY <2>5, <2>6, <2>9, <3>1, <4>1
      <3>2. CASE t \in Doomed(call, conn) /\ broken' = broken + 1
        <4>1. 2 * (broken + 1) + (o + s + k + e) <= 2 * broken + (o + s + m + d)
          BY <2>5, <2>7, <2>9, <3>2
        <4> QED
          BY <2>6, <3>2, <4>1
      <3> QED
        BY <2>8, <3>1, <3>2
    <2> QED
      BY <1>1, <1>2, <1>3, <2>3, <2>4, <2>9, <2>10, CostKept
  <1>4. CASE pool # "open"
    <2>1. used' = used /\ idle' = idle /\ broken' = broken
      BY <1>4 DEF Leaves, Putconn
    <2> QED
      BY <1>1, <1>2, <1>4, <2>1 DEF CostInv, StaleCost, drops
  <1> QED
    BY <1>3, <1>4

LEMMA DropIdleCosts == LeakInv /\ CostInv /\ DropIdle => CostInv'
  <1> SUFFICES ASSUME LeakInv, CostInv, DropIdle PROVE CostInv'
    OBVIOUS
  <1>1. PICK i \in DOMAIN idle, c \in {"dropped", "closed"} :
          /\ idle[i] = "open" /\ idle' = [idle EXCEPT ![i] = c]
          /\ c = "closed" => noticed' = noticed + 1 /\ unnoticed' = unnoticed
          /\ c = "dropped" => unnoticed' = unnoticed + 1 /\ noticed' = noticed
    BY DEF DropIdle
  <1>2. /\ pool = "open" /\ UNCHANGED <<pool, used, call, conn, broken>>
        /\ noticed + unnoticed < MaxDrops
        /\ idle \in Seq(Conn) /\ noticed \in Nat /\ unnoticed \in Nat /\ broken \in Nat
        /\ 2 * broken + Owed(idle, call, conn) <= 2 * unnoticed + noticed
    BY DEF DropIdle, CostInv
  <1>3. /\ idle' \in Seq(Conn) /\ Len(idle') = Len(idle)
        /\ IdleOff(idle') = IdleOff(idle) \cup {i} /\ i \notin IdleOff(idle)
        /\ IdleSilent(idle') = IF c = "dropped" THEN IdleSilent(idle) \cup {i}
                                                ELSE IdleSilent(idle)
        /\ i \notin IdleSilent(idle)
    BY <1>1, <1>2 DEF IdleOff, IdleSilent, Conn
  <1> DEFINE d == Cardinality(Doomed(call, conn))
             m == Cardinality(Misled(call, conn))
             o == Cardinality(IdleOff(idle))
             p == Cardinality(IdleOff(idle'))
             s == Cardinality(IdleSilent(idle))
             q == Cardinality(IdleSilent(idle'))
  <1>4. /\ d \in Nat /\ m \in Nat /\ o \in Nat /\ s \in Nat
        /\ IsFiniteSet(IdleOff(idle)) /\ IsFiniteSet(IdleSilent(idle))
    BY <1>2, CountsNatural
  <1>5. p = o + 1
    BY <1>3, <1>4, CountMoves
  <1>6. c = "dropped" => q = s + 1
    BY <1>3, <1>4, CountMoves
  <1>7. c = "closed" => q = s
    BY <1>3
  <1>8. /\ Owed(idle, call, conn) = o + s + m + d
        /\ Owed(idle', call', conn') = p + q + m + d
    BY <1>2 DEF Owed
  <1> HIDE DEF d, m, o, p, s, q
  <1>9. /\ 2 * broken' + Owed(idle', call', conn') <= 2 * unnoticed' + noticed'
        /\ Owed(idle', call', conn') \in Nat
    <2>1. CASE c = "closed"
      <3>1. 2 * broken + (p + q + m + d) <= 2 * unnoticed + (noticed + 1)
        BY <1>2, <1>4, <1>5, <1>7, <1>8, <2>1
      <3>2. p + q + m + d \in Nat
        BY <1>4, <1>5, <1>7, <2>1
      <3>3. broken' = broken /\ unnoticed' = unnoticed /\ noticed' = noticed + 1
        BY <1>1, <1>2, <2>1
      <3> QED
        BY <1>8, <3>1, <3>2, <3>3
    <2>2. CASE c = "dropped"
      <3>1. 2 * broken + (p + q + m + d) <= 2 * (unnoticed + 1) + noticed
        BY <1>2, <1>4, <1>5, <1>6, <1>8, <2>2
      <3>2. p + q + m + d \in Nat
        BY <1>4, <1>5, <1>6, <2>2
      <3>3. broken' = broken /\ unnoticed' = unnoticed + 1 /\ noticed' = noticed
        BY <1>1, <1>2, <2>2
      <3> QED
        BY <1>8, <3>1, <3>2, <3>3
    <2> QED
      BY <2>1, <2>2
  <1>10. /\ noticed' \in Nat /\ unnoticed' \in Nat /\ noticed' + unnoticed' <= MaxDrops
    BY <1>1, <1>2, PoolAssumption
  <1>11. 2 * broken' <= 2 * unnoticed' + noticed'
    <2>1. broken' \in Nat
      BY <1>2
    <2> DEFINE owed == Owed(idle', call', conn')
               b == broken'
               n == noticed'
               u == unnoticed'
    <2>2. owed \in Nat /\ b \in Nat /\ n \in Nat /\ u \in Nat /\ 2 * b + owed <= 2 * u + n
      BY <1>9, <1>10, <2>1
    <2> HIDE DEF owed, b, n, u
    <2>3. 2 * b <= 2 * u + n
      BY <2>2
    <2> QED
      BY <2>3 DEF b, n, u
  <1> QED
    BY <1>2, <1>3, <1>9, <1>10, <1>11 DEF CostInv, StaleCost

LEMMA DropUsedCosts ==
  ASSUME LeakInv, CostInv, NEW t \in Threads, DropUsed(t)
  PROVE  CostInv'
  <1>1. /\ call[t] = "body" /\ conn[t] = "open" /\ conn' = [conn EXCEPT ![t] = "dropped"]
        /\ unnoticed' = unnoticed + 1 /\ UNCHANGED <<pool, idle, used, call, noticed, broken>>
        /\ pool = "open" /\ noticed + unnoticed < MaxDrops
        /\ idle \in Seq(Conn) /\ noticed \in Nat /\ unnoticed \in Nat /\ broken \in Nat
        /\ conn \in [Threads -> Conn]
        /\ 2 * broken + Owed(idle, call, conn) <= 2 * unnoticed + noticed
    BY DEF DropUsed, CostInv
  <1>2. /\ Doomed(call', conn') = Doomed(call, conn) \cup {t}
        /\ Misled(call', conn') = Misled(call, conn) \cup {t}
        /\ t \notin Doomed(call, conn)
    BY <1>1 DEF Doomed, Misled
  <1>3. t \notin Misled(call, conn)
    BY <1>1 DEF Doomed, Misled
  <1> DEFINE d == Cardinality(Doomed(call, conn))
             e == Cardinality(Doomed(call', conn'))
             m == Cardinality(Misled(call, conn))
             k == Cardinality(Misled(call', conn'))
             o == Cardinality(IdleOff(idle))
             s == Cardinality(IdleSilent(idle))
  <1>4. /\ d \in Nat /\ m \in Nat /\ o \in Nat /\ s \in Nat
        /\ IsFiniteSet(Doomed(call, conn)) /\ IsFiniteSet(Misled(call, conn))
    BY <1>1, CountsNatural
  <1>5. e = d + 1
    BY <1>2, <1>4, CountMoves
  <1>6. k = m + 1
    BY <1>2, <1>3, <1>4, CountMoves
  <1>7. /\ Owed(idle, call, conn) = o + s + m + d
        /\ Owed(idle', call', conn') = o + s + k + e
    BY <1>1 DEF Owed
  <1> HIDE DEF d, e, m, k, o, s
  <1>8. /\ 2 * broken' + Owed(idle', call', conn') <= 2 * unnoticed' + noticed'
        /\ Owed(idle', call', conn') \in Nat
    BY <1>1, <1>4, <1>5, <1>6, <1>7
  <1>9. /\ unnoticed' \in Nat /\ noticed' + unnoticed' <= MaxDrops
        /\ 2 * broken' <= 2 * unnoticed' + noticed'
    BY <1>1, <1>8, PoolAssumption
  <1>10. conn' \in [Threads -> Conn]
    BY <1>1 DEF Conn
  <1> QED
    BY <1>1, <1>8, <1>9, <1>10 DEF CostInv, StaleCost

LEMMA InitPoolCosts == LeakInv /\ CostInv /\ InitPool => CostInv'
  <1> SUFFICES ASSUME LeakInv, CostInv, InitPool PROVE CostInv'
    OBVIOUS
  <1>1. /\ pool = "unset" /\ pool' = "open" /\ idle' = [i \in 1..MinConn |-> "open"]
        /\ UNCHANGED <<used, call, conn, drops, broken>>
        /\ used = 0 /\ broken = 0 /\ \A t \in Threads : call[t] = "idle"
    BY DEF InitPool, LeakInv, CostInv
  <1>2. idle' \in Seq(Conn) /\ Len(idle') = MinConn
    BY <1>1, PoolAssumption DEF Conn
  <1>3. /\ IdleOff(idle') = {} /\ IdleSilent(idle') = {}
        /\ Misled(call', conn') = {} /\ Doomed(call', conn') = {}
    BY <1>1, PoolAssumption DEF IdleOff, IdleSilent, Misled, Doomed
  <1>4. Owed(idle', call', conn') = 0
    BY <1>3, FS_EmptySet DEF Owed
  <1> QED
    BY <1>1, <1>2, <1>4, PoolAssumption DEF CostInv, StaleCost, drops

LEMMA ShutdownCosts == LeakInv /\ CostInv /\ (CloseAll \/ ForgetPool) => CostInv'
  <1> SUFFICES ASSUME LeakInv, CostInv, CloseAll \/ ForgetPool PROVE CostInv'
    OBVIOUS
  <1>1. /\ pool' \in {"closed", "gone"} /\ UNCHANGED <<used, call, drops, broken>>
        /\ idle' = [i \in DOMAIN idle |-> "closed"] \/ idle' = idle
        /\ conn' = [t \in Threads |-> "closed"] \/ conn' = conn
    BY DEF CloseAll, ForgetPool
  <1>2. idle' \in Seq(Conn) /\ Len(idle') = Len(idle)
    <2>1. idle \in Seq(Conn)
      BY DEF CostInv
    <2> QED
      BY <1>1, <2>1 DEF Conn
  <1>3. conn' \in [Threads -> Conn]
    BY <1>1 DEF CostInv, Conn
  <1> QED
    BY <1>1, <1>2, <1>3 DEF CostInv, StaleCost, drops

LEMMA NextCosts == LeakInv /\ CostInv /\ [Next]_vars => CostInv'
  <1> SUFFICES ASSUME LeakInv, CostInv, [Next]_vars PROVE CostInv'
    OBVIOUS
  <1>1. ASSUME NEW t \in Threads, Getconn(t) PROVE CostInv'
    BY <1>1, GetIdleCosts, GetNewCosts, RaisesCosts DEF Getconn
  <1>2. ASSUME NEW t \in Threads, DiscardStale(t) PROVE CostInv'
    BY <1>2, DiscardCosts
  <1>3. ASSUME NEW t \in Threads, Leaves(t) PROVE CostInv'
    BY <1>3, LeavesCosts
  <1>4. ASSUME NEW t \in Threads, DropUsed(t) PROVE CostInv'
    BY <1>4, DropUsedCosts
  <1>5. CASE InitPool \/ DropIdle \/ CloseAll \/ ForgetPool
    BY <1>5, InitPoolCosts, DropIdleCosts, ShutdownCosts
  <1>6. CASE UNCHANGED vars
    <2>1. UNCHANGED <<pool, idle, used, call, conn, noticed, unnoticed, broken>>
      BY <1>6 DEF vars, drops
    <2> QED
      BY <2>1 DEF CostInv, StaleCost, Owed, Misled, Doomed
  <1> QED
    BY <1>1, <1>2, <1>3, <1>4, <1>5, <1>6 DEF Next

LEMMA InitCosts == Init => CostInv
  <1> SUFFICES ASSUME Init PROVE CostInv
    OBVIOUS
  <1>1. idle \in Seq(Conn) /\ Len(idle) = 0 /\ conn \in [Threads -> Conn]
    BY DEF Init, Conn
  <1> QED
    BY <1>1, PoolAssumption DEF Init, CostInv, StaleCost

(* Every variable of the pool keeps its type: never more than minconn idle   *)
(* connections, nor more than maxconn given out.                             *)
THEOREM PoolTypeCorrect == Spec => []TypeOK
  <1>1. LeakInv /\ CostInv => TypeOK
    <2> SUFFICES ASSUME LeakInv, CostInv PROVE TypeOK
      OBVIOUS
    <2>1. noticed \in 0..MaxDrops /\ unnoticed \in 0..MaxDrops /\ broken \in 0..MaxDrops
      BY PoolAssumption DEF CostInv, StaleCost
    <2> QED
      BY <2>1 DEF LeakInv, CallTyped, CostInv, TypeOK
  <1> QED
    BY <1>1, InitKeeps, InitCosts, NextKeeps, NextCosts, PTL DEF Spec

(* For any number of threads, any sizes of the pool and any number of drops, *)
(* a drop costs one operation at most, and two of those that conn.closed     *)
(* shows cost one.                                                           *)
THEOREM StaleCostHolds == Spec => []StaleCost
  <1>1. CostInv => StaleCost
    BY DEF CostInv
  <1> QED
    BY <1>1, InitKeeps, InitCosts, NextKeeps, NextCosts, PTL DEF Spec
=============================================================================
