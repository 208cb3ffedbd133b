------------------------------- MODULE PgPool -------------------------------
(* The Postgres connection pool of app/db/postgres.py: init_pg_pool,         *)
(* close_pg_pool and get_pg_conn, through which every query and update of    *)
(* the request table goes, from threads of asyncio.to_thread.  The pool is   *)
(* psycopg2's ThreadedConnectionPool, whose calls are atomic; between two of *)
(* them the other threads run.                                               *)
EXTENDS Naturals, FiniteSets, SequencesExt

CONSTANTS
  Threads,           \* workers of asyncio.to_thread
  MinConn, MaxConn,  \* pg_min_conn, pg_max_conn
  MaxDrops           \* bound: connections the server drops

ASSUME PoolAssumption ==
  /\ IsFiniteSet(Threads)
  /\ MinConn \in Nat /\ MaxConn \in Nat /\ MinConn <= MaxConn /\ MaxDrops \in Nat

(* open; dropped by the server and not noticed yet; known closed             *)
(* (conn.closed # 0), which a drop may show at once.                         *)
Conn == {"open", "dropped", "closed"}

VARIABLES
  pool,        \* "unset", "open", "closed", or "gone": _pool is None again
  idle,        \* the pool's idle connections; the last one put back goes out first
  used,        \* how many connections the pool counts as given out
  call,        \* call[t]: how far t is in get_pg_conn
  conn,        \* conn[t]: its local variable
  noticed, unnoticed,  \* drops of each sort
  broken       \* operations that found their connection gone

vars == <<pool, idle, used, call, conn, noticed, unnoticed, broken>>
drops == <<noticed, unnoticed>>

(* "stale": it has to replace conn; "swap": it has given the stale one back; *)
(* "body": in the with statement.                                            *)
Holding == {"stale", "body"}

TypeOK ==
  /\ pool \in {"unset", "open", "closed", "gone"}
  /\ idle \in Seq(Conn) /\ Len(idle) <= MinConn
  /\ used \in 0..MaxConn
  /\ call \in [Threads -> {"idle", "swap"} \cup Holding]
  /\ conn \in [Threads -> Conn]
  /\ noticed \in 0..MaxDrops /\ unnoticed \in 0..MaxDrops
  /\ broken \in 0..MaxDrops

Init ==
  /\ pool = "unset" /\ idle = <<>> /\ used = 0
  /\ call = [t \in Threads |-> "idle"] /\ conn = [t \in Threads |-> "closed"]
  /\ noticed = 0 /\ unnoticed = 0 /\ broken = 0

(* init_pg_pool, once in the life of the process.                            *)
InitMaxConn ==               \* mutant: minconn and maxconn swapped
  /\ pool = "unset" /\ pool' = "open"
  /\ idle' = [i \in 1..MaxConn |-> "open"]
  /\ UNCHANGED <<used, call, conn, drops, broken>>
InitPool ==
  /\ pool = "unset" /\ pool' = "open"
  /\ idle' = [i \in 1..MinConn |-> "open"]
  /\ UNCHANGED <<used, call, conn, drops, broken>>

(* What the first getconn leads to, and the one after a swap.                *)
HandedOverUnchecked(t, c) == "body"      \* mutant: conn.closed is not looked at
AfterGetconn(t, c) == IF call[t] = "idle" /\ c = "closed" THEN "stale" ELSE "body"

GetIdle(t) ==
  /\ pool = "open" /\ idle # <<>>
  /\ conn' = [conn EXCEPT ![t] = Last(idle)]
  /\ call' = [call EXCEPT ![t] = AfterGetconn(t, Last(idle))]
  /\ idle' = Front(idle) /\ used' = used + 1

GetNew(t) ==
  /\ pool = "open" /\ idle = <<>> /\ used < MaxConn
  /\ conn' = [conn EXCEPT ![t] = "open"]
  /\ call' = [call EXCEPT ![t] = "body"]
  /\ used' = used + 1 /\ UNCHANGED idle

(* PoolError when MaxConn are given out, an error when the server takes no   *)
(* new connection, and either when the pool is closed or None: the call ends *)
(* before its with statement.                                                *)
GetconnRaises(t) ==
  /\ pool = "open" => idle = <<>>
  /\ call' = [call EXCEPT ![t] = "idle"]
  /\ UNCHANGED <<idle, used, conn>>

(* conn = _pool.getconn(), by the caller or again after a stale connection.  *)
Getconn(t) ==
  /\ call[t] = "swap" \/ (call[t] = "idle" /\ pool = "open")
  /\ GetIdle(t) \/ GetNew(t) \/ GetconnRaises(t)
  /\ UNCHANGED <<pool, drops, broken>>

(* putconn keeps what is open, up to MinConn, and closes or discards the     *)
(* rest; of a closed pool it raises.                                         *)
Putconn(t, close) ==
  IF pool # "open" THEN UNCHANGED <<idle, used>>
  ELSE /\ used' = used - 1
       /\ idle' = IF ~close /\ conn[t] = "open" /\ Len(idle) < MinConn
                  THEN Append(idle, "open") ELSE idle

(* _pool.putconn(conn, close=True).                                          *)
DiscardStale(t) ==
  /\ call[t] = "stale"
  /\ Putconn(t, TRUE)
  /\ call' = [call EXCEPT ![t] = IF pool = "open" THEN "swap" ELSE "idle"]
  /\ conn' = [conn EXCEPT ![t] = "closed"]
  /\ UNCHANGED <<pool, drops, broken>>

(* The body commits, or raises and is rolled back; finally gives back conn.  *)
(* On a connection that is gone every statement raises.                      *)
LeavesWithoutFinally(t) ==   \* mutant: an exception skips putconn
  /\ call[t] = "body"
  /\ IF conn[t] = "open" THEN Putconn(t, FALSE) ELSE UNCHANGED <<idle, used>>
  /\ call' = [call EXCEPT ![t] = "idle"] /\ conn' = [conn EXCEPT ![t] = "closed"]
  /\ broken' = IF pool = "open" /\ conn[t] # "open" THEN broken + 1 ELSE broken
  /\ UNCHANGED <<pool, drops>>
Leaves(t) ==
  /\ call[t] = "body"
  /\ Putconn(t, FALSE)
  /\ call' = [call EXCEPT ![t] = "idle"] /\ conn' = [conn EXCEPT ![t] = "closed"]
  /\ broken' = IF pool = "open" /\ conn[t] # "open" THEN broken + 1 ELSE broken
  /\ UNCHANGED <<pool, drops>>

(* The server ends a connection, idle or in use.                             *)
DropIdle ==
  /\ pool = "open" /\ noticed + unnoticed < MaxDrops
  /\ \E i \in DOMAIN idle, c \in {"dropped", "closed"} :
       /\ idle[i] = "open"
       /\ idle' = [idle EXCEPT ![i] = c]
       /\ IF c = "closed" THEN noticed' = noticed + 1 /\ UNCHANGED unnoticed
          ELSE unnoticed' = unnoticed + 1 /\ UNCHANGED noticed
  /\ UNCHANGED <<pool, used, call, conn, broken>>

DropUsed(t) ==
  /\ pool = "open" /\ noticed + unnoticed < MaxDrops
  /\ call[t] = "body" /\ conn[t] = "open"
  /\ conn' = [conn EXCEPT ![t] = "dropped"] /\ unnoticed' = unnoticed + 1
  /\ UNCHANGED <<pool, idle, used, call, noticed, broken>>

(* close_pg_pool closes every connection, those in use as well...            *)
CloseAll ==
  /\ pool = "open" /\ pool' = "closed"
  /\ idle' = [i \in DOMAIN idle |-> "closed"]
  /\ conn' = [t \in Threads |-> "closed"]
  /\ UNCHANGED <<used, call, drops, broken>>

(* ...and then forgets the pool.                                             *)
ForgetPool ==
  /\ pool = "closed" /\ pool' = "gone" /\ UNCHANGED <<idle, used, call, conn, drops, broken>>

Next ==
  \/ InitPool \/ CloseAll \/ ForgetPool \/ DropIdle
  \/ \E t \in Threads : Getconn(t) \/ DiscardStale(t) \/ Leaves(t) \/ DropUsed(t)

Spec == Init /\ [][Next]_vars

-----------------------------------------------------------------------------
Holders == {t \in Threads : call[t] \in Holding}

(* The connections the pool counts as given out are those of the threads     *)
(* inside get_pg_conn: neither an exception in the body, nor a stale         *)
(* connection, nor a getconn that raises leaves one behind, so that the pool *)
(* refuses a caller only while MaxConn others are at work.                   *)
NoLeak == pool = "open" => used = Cardinality(Holders)

(* A drop costs at most one operation, and two of those that getconn shows   *)
(* cost one together: "swap out any connection the server dropped while it   *)
(* was idle" (get_pg_conn) is done once, and the replacement is not looked   *)
(* at.                                                                       *)
StaleCost == 2 * broken <= 2 * unnoticed + noticed
=============================================================================
