SPECIFICATION Spec
CONSTANTS
  Threads = {t1, t2, t3, t4}
  MinConn = 2
  MaxConn = 3
  MaxDrops = 4
INVARIANTS TypeOK NoLeak StaleCost
\* After close_pg_pool the process ends.
CHECK_DEADLOCK FALSE
