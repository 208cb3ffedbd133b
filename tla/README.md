# A verification development of the FRC recharge service

`autofrc` (under `src/pyro_auto_frc/`) gives new subscribers their first recharge: it takes
activated subscribers from an Oracle table (BCD), makes a recharge request of each in Postgres,
sends the requests to the Pyro gateway, and learns the outcome from a callback or by asking. Its
four jobs run side by side over tables that no lock and no compare-and-set protects. These modules
model that core, TLC checks it on small instances, and TLAPS proves the main results for instances
of any size.

File names below are relative to `src/pyro_auto_frc/`.

## The system

| Component | State | Operations | Module |
|---|---|---|---|
| Request table, `app/db/postgres.py`, `sql/create_tables.sql` | one row per (batch_date, CAF): push_flag, retry_count, pyro_trans_id, final_status, ... | the UPDATEs and SELECTs of postgres.py | `RequestTable` |
| BCD, `app/db/oracle.py` | FRC_FLOW_STATUS and FRC_REQID per subscriber | fetch of eligible records, RQ writeback, status update | `ServiceState`, `Populator` |
| Processor, `app/processor.py` | the batch it fetched, the dealers without balance | defer the batch if no tokens are to be had; one loop over it: decrypt, POST, record the answer, write BCD | `Processor` |
| Status checker, `app/status_checker.py` | the rows it fetched | one loop: count, NR, ask Pyro, record, write BCD | `StatusChecker` |
| Callback, `app/callback.py` | one handler per POST from Pyro | find the row, guard, record, write BCD | `Callback` |
| Populator, `app/batch/populator.py` | fetched records, rows to insert | fetch, KYC join, insert, RQ writeback | `Populator` |
| Scheduler, `app/scheduler.py`; admin endpoints, `main.py` | none | start the jobs, at intervals or on request | fairness; further members of `Dispatchers`, `Checkers`, `Populators` |
| Pyro | its transactions | accepts or refuses, settles, calls back | `ledger` in `ServiceState`, external |
| Token manager, `app/auth/token_manager.py` | session and access token, the lock of `authenticate` | login, refresh, action token, on behalf of the jobs | `TokenManager` |
| Postgres pool, `app/db/postgres.py` | idle connections, the number given out | `init_pg_pool`, `get_pg_conn`, `close_pg_pool` | `PgPool` |
| Encryption, transaction log, Oracle pool | | | not modelled, see below |

The populator inserts the rows of the request table and then links each to its BCD record; the
processor, the checker and the callback work on them afterwards, or before the link is there. These
three share the request table and BCD and never talk to one another; they take tokens from the token
manager and connections from the pool. Each handles a row in three stages with an `await` between
them: read it (possibly long before), write it in Postgres, then write BCD. Every UPDATE is addressed by `reqid` alone. Postgres
and BCD have no common transaction.

What is hard: the row a job holds may have been rewritten by another job; a POST may have been
accepted although the client saw a timeout; the process may end between any two stages; callbacks may come
early, late, twice or never; the retry count is compared in three places with three different bounds
(`retry_count <= max_retries` in the SELECT, `attempt >= max_retries` in the processor,
`retry_count <= max_retries + 1` in the CHECK). `PROJECT.json` lists each of these hazards at its line.

What makes each part correct:

* processor, checker and callback together: nothing is reported that did not happen
  (`NoPhantomSuccess`), the number of charges is bounded (`ChargeBound`), the jobs stay off one another's
  rows (`OneOwner`), no UPDATE is rejected (`RetryCheckNeverFires`), every request is settled
  (`EventuallySettled`) if the checker gets to it within its 60 minutes at P and unless an mpin that does not decrypt comes before it, and then nothing happens to it
  (`BlockedByBadMpin`), the retry count covers the charges (`RetriesTellCharges`), and, when nothing is lost, a
  charge happens once and verdicts are final (`ImplementsContract`), the rows follow the state machine of the schema
  (`FollowsStateMachine`) and BCD agrees (`BcdExplained`);
* populator: the number of requests made for a subscriber is bounded (`RequestBound`), none is
  forgotten (`OrphansAccounted`), every usable record is reached (`EventuallyRequested`);
* token manager: logins are stored in the order Pyro granted them to clients that still wait (`NewestStored`), the two
  tokens belong to one login unless a call was under way when it was stored or the answer lacked one of them
  (`PairMatches`), and whatever is lost or runs
  out, a good pair comes back (`Recovers`);
* Postgres pool: no exception leaves a connection behind (`NoLeak`), and a connection the server drops costs
  one operation at most (`StaleCost`).

## Modules

| Module | Contents |
|---|---|
| `PyroCodes` | Pyro's status codes and how the service sorts them |
| `RequestTable` | a row as a value; one operator per SQL statement on it |
| `ServiceState` | shared variables `pg`, `bcd`, `ledger`, `aborts`; BCD update; Pyro and time |
| `Processor`, `StatusChecker`, `Callback` | one action per stage of each handler, with a record of local variables per concurrent run |
| `Service` | their composition, fairness, the properties |
| `RechargeContract` | the abstract specification: charge once, one final verdict |
| `PushFlag` | the abstract state machine of push_flag and retry_count, with no local variables and no stale copies |
| `DocClaims` | statements of documents and comments that the code does not keep |
| `Populator` | the populator with its two tables, calendar days and lost runs |
| `TokenManager` | the tokens every job shares, and the calls that replace them |
| `PgPool` | the connections every query goes through, and what happens when they are dropped |
| `MCService`, `MCPopulator` | values of the constants for TLC |
| `ServiceProofs` | theorems about `Service`: types and ownership |
| `SuccessProofs`, `VerdictProofs` | what is reported is true; verdicts are final, and what the flags mean |
| `ChargeProofs` | what a subscriber is charged |
| `ContractProofs` | the service implements `RechargeContract`, and BCD follows |
| `PopulatorProofs`, `TokenProofs`, `PoolProofs` | theorems about the module of that name |

How the state corresponds to the code. `pg[r]` is the row of request `r`, cut down to the columns the
statements read: `flag` is push_flag, `retry` retry_count, `trans` pyro_trans_id, `checked` says
status_check_count > 0, `final` is final_status, and `age` sorts push_date by the window of the status
check (under 2 minutes, up to 60, beyond). `bcd[r]` is the FRC_FLOW_STATUS of the subscriber, `NP`
standing for a record whose FRC_REQID is not set, which no update matches: for ever in rows of `Unlinked`,
whose RQ writeback was lost, and until `LinkBcd` in rows of `Late`, which the jobs see before it. `ledger[r]` is
Pyro's own book of the transactions it accepted for `r`; the service cannot read it except by asking.
`disp[d]`, `chk[c]` and `hand[h]` hold the local variables of run `d` of the processor, run `c` of the
checker and handler `h`.

An action ends where the code awaits or commits: the batch is fetched; it is deferred for want of tokens (`DeferBatch`), or
the loop begins with the tokens held or just obtained; a row is taken and posted
(`RechargeAccepted`, `RechargeRefused`); its UPDATE commits (`RecordPushed`, `RecordFailed`,
`RecordRetry`); BCD is updated (`DispWriteback`). Branches that change nothing after the UPDATE go
straight back to the loop. An exception out of a database call, a cancelled task and the end of the
process all mean that a run stops where it is (`DispAbort`, `ChkAbort`, `HandAbort`); a crash of the
process is one such step per run. Status codes are numbers as in the code; what the client invents
(-1) is split in two, because the processor tells the two cases apart by the message, and a callback with 2000 and a status
other than SUCCESS, which the endpoint marks F, has a number of its own (`NOT_SUCCESS`).

In `Populator` a request is its CAF, the GSM it is for and its batch_date. A subscriber is known by its GSM, as in the join of
populator.py:76, and `RequestsOf(c)` are the requests for the GSM of record `c`, under whatever CAF. The CAF comes from the KYC row. When it is
the record's own, the RQ writeback links the record and it is never fetched again. When it is not (`Strays(c)`), the writeback links another
record or none, the record stays at NP and is fetched again, and the UNIQUE key lets one more request through every day.

`TokenManager` knows a token by the login it goes back to: `session` is the login that issued the session
token, `access` the one of the session that the access token was refreshed or logged in with. `task[t].pc` names the
await a task is in (waiting for `_auth_lock`, or for the answer to a login, refresh, action token, recharge
or status check), `task[t].session` is the session token its call carries. `newest`, `alive` and `late`
are Pyro's: the last login it granted, whether that session still runs, and how many login requests are on their way whose client
timed out (token_manager.py:71-77). Pyro may grant such a request at any time after, also when others have logged in since (`LateGrant`);
nobody receives the tokens, so the login is called `Unseen`. `LoginHalfStored` is an answer without accessToken, which raises between
the two assignments of lines 85 and 86. `answered`, `crossed` and `refused` are
history variables; the code has nothing like them. `answered` is the login granted last to a client still waiting. Whether Pyro honours a session older than its newest is not in
the repository, so it may or may not. A name of a login is used again once nobody goes by it, which
keeps the instance finite without a bound on the number of logins.

`PgPool` models psycopg2's ThreadedConnectionPool from its use: each of its calls is one step, since it takes its own lock, and threads
meet between them. `idle` is the stack of idle connections, `used` the number the pool counts as given out,
`call[t]` how far thread t is in `get_pg_conn` (with a stale connection, having returned it, in the body) and
`conn[t]` its local variable. The server may drop a connection so that `conn.closed` shows it or so that nobody can tell before
the next statement.

Left out of these modules: remarks, bodies, timestamps other than the window above, the log table, and
the order in which the status checker takes its rows (any order is allowed, the code goes by push_date).

## Model checking

Each run answers one question about the system; `PROJECT.json` says which. The longest, `clean`, takes about
three minutes on two workers, `tokens` about two. Between them they fire every action of every module: the two
UPDATEs the retry CHECK rejects in `overlap`; the dealer skip, the mpin that does not decrypt and the late RQ
writeback in `clean`; lost answers, missing ids and aborts in `faults`.

| Run | Instance | Checks |
|---|---|---|
| `faults` | 1 row, 1 run of each job, 1 handler, max_retries 2, every refusal, lost answers, accepted recharges without an id or with an unexpected code, failed callbacks with 2000 and with 5006, 506 from the status check, BCD failures, lapsing rows, 1 abort | `TypeOK`, `NoPhantomSuccess`, `OneOwner`, `RetryCheckNeverFires`, `ChargeBound` |
| `overlap` | 1 row, 2 runs of the processor, max_retries 1, 506 from POST and check | `NoPhantomSuccess`, `ChargeBound`, `RetriesTellCharges` |
| `clean` | 4 rows of one dealer in order of age, batch size 2, max_retries 1: the first linked late, the second never linked, the third with an mpin that does not decrypt, the fourth behind it; any batch may be deferred; refusals and failures but nothing lost | `BcdExplained`, `BlockedByBadMpin`, `ImplementsContract`, `FollowsStateMachine`, `EventuallySettled` |
| `populate` | 5 BCD records, fetch size 3, 2 runs, 6 days, 3 lost runs; a KYC row under a CAF that BCD does not know, one without a plan beside a usable one, one under the CAF of another record, and one the table refuses | `TypeOK`, `RequestBound`, `OrphansAccounted`, `EventuallyRequested` |
| `tokens` | a dispatcher, a checker and the daily job, 5 names of logins, 1 login request that outlives its client | `TypeOK`, `PairMatches`, `NewestStored`, `Recovers` |
| `pool` | 4 threads, minconn 2, maxconn 3, 4 drops | `TypeOK`, `NoLeak`, `StaleCost` |

Bounds, and why they are enough. `MaxTxns` limits what Pyro accepts for one row. In `faults` and `overlap` it
lies above what `ChargeBound` and `RetriesTellCharges` allow, 5 against a bound of 3 + 1 and of 4, and in `clean` it is 2, one more than
the contract allows, so the property and not the bound limits the ledger. `MaxAborts` 1 is enough to lose an
answer once; `ChargeBound` counts aborts one by one, and the theorem covers the rest. One row is
enough where the property speaks of rows one at a time and no code relates two of them; rows meet in the
dealer skip, in the order of the batch and in the batch a bad mpin ends, which `clean` exercises: the fourth row is fetched
together with the bad one once the first two have left the queue. Under its own CAF a subscriber of `populate` may get 2 + 3 requests, by two
runs and `MaxLost` 3, and `MaxDays` 6 lies above that: the five are reached, and the days do not limit them. Fetch size 3 is what the stuck
records of the instance do not fill. `MaxLate` 1 is enough for a late grant after, before and between the others, since nothing tells two of them apart. At most four logins are known to anybody
in any state of `tokens`, so the fifth name is always free and no login fails for want of one. Four threads over three connections and four drops make the pool run out,
and let a thread meet two stale connections in a row, twice. `overlap` uses symmetry between runs of a job; no run
with a liveness property does.

`tokens` and `reauth` check for deadlock, and there is none. The other configurations say `CHECK_DEADLOCK FALSE` because the
system may come to rest: when every row is at Y, F or out of retries there is nothing to do until new
subscribers arrive, the populator stops with the last record (and the last day), and a pool is not opened again after
`close_pg_pool`.

Fairness (`Fairness` in `Service` and `TokenManager`, `FairSpec` in `Populator`). The scheduler starts each job
at its interval for ever, with `coalesce` and `max_instances=1`, and a job that has started is driven on by the
event loop: weak fairness of each run's steps. Pyro settles what it accepted and time passes: weak
fairness of `Settle` and `Ripen`. Nothing makes Pyro call back, so `Receive` is not fair; a handler that has begun
is. The processor's start on a batch needs strong fairness (`BeginBatch`): any batch may be deferred for want of tokens, without a retry
counted (processor.py:55-65), but not every batch from some time on. Tokens once stored are never None again, so this asks no more than that Pyro
does not refuse every login for ever, as in `TokenManager`; without it every row would wait at N or E for good. It makes no token valid, nor Pyro accept a recharge.
The populator needs strong
fairness of `BulkInsert`: the database does not fail every insert for ever, though it may any of them. The token manager
needs it of `Acquire`, because asyncio.Lock wakes its waiters in turn, and of a login of the daily job: of these Pyro does not refuse every
one for ever, nor is every answer lost, cut short or overtaken by a late grant. Nothing makes a refresh succeed.

### What the code does against its documents

Six runs check a sentence of a document or comment and find a behaviour that contradicts it.

* `terminal`: README.md:468 calls Y and F terminal. `run_status_checks` holds a row it fetched at P,
  the callback makes it Y, the status call returns 506, and `mark_as_failed` (status_checker.py:111) writes
  E over Y. The processor recharges the row again.
* `retried`: create_tables.sql:81 says that E is retried automatically. 405, 506 and a missing
  action token always mark E, so that the last allowed attempt leaves a row at E that the SELECT never returns.
* `shown`: README.md:572 says that a success sets BCD to P. The callback may come between
  `mark_as_pushed` and the W of processor.py:113, which then overwrites P.
* `given_up`: oracle.py:18 says that BCD is F after exhausting the retries. status_checker.py:109-115 writes F while
  it queues the row for another recharge.
* `reinsert`: populator.py:149 relies on the UNIQUE constraint when the BCD writeback is lost. The
  constraint includes the date; the next run after midnight inserts a second request.

* `reauth`: README.md:575 says that 506 leads to a new login and a retry. That is so only of the answer to `/recharge`
  (processor.py:142). A session that has run out shows first at the refresh and the action token, whose 506
  token_manager.py:132 treats like any other failure: the next recharge begins with the same session.

Three more were met on the way and have no run, because they are visible in one line: 5007 and 406
give F where README.md:573-577 and processor.py:14 say ID; the callback answers 400 or 500 where the README
says that it always answers 200; 901 leaves the row at P where README.md:455 says E.

`EventuallySettled` is stated of rows that do not pass 60 minutes at P. Past them the status check leaves a row alone
(postgres.py:325, README.md:448), so that it stays at P unless a callback comes: this is documented, and the property does not call it settled. In `clean`
no row lapses; in `faults` it may.

`UniquePreventsReinsert` is stated of subscribers whose KYC rows all bear the CAF of their own record: where one does not, a
second request comes with the next day and nothing lost, as `RequestBound` says.

The comment of `get_pg_conn` says that it swaps out any connection the server dropped while it was idle. It swaps
once and does not look at the replacement; `StaleCost` states what that costs.

`ChargeBound` says how often a subscriber may be charged and not that it happens once: with lost answers the
code does post again, with the same clientTxnId. Whether Pyro recognises the repeat is not in this repository, so
the model lets it accept each one. With nothing lost, `ImplementsContract` says once.

## Proofs

| Theorem | Statement | Assumes |
|---|---|---|
| `TypeCorrect` | `Spec => []TypeOK` | constants typed |
| `NoPhantomSuccessHolds` | `Spec => []NoPhantomSuccess` | the same |
| `BlockedByBadMpinHolds` | `Spec => []BlockedByBadMpin` | the same |
| `ChargeBoundHolds`, `RetriesTellChargesHolds` | `Spec => []ChargeBound`, `Spec => []RetriesTellCharges` | the same, runs finitely many |
| `OneOwnerHolds` | `Spec => []OneOwner` | at most one run of each job |
| `RetryCheckNeverFiresHolds` | `Spec => []RetryCheckNeverFires` | at most one run of each job |
| `FollowsStateMachineHolds` | `Spec => FollowsStateMachine` | `ChecksTell` |
| `TerminalIsFinalHolds` | `Spec => TerminalIsFinal` | `ChecksTell` |
| `FailedMeansGivenUpHolds` | `Spec => []FailedMeansGivenUp` | `IdsCome` |
| `RetriedAutomaticallyHolds` | `Spec => []RetriedAutomatically` | `IdsCome`, `RetriesEnd` |
| `ContractImplemented` | `Spec => ImplementsContract` | `Reliable` |
| `BcdExplainedHolds` | `Spec => []BcdExplained` | `Reliable`, no BCD update fails |
| `PopulatorTypeCorrect`, `RequestBoundHolds`, `OrphansAccountedHolds` | the three invariants of `populate` | finitely many runs and CAFs |
| `UniquePreventsReinsertHolds` | `Spec => [](lost = 0 => UniquePreventsReinsert)` | one run of the populator |
| `TokenTypeCorrect`, `PairMatchesHolds`, `NewestStoredHolds` | the invariants and the action property of `tokens` | tasks of different kinds differ |
| `PoolTypeCorrect`, `NoLeakHolds`, `StaleCostHolds` | the three invariants of `pool` | minconn <= maxconn, finitely many threads |

What the conditions say, and when the system meets them:

* `Reliable`: Pyro's acceptance always arrives as 2002 with an id, every status check is answered 2000, 901 or 902, no
  run is cut short, and the processor runs once at a time. The status checker may overlap itself, and refusals and failed
  recharges are allowed. This is a day on which `POST /admin/trigger-recharge` is left alone and the network holds.
* `ChecksTell` is weaker: only the status check has to be answered and the processor not to overlap itself. Answers to a POST may
  be lost, be a 2000 or come without an id, and any run may be cut short. (With ids missing, the checker must not overlap itself
  either: two runs would queue the same row twice.)
* `IdsCome` adds that an accepted POST never comes without an id, so that a check never finds a row it cannot ask
  about. `RetriesEnd` adds that Pyro never answers 405 or 506 and a token can always be had.

The four statements of documents among them are those the runs `terminal`, `given_up`, `retried` and `reinsert` refute. The
theorems say how much has to go wrong for that, and that nothing else does it: no race of callbacks, checks and batches, no crash
and no lost POST breaks `TerminalIsFinal`, only a status check that tells nothing or an overlapping processor (or both missing ids
and an overlapping checker).

They hold for every set of rows, handlers, records or threads, every batch size, every max_retries and every set of
codes the ASSUMEs of the modules allow.

* `TypeInv` adds to the types that a run past its first step has a row in hand: without it,
  `pg[disp[d].row]` has no value.
* `SuccessInv` adds `IdsOK` (every transaction id a row or a run remembers is one Pyro gave out) and
  `ReportersOK` (who is about to report a success has seen one). A stale report is
  still true because Pyro's book only grows (`BookGrows`). So neither the overwriting of
  flags nor the number of runs matters here.
* `OwnerInv` adds `BatchOK` (the rows of a batch are distinct, and the row in hand is not among them)
  and `RoomToRetry` (a pushed row, and any row a job has in hand, has room for one more retry). A row
  leaves N and E only by its one processor and returns to E only from its one checker; callbacks
  write neither N, E nor P. With two runs of a job this is false, and the `overlap` run shows an UPDATE the CHECK rejects.
* `ChargeInv` pays for every POST with a ticket: the run that made it and the retry_count the row had when
  that run fetched it. A run fetches the row again only once its count has gone up, so
  a ticket is used once, unless the run was cut short before the UPDATE; there are `max_retries + 1`
  of them for each run.
* `RetriesTellCharges` is read off the same tickets: those of a row carry retry counts that the row has reached, so a row at k has at
  most k + 1 for each run. The count is never set back, which is what the mutant does.
* `BlockedInv` says that a row behind a bad mpin is as inserted (`RowsBlocked`), is in a batch only together with
  the bad one and before its turn (`RunBlocked`), and is in nobody else's hands (`CheckApart`, `HandApart`): `IsBatch` takes the
  oldest first, so whoever fetches the younger has fetched the bad one.
* `VerdictInv` is what `ChecksTell` buys. A queued row has no transaction; the flag of a row that has left the queue is the outcome of
  its recorded transaction if it is Y or F (`FlagTrue`); a row the processor holds is queued (`DispTrue`), one a checker or
  a handler holds has left the queue, with the transaction the holder knows (`ChkTrue`, `HandTrue`). So whichever of callback and check writes
  second writes what is there, because Pyro does not change its mind (`TellsOn`).
* `HeldInv` adds that no retry has been counted for a row since the processor fetched it. Together they say that every copy the code works on is
  still true when it is written, and so that each UPDATE is a move of `PushFlag` on the row as it is, or changes nothing
  (`MoveFollows`).
* `GivenUpInv` says that whoever is about to write F or ID to BCD has written F to the row, and `VerdictsKept` that it
  stays so. `QueueInv` says that the attempt in hand is the row's count plus one, so that `attempt >= max_retries` gives up before
  the SELECT would.
* `ContractInv` says of each row that it waits and has no transaction (`Waiting`), or has one that is
  recorded (`Recorded`), or shows the verdict of that one (`Outcome`), and of each run and handler what it knows
  about its row. Then every step of `Service` is a step of `RechargeContract` or leaves it alone.
* `BcdInv` says of each row that its BCD status is one the flag explains, unless somebody still has to
  write it (`WritesLater`), and of each writer that what it carries goes with the flag its row has by then.
* In the populator, `CountInv` counts the requests under the CAF of a record: at NP those in the hands of runs (`Holders`) and lost, and
  once it is linked also the runs that may still insert another (`Comers`). `KeyInv` says that a request bears the CAF and the GSM of a usable KYC
  row and a day that has come, and that CAF and day are a key, so that the requests under the other CAFs of a subscriber are one a day
  for each at most (`OneADay`). `Split` puts the two counts together.
* In the token manager, `RepliesAnswered` says that a granted login still awaited is the last that went to a waiting client, because the lock
  lets one through at a time, and `NothingLate` that without a crossing every call under way carries the session held.
* In the pool, `LeakInv` counts the threads that hold a connection. `CostInv` keeps a balance: what the drops
  have cost and may still cost (idle connections that are gone, threads replacing a stale one, threads
  about to fail) never exceeds what they are worth.

Only model-checked: the liveness properties `EventuallySettled`, `EventuallyRequested` and `Recovers`, which rest on
fairness and are out of the prover's reach; and of the documents' statements `SuccessShown`, which a delay between the two writes of the
processor breaks as long as there is a callback or a status check to come between them, and `ReauthenticatesAndRetries`, because
Pyro may answer 506 to any call.

## Not modelled

* Encryption (`app/encryption.py`): whether an mpin decrypts is `BadMpin`; the 3DES codec itself is arithmetic on bytes.
* The Oracle pool: oracledb makes a caller wait for a connection, which the other steps may do between any two.
* The transaction log, which nothing reads; configuration; nginx and Docker; the
  scripts run by hand; the earlier versions in `batch/` and `recharge/`, which import a module that is gone.
* Between the modules: to the jobs a failure of the token manager is the
  answer `NO_ACTION_TOKEN`, `INVALID_TOKEN` or `NO_ANSWER`, and a failure of the pool an abort; both may come at any time in `Service`,
  which is more than the two modules allow. What the populator does to the jobs is `Late` and `Unlinked`.

## Plan

1. Done: `RequestTable` to `Service` with the contract, `Populator`, `TokenManager`, `PgPool`, and the theorems above.
2. `Intake`: the populator and the service over one table, instead of `Late` and `Unlinked`, so that the request
   and charge bounds of one subscriber combine over several days.
3. The processor over `TokenManager`: how many retries an expired session costs before the daily job.
4. Two runs of the checker beside two of the processor: too many states for a run, and covered only by the theorems, which hold for any
   number of checkers (`NoPhantomSuccessHolds`, `ChargeBoundHolds`, `RetriesTellChargesHolds`, `ContractImplemented`).
