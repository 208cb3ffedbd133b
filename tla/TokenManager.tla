----------------------------- MODULE TokenManager -----------------------------
(* app/auth/token_manager.py: PyroAuthService, the one object that holds the *)
(* session and access token for every job, and the calls of the jobs to it.  *)
(* A token is known by the login it goes back to.                            *)
EXTENDS Naturals, FiniteSets

CONSTANTS
  Dispatchers,       \* runs of the processor: recharge()
  Checkers,          \* runs of the status checker: check_transaction_status()
  Authers,           \* start-up and the daily job: authenticate()
  Logins,            \* names for logins; one is used again when nobody knows it
  NoToken,           \* stands for a token that is None
  Unseen,            \* stands for a login whose tokens nobody has received
  NoTask,            \* stands for nobody
  MaxLate            \* bound: login requests on their way that nobody awaits

Tasks == Dispatchers \cup Checkers \cup Authers

ASSUME TokenAssumption ==
  /\ Dispatchers \cap Checkers = {}
  /\ Authers \cap (Dispatchers \cup Checkers) = {}
  /\ NoToken \notin Logins /\ Unseen \notin Logins \cup {NoToken}
  /\ NoTask \notin Tasks
  /\ MaxLate \in Nat

VARIABLES
  session,    \* session_token: the login it was issued by
  access,     \* access_token: the login of the session it was issued for
  inDate,     \* _is_access_token_valid()
  lock,       \* who holds _auth_lock
  task,       \* task[t]: what task t waits for
  newest,     \* Pyro: the login it granted last
  alive,      \* Pyro: the session of that login has not run out
  late,       \* login requests whose client has given up: Pyro may grant them yet
  answered,   \* history: the login Pyro granted last to a client still waiting;
              \* NoToken once a wait is over
  crossed,    \* history: a call of another task was under way at the last login,
              \* or the answer to it had no access token
  refused     \* history: the session held has been answered 506

kept == <<session, access, inDate>>
pyro == <<newest, alive, late>>
history == <<answered, crossed, refused>>
vars == <<kept, lock, task, pyro, history>>

Token == Logins \cup {NoToken}

(* pc names the await the task is in, and then what follows an               *)
(* authenticate().  session is the session token the call under way carries, *)
(* and reply the login Pyro has granted.                                     *)
TaskState ==
  [pc : {"idle", "lock", "login", "refresh", "action", "recharge", "check"},
   then : {"done", "refresh", "check"}, session : Token, reply : Token]

(* Every variable keeps its type, and _auth_lock is held by exactly the task *)
(* whose login is under way (authenticate).                                  *)
TypeOK ==
  /\ {session, access, answered} \subseteq Token /\ newest \in Token \cup {Unseen}
  /\ {inDate, alive, crossed, refused} \subseteq BOOLEAN
  /\ late \in 0..MaxLate
  /\ lock \in Tasks \cup {NoTask}
  /\ task \in [Tasks -> TaskState]
  /\ \A t \in Tasks : lock = t <=> task[t].pc = "login"

Idle == [pc |-> "idle", then |-> "done", session |-> NoToken, reply |-> NoToken]

Init ==
  /\ session = NoToken /\ access = NoToken /\ inDate = FALSE
  /\ lock = NoTask
  /\ task = [t \in Tasks |-> Idle]
  /\ newest = NoToken /\ alive = FALSE /\ late = 0 /\ answered = NoToken
  /\ crossed = FALSE /\ refused = FALSE

-----------------------------------------------------------------------------
(* What a task does next.  A call carries the tokens held when it is sent.   *)
Missing == session = NoToken \/ access = NoToken

Becomes(t, state) == task' = [task EXCEPT ![t] = state]

Waiting(then) == [Idle EXCEPT !.pc = "lock", !.then = then]

Sending(pc, ses) == [Idle EXCEPT !.pc = pc, !.session = ses]

AuthenticateIfMissing(a) ==  \* mutant: the daily job skips a login it still has tokens of
  /\ task[a].pc = "idle" /\ Missing
  /\ Becomes(a, Waiting("done"))
  /\ UNCHANGED <<kept, lock, pyro, history>>

(* authenticate(), by the daily job or lifespan.                             *)
Authenticate(a) ==
  /\ task[a].pc = "idle"
  /\ Becomes(a, Waiting("done"))
  /\ UNCHANGED <<kept, lock, pyro, history>>

(* A batch begins, or its next recharge: refresh_access_token comes first.   *)
StartRecharge(d) ==
  /\ task[d].pc = "idle"
  /\ Becomes(d, IF Missing THEN Waiting("refresh")
                           ELSE Sending("refresh", session))
  /\ UNCHANGED <<kept, lock, pyro, history>>

(* get_access_token.                                                         *)
StartCheck(c) ==
  /\ task[c].pc = "idle"
  /\ Becomes(c, IF inDate  THEN Sending("check", NoToken)
                ELSE IF Missing THEN Waiting("check")
                                ELSE Sending("refresh", session))
  /\ UNCHANGED <<kept, lock, pyro, history>>

-----------------------------------------------------------------------------
(* authenticate().                                                           *)

AcquireAtOnce(t) ==          \* mutant: no _auth_lock
  /\ task[t].pc = "lock"
  /\ lock' = t
  /\ Becomes(t, [task[t] EXCEPT !.pc = "login"])
  /\ UNCHANGED <<kept, pyro, history>>

Acquire(t) ==
  /\ task[t].pc = "lock" /\ lock = NoTask
  /\ lock' = t
  /\ Becomes(t, [task[t] EXCEPT !.pc = "login"])
  /\ UNCHANGED <<kept, pyro, history>>

(* Logins somebody still has a token of.                                     *)
Known == {session, access} \cup UNION {{task[t].session, task[t].reply} : t \in Tasks}

(* Pyro opens a session; its answer is on the way.                           *)
LoginGranted(t) ==
  /\ task[t].pc = "login" /\ task[t].reply = NoToken
  /\ Logins \ Known # {}
  /\ newest' = CHOOSE s \in Logins : s \notin Known
  /\ alive' = TRUE /\ answered' = newest'
  /\ Becomes(t, [task[t] EXCEPT !.reply = newest'])
  /\ UNCHANGED <<kept, lock, late, crossed, refused>>

(* Pyro opens one for a request whose client has given up, and after which   *)
(* others may have logged in.                                                *)
LateGrant ==
  /\ late > 0 /\ late' = late - 1
  /\ newest' = Unseen /\ alive' = TRUE
  /\ UNCHANGED <<kept, lock, task, history>>

(* Where a task goes on after authenticate().                                *)
AfterLogin(t, ok) ==
  CASE task[t].then = "check"         -> Sending("check", NoToken)
    [] task[t].then = "refresh" /\ ok -> Sending("refresh", session')
    [] OTHER                          -> Idle

UnderWay(t) == task[t].pc \in {"refresh", "action"}

LoginKeepsAccess(t) ==       \* mutant: an access token still in date is kept
  /\ task[t].pc = "login" /\ task[t].reply # NoToken
  /\ session' = task[t].reply
  /\ access' = IF inDate THEN access ELSE task[t].reply
  /\ inDate' = TRUE
  /\ lock' = NoTask /\ answered' = NoToken
  /\ Becomes(t, AfterLogin(t, TRUE))
  /\ crossed' = (\E o \in Tasks : UnderWay(o)) /\ refused' = FALSE
  /\ UNCHANGED pyro

(* The answer arrives: both tokens are replaced in one go.                   *)
LoginStored(t) ==
  /\ task[t].pc = "login" /\ task[t].reply # NoToken
  /\ session' = task[t].reply /\ access' = task[t].reply
  /\ inDate' = TRUE
  /\ lock' = NoTask /\ answered' = NoToken
  /\ Becomes(t, AfterLogin(t, TRUE))
  /\ crossed' = (\E o \in Tasks : UnderWay(o)) /\ refused' = FALSE
  /\ UNCHANGED pyro

(* The answer has no accessToken: the KeyError comes between the two         *)
(* assignments, and nobody on the way of the task catches it.                *)
LoginHalfStored(t) ==
  /\ task[t].pc = "login" /\ task[t].reply # NoToken
  /\ session' = task[t].reply
  /\ lock' = NoTask /\ answered' = NoToken
  /\ Becomes(t, Idle)
  /\ crossed' = TRUE /\ refused' = FALSE
  /\ UNCHANGED <<access, inDate, pyro>>

(* Refused or never arrived, or granted and the answer lost.                 *)
LoginFails(t) ==
  /\ task[t].pc = "login"
  /\ lock' = NoTask /\ answered' = NoToken
  /\ newest' = IF task[t].reply = NoToken THEN newest ELSE Unseen
  /\ Becomes(t, AfterLogin(t, FALSE))
  /\ UNCHANGED <<kept, alive, late, crossed, refused>>

(* No answer in time, though the request is still on its way to Pyro.        *)
LoginTimesOut(t) ==
  /\ task[t].pc = "login" /\ task[t].reply = NoToken
  /\ late < MaxLate /\ late' = late + 1
  /\ lock' = NoTask /\ answered' = NoToken
  /\ Becomes(t, AfterLogin(t, FALSE))
  /\ UNCHANGED <<kept, newest, alive, crossed, refused>>

-----------------------------------------------------------------------------
(* refresh_access_token() and get_action_token(), without the lock.  Pyro    *)
(* issues a token for the session in the header unless that has run out, and *)
(* may or may not honour the session of an earlier login; it may refuse any  *)
(* call, and there may be no answer.                                         *)

Issued(t) == task[t].session = newest => alive

StoreAccess(t) == access' = task[t].session /\ inDate' = TRUE /\ UNCHANGED session

RefreshAccepted(t) ==
  /\ task[t].pc = "refresh" /\ Issued(t)
  /\ StoreAccess(t)
  /\ Becomes(t, IF t \in Dispatchers THEN Sending("action", session)
                                     ELSE Sending("check", NoToken))
  /\ UNCHANGED <<lock, pyro, history>>

(* A refusal keeps the tokens.  recharge() gives up, marks the row E and     *)
(* ends the batch; get_access_token returns the old token all the same.      *)
RefreshFails(t) ==
  /\ task[t].pc = "refresh"
  /\ Becomes(t, IF t \in Dispatchers THEN Idle ELSE Sending("check", NoToken))
  /\ UNCHANGED <<kept, lock, pyro, history>>

(* The action token and a new access token come in one answer, and recharge  *)
(* sends them at once, beside the session token of the moment.               *)
ActionAccepted(d) ==
  /\ task[d].pc = "action" /\ Issued(d)
  /\ StoreAccess(d)
  /\ Becomes(d, Sending("recharge", session))
  /\ UNCHANGED <<lock, pyro, history>>

ActionFails(d) ==
  /\ task[d].pc = "action"
  /\ Becomes(d, Idle)
  /\ UNCHANGED <<kept, lock, pyro, history>>

(* 506 to the refresh or the action token is a failure like any other.       *)
ToldInvalid(d) ==
  /\ UnderWay(d)
  /\ refused' = (refused \/ task[d].session = session)
  /\ Becomes(d, Idle)
  /\ UNCHANGED <<kept, lock, pyro, answered, crossed>>

(* Any answer to /recharge but 506: the next row, or the end of the batch.   *)
Recharged(d) ==
  /\ task[d].pc = "recharge"
  /\ Becomes(d, Idle)
  /\ UNCHANGED <<kept, lock, pyro, history>>

(* 506 to /recharge: authenticate(), and the end of the batch.               *)
RechargeInvalid(d) ==
  /\ task[d].pc = "recharge"
  /\ refused' = (refused \/ task[d].session = session)
  /\ Becomes(d, Waiting("done"))
  /\ UNCHANGED <<kept, lock, pyro, answered, crossed>>

Checked(c) ==
  /\ task[c].pc = "check"
  /\ Becomes(c, Idle)
  /\ UNCHANGED <<kept, lock, pyro, history>>

-----------------------------------------------------------------------------
(* Time: the access token is within a minute of its end; a session is over,  *)
(* a day after its login.                                                    *)
AccessRunsOut ==
  /\ inDate /\ inDate' = FALSE
  /\ UNCHANGED <<session, access, lock, task, pyro, history>>

SessionRunsOut ==
  /\ alive /\ alive' = FALSE
  /\ \A t \in Tasks : task[t].reply = NoToken
  /\ UNCHANGED <<kept, lock, task, newest, late, history>>

AuthStep(t) ==
  \/ Acquire(t) \/ LoginGranted(t) \/ LoginStored(t) \/ LoginHalfStored(t)
  \/ LoginFails(t) \/ LoginTimesOut(t)

DispatcherStep(d) ==
  \/ AuthStep(d) \/ RefreshAccepted(d) \/ RefreshFails(d) \/ ToldInvalid(d)
  \/ ActionAccepted(d) \/ ActionFails(d) \/ Recharged(d) \/ RechargeInvalid(d)

CheckerStep(c) == AuthStep(c) \/ RefreshAccepted(c) \/ RefreshFails(c) \/ Checked(c)

Next ==
  \/ \E d \in Dispatchers : StartRecharge(d) \/ DispatcherStep(d)
  \/ \E c \in Checkers : StartCheck(c) \/ CheckerStep(c)
  \/ \E a \in Authers : Authenticate(a) \/ AuthStep(a)
  \/ LateGrant \/ AccessRunsOut \/ SessionRunsOut

Spec == Init /\ [][Next]_vars

(* The daily job starts for ever; a call is answered or times out; waiters   *)
(* get the lock in turn; and of the logins of the daily job Pyro does not    *)
(* refuse every one, nor does it lose the answer, cut it short or let a late *)
(* login overtake it every time.                                             *)
Fairness ==
  /\ \A d \in Dispatchers : WF_vars(DispatcherStep(d))
  /\ \A c \in Checkers : WF_vars(CheckerStep(c))
  /\ \A a \in Authers : WF_vars(Authenticate(a) \/ AuthStep(a))
  /\ \A t \in Tasks : SF_vars(Acquire(t))
  /\ \A a \in Authers :
       SF_vars(LoginGranted(a)) /\ SF_vars(LoginStored(a) /\ task[a].reply = newest)

FairSpec == Spec /\ Fairness

-----------------------------------------------------------------------------
(* The two tokens of the object belong to one login, unless a refresh or an  *)
(* action token was under way when the last login was stored, or its answer  *)
(* lacked the access token: only such a late answer can put an access token  *)
(* of the old session beside the new one (refresh_access_token and           *)
(* get_action_token take no lock).                                           *)
PairMatches == session # access => crossed

(* However many tasks authenticate at once, the logins Pyro grants to        *)
(* clients that still wait are stored in the order of the grants: a session  *)
(* token is never overwritten by one of an earlier such login (authenticate  *)
(* under _auth_lock).  A login granted after its client timed out is stored  *)
(* nowhere and may leave Pyro with a newer one than the one stored.          *)
NewestStored == [][session' # session => session' = answered]_vars

(* Whatever is lost or runs out, the service comes back to a pair of one     *)
(* login whose session is good (the daily job and the lock).                 *)
Recovers == []<>(session = newest /\ access = newest /\ alive)

(* "506 Invalid token: Re-authenticate and retry" (README.md:575): no recharge *)
(* is begun with a session that has been answered 506.                       *)
ReauthenticatesAndRetries ==
  [][\A d \in Dispatchers :
       task[d].pc = "idle" /\ task'[d].pc = "refresh" => ~refused]_vars
=============================================================================
