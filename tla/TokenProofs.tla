----------------------------- MODULE TokenProofs -----------------------------
(* Theorems about TokenManager: which tokens the object holds, for any       *)
(* number of tasks.                                                          *)
EXTENDS TokenManager, TLAPS

(* A login whose answer is still awaited is the last that Pyro granted to a  *)
(* client that waits.                                                        *)
RepliesAnswered ==
  \A t \in Tasks : task[t].reply # NoToken => task[t].pc = "login" /\ task[t].reply = answered

(* Unless a login was stored over a call under way, every call under way     *)
(* carries the session held, and so does the pair.                           *)
NothingLate ==
  ~crossed => /\ session = access
              /\ \A t \in Tasks : UnderWay(t) => task[t].session = session

TokenInv == TypeOK /\ RepliesAnswered /\ NothingLate

(* The steps of one task, for a proof that does not care whose step it is.   *)
TaskStep(t) ==
  \/ Authenticate(t) \/ StartRecharge(t) \/ StartCheck(t)
  \/ Acquire(t) \/ LoginGranted(t) \/ LoginStored(t) \/ LoginHalfStored(t)
  \/ LoginFails(t) \/ LoginTimesOut(t)
  \/ RefreshAccepted(t) \/ RefreshFails(t) \/ ActionAccepted(t) \/ ActionFails(t)
  \/ ToldInvalid(t) \/ Recharged(t) \/ RechargeInvalid(t) \/ Checked(t)

(* A step of Next is a step of a task or of time.                            *)
LEMMA NextCases ==
  ASSUME Next
  PROVE  (\E t \in Tasks : TaskStep(t)) \/ LateGrant \/ AccessRunsOut \/ SessionRunsOut
  BY DEF Next, DispatcherStep, CheckerStep, AuthStep, TaskStep, Tasks

(* A state a task may have while no login of it is under way; a call that    *)
(* will bring an access token carries session token ses.                     *)
Fits(s, ses) ==
  /\ s \in TaskState /\ s.reply = NoToken /\ s.pc # "login"
  /\ s.pc \in {"refresh", "action"} => s.session = ses

(* What a task may become is such a state.                                   *)
LEMMA TaskStates ==
  ASSUME NEW ses \in Token
  PROVE  /\ Fits(Idle, ses)
         /\ \A then \in {"done", "refresh", "check"} : Fits(Waiting(then), ses)
         /\ \A pc \in {"refresh", "action", "recharge"} : Fits(Sending(pc, ses), ses)
         /\ Fits(Sending("check", NoToken), ses)
  <1> USE DEF Fits, TaskState, Token
  <1>1. Fits(Idle, ses)
    BY DEF Idle
  <1>2. ASSUME NEW then \in {"done", "refresh", "check"} PROVE Fits(Waiting(then), ses)
    BY DEF Waiting, Idle
  <1>3. ASSUME NEW pc \in {"refresh", "action", "recharge"} PROVE Fits(Sending(pc, ses), ses)
    BY DEF Sending, Idle
  <1>4. Fits(Sending("check", NoToken), ses)
    BY DEF Sending, Idle
  <1>5. QED
    BY <1>1, <1>2, <1>3, <1>4

(* A fresh name is a login, and a token.                                     *)
LEMMA FreshLogin ==
  ASSUME Logins \ Known # {}
  PROVE  (CHOOSE s \in Logins : s \notin Known) \in Logins
  BY DEF Known

LEMMA InitInv == Init => TokenInv
  <1> SUFFICES ASSUME Init PROVE TokenInv
    OBVIOUS
  <1>1. TypeOK
    <2>1. late \in 0..MaxLate
      BY TokenAssumption DEF Init
    <2>2. task \in [Tasks -> TaskState] /\ \A t \in Tasks : lock = t <=> task[t].pc = "login"
      BY TokenAssumption DEF Init, TaskState, Token, Idle
    <2>3. QED
      BY <2>1, <2>2 DEF Init, TypeOK, Token
  <1>2. RepliesAnswered /\ NothingLate
    BY DEF Init, RepliesAnswered, NothingLate, UnderWay, Idle
  <1>3. QED
    BY <1>1, <1>2 DEF TokenInv

(* The first step of a call: the task was idle, and nothing else changes.    *)
LEMMA StartStep ==
  ASSUME TokenInv, NEW t \in Tasks,
         Authenticate(t) \/ StartRecharge(t) \/ StartCheck(t)
  PROVE  TokenInv'
  <1> USE DEF kept, pyro, history, Fits
  <1>1. UNCHANGED <<session, access, inDate, lock, newest, alive, late, answered, crossed, refused>>
    BY DEF Authenticate, StartRecharge, StartCheck
  <1>2. PICK s : /\ task' = [task EXCEPT ![t] = s]
                 /\ \/ \E then \in {"done", "refresh", "check"} : s = Waiting(then)
                    \/ s = Sending("refresh", session)
                    \/ s = Sending("check", NoToken)
    BY DEF Authenticate, StartRecharge, StartCheck, Becomes
  <1>3. Fits(s, session)
    BY <1>2, TaskStates DEF TokenInv, TypeOK
  <1>4. task[t].pc = "idle"
    BY DEF Authenticate, StartRecharge, StartCheck
  <1>5. TypeOK'
    BY <1>1, <1>2, <1>3, <1>4 DEF TokenInv, TypeOK
  <1>6. RepliesAnswered' /\ NothingLate'
    BY <1>1, <1>2, <1>3 DEF TokenInv, TypeOK, RepliesAnswered, NothingLate, UnderWay
  <1>7. QED
    BY <1>5, <1>6 DEF TokenInv

(* authenticate() up to its answer.                                          *)
LEMMA AcquireStep ==
  ASSUME TokenInv, NEW t \in Tasks, Acquire(t)
  PROVE  TokenInv'
  <1> USE DEF kept, pyro, history, Fits
  <1>1. task' = [task EXCEPT ![t] = [task[t] EXCEPT !.pc = "login"]]
    BY DEF Acquire, Becomes
  <1>2. [task[t] EXCEPT !.pc = "login"] \in TaskState /\ task[t].reply = NoToken
    BY DEF TokenInv, TypeOK, TaskState, RepliesAnswered, Acquire
  <1>3. TypeOK'
    BY <1>1, <1>2, TokenAssumption DEF TokenInv, TypeOK, Acquire, TaskState
  <1>4. RepliesAnswered' /\ NothingLate'
    BY <1>1, <1>2 DEF TokenInv, TypeOK, RepliesAnswered, NothingLate, UnderWay, Acquire, TaskState
  <1>5. QED
    BY <1>3, <1>4 DEF TokenInv

LEMMA GrantedStep ==
  ASSUME TokenInv, NEW t \in Tasks, LoginGranted(t)
  PROVE  TokenInv'
  <1> USE DEF kept, pyro, history, Fits
  <1>1. /\ newest' \in Logins /\ answered' = newest'
        /\ task' = [task EXCEPT ![t] = [task[t] EXCEPT !.reply = newest']]
    BY FreshLogin DEF LoginGranted, Becomes
  <1>2. [task[t] EXCEPT !.reply = newest'] \in TaskState
    BY <1>1 DEF TokenInv, TypeOK, TaskState, Token
  <1>3. TypeOK'
    BY <1>1, <1>2 DEF TokenInv, TypeOK, LoginGranted, TaskState, Token
  <1>4. \A u \in Tasks \ {t} : task[u].reply = NoToken
    BY DEF TokenInv, TypeOK, RepliesAnswered, LoginGranted
  <1>5. RepliesAnswered'
    BY <1>1, <1>4 DEF TokenInv, TypeOK, RepliesAnswered, LoginGranted, TaskState
  <1>6. NothingLate'
    BY <1>1 DEF TokenInv, TypeOK, NothingLate, UnderWay, LoginGranted, TaskState
  <1>7. QED
    BY <1>3, <1>5, <1>6 DEF TokenInv

(* The answer replaces the pair, and crossed notes what is under way; or it  *)
(* replaces the session alone, and crossed notes that.                       *)
LEMMA StoredStep ==
  ASSUME TokenInv, NEW t \in Tasks, LoginStored(t) \/ LoginHalfStored(t)
  PROVE  TokenInv' /\ session' = answered
  <1> USE DEF kept, pyro, history, Fits
  <1>1. /\ session' = answered /\ session' \in Token /\ access' \in Token /\ lock = t
        /\ lock' = NoTask /\ answered' = NoToken /\ late' = late /\ newest' = newest
        /\ ~crossed' => access' = session'
    BY DEF TokenInv, TypeOK, RepliesAnswered, LoginStored, LoginHalfStored
  <1>2. PICK s : /\ task' = [task EXCEPT ![t] = s]
                 /\ s = Idle \/ s = Sending("refresh", session') \/ s = Sending("check", NoToken)
    BY DEF LoginStored, LoginHalfStored, Becomes, AfterLogin
  <1>3. Fits(s, session')
    BY <1>1, <1>2, TaskStates
  <1>4. TypeOK'
    <2>1. {inDate', alive', crossed', refused'} \subseteq BOOLEAN
      BY DEF LoginStored, LoginHalfStored, TokenInv, TypeOK
    <2>2. task' \in [Tasks -> TaskState] /\ \A u \in Tasks : task'[u].pc # "login"
      BY <1>1, <1>2, <1>3 DEF TokenInv, TypeOK
    <2>3. lock' \notin Tasks
      BY <1>1, TokenAssumption
    <2>4. QED
      BY <1>1, <2>1, <2>2, <2>3 DEF TokenInv, TypeOK, Token
  <1>5. RepliesAnswered'
    <2>1. \A u \in Tasks \ {t} : task[u].reply = NoToken
      BY <1>1 DEF TokenInv, TypeOK, RepliesAnswered
    <2>2. QED
      BY <1>2, <1>3, <2>1 DEF TokenInv, TypeOK, RepliesAnswered
  <1>6. NothingLate'
    <2>1. ~crossed' => \A o \in Tasks : ~UnderWay(o)
      BY DEF LoginStored, LoginHalfStored
    <2>2. QED
      BY <1>1, <1>2, <1>3, <2>1 DEF TokenInv, TypeOK, NothingLate, UnderWay
  <1>7. QED
    BY <1>1, <1>4, <1>5, <1>6 DEF TokenInv

(* No tokens, whether or not Pyro may still grant the login.                 *)
LEMMA FailsStep ==
  ASSUME TokenInv, NEW t \in Tasks, LoginFails(t) \/ LoginTimesOut(t)
  PROVE  TokenInv'
  <1> USE DEF kept, pyro, history, Fits
  <1>1. PICK s : /\ task' = [task EXCEPT ![t] = s]
                 /\ s = Idle \/ s = Sending("check", NoToken)
    BY DEF LoginFails, LoginTimesOut, Becomes, AfterLogin
  <1>2. Fits(s, session)
    BY <1>1, TaskStates DEF TokenInv, TypeOK
  <1>3. /\ UNCHANGED <<session, access, inDate, alive, crossed, refused>>
        /\ lock = t /\ lock' = NoTask /\ answered' = NoToken
        /\ newest' \in Token \cup {Unseen} /\ late' \in 0..MaxLate
    <2>1. late' \in 0..MaxLate
      <3>1. late \in 0..MaxLate /\ (late' = late \/ (late < MaxLate /\ late' = late + 1))
        BY DEF TokenInv, TypeOK, LoginFails, LoginTimesOut
      <3>2. QED
        BY <3>1, TokenAssumption
    <2>2. newest' \in Token \cup {Unseen}
      <3>1. CASE LoginFails(t)
        BY <3>1 DEF TokenInv, TypeOK, LoginFails
      <3>2. CASE LoginTimesOut(t)
        BY <3>2 DEF TokenInv, TypeOK, LoginTimesOut
      <3>3. QED
        BY <3>1, <3>2
    <2>3. UNCHANGED <<session, access, inDate, alive, crossed, refused>>
      BY DEF LoginFails, LoginTimesOut
    <2>4. lock = t /\ lock' = NoTask /\ answered' = NoToken
      BY DEF TokenInv, TypeOK, LoginFails, LoginTimesOut
    <2>5. QED
      BY <2>1, <2>2, <2>3, <2>4
  <1>4. TypeOK'
    BY <1>1, <1>2, <1>3, TokenAssumption DEF TokenInv, TypeOK, Token
  <1>5. RepliesAnswered'
    <2>1. \A u \in Tasks \ {t} : task[u].reply = NoToken
      BY <1>3 DEF TokenInv, TypeOK, RepliesAnswered
    <2>2. QED
      BY <1>1, <1>2, <2>1 DEF TokenInv, TypeOK, RepliesAnswered
  <1>6. NothingLate'
    BY <1>1, <1>2, <1>3 DEF TokenInv, TypeOK, NothingLate, UnderWay
  <1>7. QED
    BY <1>4, <1>5, <1>6 DEF TokenInv

(* An answer with an access token in it goes back to the session of the call. *)
LEMMA AcceptedStep ==
  ASSUME TokenInv, NEW t \in Tasks, RefreshAccepted(t) \/ ActionAccepted(t)
  PROVE  TokenInv'
  <1> USE DEF kept, pyro, history, Fits
  <1>1. /\ UnderWay(t) /\ access' = task[t].session /\ inDate' = TRUE
        /\ UNCHANGED <<session, lock, newest, alive, late, answered, crossed, refused>>
    BY DEF RefreshAccepted, ActionAccepted, UnderWay, StoreAccess
  <1>2. PICK s : /\ task' = [task EXCEPT ![t] = s]
                 /\ \/ s = Sending("action", session)
                    \/ s = Sending("check", NoToken)
                    \/ s = Sending("recharge", session)
    BY DEF RefreshAccepted, ActionAccepted, Becomes
  <1>3. Fits(s, session)
    BY <1>2, TaskStates DEF TokenInv, TypeOK
  <1>4. TypeOK'
    BY <1>1, <1>2, <1>3 DEF TokenInv, TypeOK, UnderWay, TaskState
  <1>5. RepliesAnswered' /\ NothingLate'
    BY <1>1, <1>2, <1>3 DEF TokenInv, TypeOK, RepliesAnswered, NothingLate, UnderWay
  <1>6. QED
    BY <1>4, <1>5 DEF TokenInv

(* Any other answer changes the task and at most what history remembers.     *)
LEMMA AnswerStep ==
  ASSUME TokenInv, NEW t \in Tasks,
         \/ RefreshFails(t) \/ ActionFails(t) \/ ToldInvalid(t)
         \/ Recharged(t) \/ RechargeInvalid(t) \/ Checked(t)
  PROVE  TokenInv'
  <1> USE DEF kept, pyro, history, Fits
  <1>1. /\ UNCHANGED <<session, access, inDate, lock, newest, alive, late, answered, crossed>>
        /\ refused' \in BOOLEAN /\ task[t].pc # "login"
    BY DEF RefreshFails, ActionFails, ToldInvalid, Recharged, RechargeInvalid, Checked,
           UnderWay, TokenInv, TypeOK
  <1>2. PICK s : /\ task' = [task EXCEPT ![t] = s]
                 /\ s = Idle \/ s = Sending("check", NoToken) \/ s = Waiting("done")
    BY DEF RefreshFails, ActionFails, ToldInvalid, Recharged, RechargeInvalid, Checked, Becomes
  <1>3. Fits(s, session)
    BY <1>2, TaskStates DEF TokenInv, TypeOK
  <1>4. TypeOK'
    BY <1>1, <1>2, <1>3 DEF TokenInv, TypeOK
  <1>5. RepliesAnswered' /\ NothingLate'
    BY <1>1, <1>2, <1>3 DEF TokenInv, TypeOK, RepliesAnswered, NothingLate, UnderWay
  <1>6. QED
    BY <1>4, <1>5 DEF TokenInv

(* Time, and a login nobody waits for, change nothing of what the tasks hold. *)
LEMMA TimeStep ==
  ASSUME TokenInv, LateGrant \/ AccessRunsOut \/ SessionRunsOut
  PROVE  TokenInv'
  <1>1. /\ UNCHANGED <<session, access, lock, task, answered, crossed, refused>>
        /\ {inDate', alive'} \subseteq BOOLEAN /\ late' \in 0..MaxLate
        /\ newest' \in Token \cup {Unseen}
    <2>1. late' \in 0..MaxLate
      BY TokenAssumption DEF LateGrant, AccessRunsOut, SessionRunsOut, TokenInv, TypeOK, pyro
    <2>2. UNCHANGED <<session, access, lock, task, answered, crossed, refused>>
      BY DEF LateGrant, AccessRunsOut, SessionRunsOut, kept, history
    <2>3. {inDate', alive'} \subseteq BOOLEAN /\ newest' \in Token \cup {Unseen}
      BY DEF LateGrant, AccessRunsOut, SessionRunsOut, TokenInv, TypeOK, kept, pyro
    <2>4. QED
      BY <2>1, <2>2, <2>3
  <1>2. QED
    BY <1>1 DEF TokenInv, TypeOK, RepliesAnswered, NothingLate, UnderWay

LEMMA NextInv ==
  ASSUME TokenInv, [Next]_vars
  PROVE  TokenInv' /\ (session' # session => session' = answered)
  <1>1. CASE UNCHANGED vars
    BY <1>1 DEF vars, kept, pyro, history, TokenInv, TypeOK, RepliesAnswered, NothingLate,
       UnderWay
  <1>2. ASSUME NEW t \in Tasks, TaskStep(t)
        PROVE  TokenInv' /\ (session' # session => session' = answered)
    <2>1. CASE LoginStored(t) \/ LoginHalfStored(t)
      BY <2>1, StoredStep
    <2>2. CASE ~(LoginStored(t) \/ LoginHalfStored(t))
      <3>1. session' = session
        BY <1>2, <2>2 DEF TaskStep, Authenticate, StartRecharge, StartCheck, Acquire,
           LoginGranted, LoginFails, LoginTimesOut, RefreshAccepted, RefreshFails, ActionAccepted, ActionFails,
           ToldInvalid, Recharged, RechargeInvalid, Checked, StoreAccess, kept
      <3>2. QED
        BY <1>2, <2>2, <3>1, StartStep, AcquireStep, GrantedStep, FailsStep, AcceptedStep,
           AnswerStep DEF TaskStep
    <2>3. QED
      BY <2>1, <2>2
  <1>3. CASE LateGrant \/ AccessRunsOut \/ SessionRunsOut
    BY <1>3, TimeStep DEF LateGrant, AccessRunsOut, SessionRunsOut, kept
  <1>4. QED
    BY <1>1, <1>2, <1>3, NextCases

-----------------------------------------------------------------------------
(* Every variable keeps its type, and the lock is held by exactly the task   *)
(* whose login is under way (authenticate).                                  *)
THEOREM TokenTypeCorrect == Spec => []TypeOK
  <1>1. TokenInv /\ [Next]_vars => TokenInv'
    BY NextInv
  <1>2. TokenInv => TypeOK
    BY DEF TokenInv
  <1>3. QED
    BY InitInv, <1>1, <1>2, PTL DEF Spec

(* The session and the access token held belong to one login, unless a       *)
(* refresh or an action token was under way when the last login was stored   *)
(* (refresh_access_token and get_action_token take no lock) or its answer    *)
(* had no access token.                                                      *)
THEOREM PairMatchesHolds == Spec => []PairMatches
  <1>1. TokenInv /\ [Next]_vars => TokenInv'
    BY NextInv
  <1>2. TokenInv => PairMatches
    BY DEF TokenInv, NothingLate, PairMatches
  <1>3. QED
    BY InitInv, <1>1, <1>2, PTL DEF Spec

(* However many tasks authenticate at once and whatever logins Pyro grants   *)
(* after their clients have timed out, a session token is only replaced by   *)
(* that of the login Pyro granted last to a client that still waits          *)
(* (authenticate under _auth_lock).                                          *)
THEOREM NewestStoredHolds == Spec => NewestStored
  <1>1. TokenInv /\ [Next]_vars => TokenInv'
    BY NextInv
  <1>2. TokenInv /\ [Next]_vars => [session' # session => session' = answered]_vars
    BY NextInv
  <1>3. QED
    BY InitInv, <1>1, <1>2, PTL DEF Spec, NewestStored
=============================================================================
