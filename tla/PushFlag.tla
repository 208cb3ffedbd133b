-------------------------------- MODULE PushFlag --------------------------------
(* The push state machine of a request (create_tables.sql): from the queue   *)
(* (N, E) to Pyro (P) while retries are left, and from there to a verdict    *)
(* (Y, F) or back to the queue, with the retry counted.  Each move is made   *)
(* in one step, on the row as it is.                                         *)
EXTENDS Naturals

CONSTANTS Rows, MaxRetries

VARIABLES
  flag,      \* flag[r]: push_flag
  retry      \* retry[r]: retry_count

pushVars == <<flag, retry>>

Init ==
  /\ flag = [r \in Rows |-> "N"]
  /\ retry = [r \in Rows |-> 0]

Queued(r) == flag[r] \in {"N", "E"} /\ retry[r] <= MaxRetries

Becomes(r, f) == flag' = [flag EXCEPT ![r] = f] /\ UNCHANGED retry

Push(r)   == Queued(r) /\ Becomes(r, "P")
GiveUp(r) == Queued(r) /\ Becomes(r, "F")

Retry(r) ==
  /\ Queued(r) \/ flag[r] = "P"
  /\ flag' = [flag EXCEPT ![r] = "E"]
  /\ retry' = [retry EXCEPT ![r] = @ + 1]

Confirm(r) == flag[r] = "P" /\ Becomes(r, "Y")
Deny(r)    == flag[r] = "P" /\ Becomes(r, "F")

Next == \E r \in Rows : Push(r) \/ GiveUp(r) \/ Retry(r) \/ Confirm(r) \/ Deny(r)

Spec == Init /\ [][Next]_pushVars
=============================================================================
