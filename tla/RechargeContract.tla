--------------------------- MODULE RechargeContract ---------------------------
(* What the service promises for one request: the subscriber is charged at   *)
(* most once, and the verdict it records is final and is what happened.      *)
EXTENDS Naturals

CONSTANT Rows

VARIABLES
  verdict,   \* verdict[r]: "open", "success" or "failed", as the service says
  charges    \* charges[r]: how often Pyro charged for r

contractVars == <<verdict, charges>>

Init ==
  /\ verdict = [r \in Rows |-> "open"]
  /\ charges = [r \in Rows |-> 0]

Charge(r) ==
  /\ verdict[r] = "open" /\ charges[r] = 0
  /\ charges' = [charges EXCEPT ![r] = 1]
  /\ UNCHANGED verdict

ReportSuccess(r) ==
  /\ verdict[r] = "open" /\ charges[r] = 1
  /\ verdict' = [verdict EXCEPT ![r] = "success"]
  /\ UNCHANGED charges

ReportFailure(r) ==
  /\ verdict[r] = "open" /\ charges[r] = 0
  /\ verdict' = [verdict EXCEPT ![r] = "failed"]
  /\ UNCHANGED charges

Next == \E r \in Rows : Charge(r) \/ ReportSuccess(r) \/ ReportFailure(r)

Spec == Init /\ [][Next]_contractVars
=============================================================================
