------------------------------ MODULE MCService ------------------------------
(* Instances of Service for TLC.                                             *)
EXTENDS DocClaims, TLC

CONSTANTS r1, r2, r3, r4

SameTime  == [r \in Rows |-> 0]
InOrder   == [r \in Rows |-> CASE r = r1 -> 0 [] r = r2 -> 1 [] r = r3 -> 2 [] OTHER -> 3]
OneDealer == [r \in Rows |-> 0]

(* Answers to an accepted POST, and to one that made no transaction.         *)
LostOrNot  == {REGISTERED, SUCCESS, NO_ANSWER}
AnyRefusal == {500, 5006, LOW_BALANCE, INVALID_TOKEN, NO_ACTION_TOKEN, NO_ANSWER}

(* Callbacks for a failed transaction.                                       *)
FailedCallback == {NOT_SUCCESS, 5006}

(* Runs of a job are interchangeable, and so are rows inserted together that *)
(* nothing else tells apart.                                                 *)
SameRuns == Permutations(Dispatchers) \cup Permutations(Checkers)
SameRows == Permutations(Rows)
=============================================================================
