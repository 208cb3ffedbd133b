------------------------------ MODULE PyroCodes ------------------------------
(* The status codes of the Pyro gateway, and how the service sorts them.     *)
EXTENDS Integers

SUCCESS    == 2000
REGISTERED == 2002
NOT_FOUND  == 901
TXN_FAILED == 902
LOW_BALANCE   == 405
INVALID_TOKEN == 506

(* statusCode of every answer the client makes up itself: a timeout, a       *)
(* transport error, a body that neither parses nor decrypts.                 *)
NO_ANSWER == -1

(* The client also answers -1 when no action token could be had; only the    *)
(* message tells this answer from NO_ANSWER, so it gets a number of its own. *)
NO_ACTION_TOKEN == -2

(* A callback with 2000 whose data.status is not "SUCCESS": only a callback  *)
(* has that field, and the endpoint treats this one as a failure.            *)
NOT_SUCCESS == -2000

PERMANENT_FAILURE_CODES == {406, 5001, 5002, 5006, 5007, 5011, 5012, 5030}
INVALID_DATA_CODES      == {5006, 5011, 5012, 5030}

(* BCD frc_flow_status: NP is "not processed yet", the others are written    *)
(* back by the service.                                                      *)
BcdStatuses == {"NP", "RQ", "W", "NR", "P", "ID", "F"}

BcdStatusForPyroFailure(code) == IF code \in INVALID_DATA_CODES THEN "ID" ELSE "F"
=============================================================================
