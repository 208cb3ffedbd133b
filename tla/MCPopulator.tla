----------------------------- MODULE MCPopulator -----------------------------
(* Instances of Populator for TLC.                                           *)
EXTENDS Populator

CONSTANTS c1, c2, c3, c4, c5, c6

(* c1 is the oldest record and c5 the newest; c3 and c4 were activated       *)
(* together.                                                                 *)
Activation ==
  [c \in BcdCafs |-> CASE c = c1 -> 0 [] c = c2 -> 1 [] c \in {c3, c4} -> 2 [] OTHER -> 3]

(* One GSM for every record, named after the record's CAF.                   *)
OwnGsm == [c \in BcdCafs |-> c]

Kyc(gsm, caf, usable, rejected) ==
  [gsm |-> gsm, caf |-> caf, usable |-> usable, rejected |-> rejected]

(* c1's KYC row has a CAF that BCD does not know; c2 has an EKYC and a DKYC  *)
(* row, one of them without a plan; c4's row has the CAF of c3, which also    *)
(* has one of its own; the table refuses c5's row.                           *)
MixedKyc == {Kyc(c1, c6, TRUE, FALSE), Kyc(c2, c2, TRUE, FALSE), Kyc(c2, c2, FALSE, FALSE),
             Kyc(c3, c3, TRUE, FALSE), Kyc(c4, c3, TRUE, FALSE), Kyc(c5, c5, TRUE, TRUE)}

(* Every record has its own row.                                             *)
CleanKyc == {Kyc(c, c, TRUE, FALSE) : c \in BcdCafs}
=============================================================================
